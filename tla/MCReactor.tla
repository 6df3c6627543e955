----------------------------- MODULE MCReactor -----------------------------
(* Two clients who send two frames between them: one each, so that two pool *)
(* threads send to one handler, or both from one, so that a buffer may hold *)
(* two.  What an answer does, a broadcast does as well.                     *)
EXTENDS Reactor

ASSUME EnoughForARace == Cardinality(Conns) > 1 /\ MaxFrames > 1

MCKinds == FrameKinds \ {"answer"}
=============================================================================
