------------------------- MODULE MCBlockingHandler -------------------------
(* The array starts with one byte, so that frames of three make it grow     *)
(* twice; two threads send beside the handler's own.                        *)
EXTENDS BlockingHandler

ASSUME GrowsTwice == (\E n \in Lengths : n > 2 * Capacity)
ASSUME SomebodySends == Others # {} /\ MaxWork > 3
=============================================================================
