--------------------------- MODULE MCStompServer ---------------------------
(* Small instances of StompServer: which frames the clients may send.       *)
EXTENDS StompServer, TLC

CONSTANTS u1, u2, p1, p2, game

TwoUsers == {u1, u2}
OneUser == {u1}
TwoPasswords == {p1, p2}
OnePassword == {p1}
OneChannel == {game}
OneSubId == {1}
TwoSubIds == {1, 2}

Make(cmd, hdrs, user, pass, sub) ==
  [cmd |-> cmd, hdrs |-> hdrs, broken |-> FALSE,
   user |-> user, pass |-> pass, chan |-> game, sub |-> sub]

Plain(cmd, hdrs) == Make(cmd, hdrs, u1, p1, 1)
Full(cmd) == Plain(cmd, Required[cmd])
Connect(u, p) == Make("CONNECT", Required["CONNECT"], u, p, 1)
Without(cmd, missing) == Plain(cmd, Required[cmd] \ missing)

Broken == [Plain("SUBSCRIBE", {"destination"}) EXCEPT !.broken = TRUE]

(* Every command complete, a wrong passcode, and a line that raises.  That  *)
(* one, and others at the wrong moment, leave their headers behind for the  *)
(* next frame.                                                              *)
SerialFrames ==
  {Connect(u1, p1), Connect(u1, p2), Connect(u2, p1), Broken} \cup
  {Full(cmd) : cmd \in Commands \ {"CONNECT"}}

(* What the C++ client sends, and frames that lack a header or a value.     *)
ParallelFrames ==
  {Connect(u, p1) : u \in TwoUsers} \cup
  {Full(cmd) : cmd \in {"SEND", "SUBSCRIBE", "DISCONNECT"}}  \cup
  {Without("SUBSCRIBE", {"destination"}), Without("SUBSCRIBE", {"id"}), Broken}

Symmetry == Permutations(Conns)
=============================================================================
