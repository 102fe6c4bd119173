------------------------ MODULE MCReliableWebSocket ------------------------
(* Model values for ReliableWebSocket: two WebConn objects are enough for  *)
(* a client that comes back while its old connection is still there, and   *)
(* broadcasts 2 and 3 stand for those that a hook rejects or that do not   *)
(* encode.                                                                 *)
EXTENDS ReliableWebSocket, TLC

CONSTANTS c1, c2

MCConns == {c1, c2}
MCSymmetry == Permutations(MCConns)
MCNone == {}
MCSecond == {2}
MCThird == {3}
=============================================================================
