-------------------------- MODULE MCWebSocketClient --------------------------
(* Two sockets, so that one may be closing while the next one opens; three *)
(* timers: one to reconnect, one to ping, and one that either might leak.  *)
EXTENDS WebSocketClient, TLC

CONSTANTS s1, s2, t1, t2, t3

MCSockets == {s1, s2}
MCTimers == {t1, t2, t3}
=============================================================================
