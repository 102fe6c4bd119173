------------------------ MODULE WebSocketClientProofs ------------------------
(***************************************************************************)
(* Proofs about WebSocketClient, for any number of sockets and timers, any *)
(* retry times and any bounds: the client has one socket, leaks no timer,  *)
(* is never idle, notices a silent server, gives up only on a server that  *)
(* owes it an answer, and keeps its attempts apart.                        *)
(***************************************************************************)
EXTENDS WebSocketClient, TLAPS

(* The requests that can still be answered were made on this.conn, and     *)
(* while it is open their numbers are behind responseSequence.             *)
AskedInv ==
    \A r \in asked :
        /\ readyState[r[1]] \in {"open", "closing"}
        /\ readyState[r[1]] = "open" =>
             r[2] < responseSequence \/ responseSequence = MaxSeq

(* The time that is left of a backoff covers what is left to the next      *)
(* attempt; without a socket and without a timer nothing is left.          *)
ApartInv ==
    /\ reconnectTimeout # None =>
         timeouts[reconnectTimeout] + sinceAttempt >= minWebSocketRetryTime
    /\ conn = None /\ reconnectTimeout = None => sinceAttempt = minWebSocketRetryTime

(* The inductive invariant.                                                *)
ClientInv ==
    /\ TypeOK
    /\ OneSocket
    /\ NothingLeaks
    /\ NeverIdle
    /\ SilenceIsNoticed
    /\ AskedInv
    /\ WaitsForAnAnswer
    /\ ApartInv

(* A backoff is never shorter than the shortest retry.                     *)
LEMMA RetryTimeLongEnough ==
  ASSUME NEW fails \in Nat \ {0}
  PROVE  RetryTime(fails) \in Nat /\ RetryTime(fails) >= minWebSocketRetryTime
<1>1. fails * fails \in Nat /\ fails * fails >= 1
  OBVIOUS
<1>2. ASSUME NEW k \in Nat, k >= 1, NEW m \in Nat PROVE m * k \in Nat /\ m * k >= m
  BY <1>2
<1>3. minWebSocketRetryTime * fails * fails = minWebSocketRetryTime * (fails * fails)
  BY RetryAssumption
<1>4. /\ minWebSocketRetryTime * fails * fails \in Nat
      /\ minWebSocketRetryTime * fails * fails >= minWebSocketRetryTime
  BY <1>1, <1>2, <1>3, RetryAssumption
<1> QED
  BY <1>4, RetryAssumption DEF RetryTime

(* The counts of the bounds stay counts.                                   *)
LEMMA UseType ==
  ASSUME used \in [faults : Nat, network : Nat, requests : Nat, closes : Nat],
         NEW what \in {"faults", "network", "requests", "closes"}, NEW bound,
         Use(what, bound)
  PROVE  used' \in [faults : Nat, network : Nat, requests : Nat, closes : Nat]
<1>1. CASE what = "faults" BY <1>1 DEF Use
<1>2. CASE what = "network" BY <1>2 DEF Use
<1>3. CASE what = "requests" BY <1>3 DEF Use
<1>4. CASE what = "closes" BY <1>4 DEF Use
<1> QED BY <1>1, <1>2, <1>3, <1>4

(* What onclose leaves: no socket, no interval, one timer that waits long  *)
(* enough.                                                                 *)
LEMMA Closed ==
  ASSUME ClientInv, NEW fails \in Nat \ {0}, HandleClose(fails)
  PROVE  /\ conn' = None
         /\ responseSequence' = 1
         /\ responseCallbacks' = responseCallbacks
         /\ connectFailCount' \in Nat
         /\ intervals' = {} /\ pingInterval' = None
         /\ reconnectTimeout' \in Timers
         /\ timeouts' \in [Timers -> {Off} \cup Nat]
         /\ \A t \in Timers : timeouts'[t] # Off <=> t = reconnectTimeout'
         /\ timeouts'[reconnectTimeout'] + sinceAttempt' >= minWebSocketRetryTime
         /\ UNCHANGED <<waitingForPong, listening, wanted, sinceAttempt>>
<1> USE SocketAssumption, RetryAssumption, BoundAssumption
    DEF ClientInv, TypeOK, NothingLeaks, ApartInv, Off
<1>1. intervals' = {} /\ pingInterval' = None
  BY DEF HandleClose, StopPingInterval
<1>2. CASE reconnectTimeout # None
  BY <1>1, <1>2 DEF HandleClose, RestartNumbering, ScheduleReconnect
<1>3. CASE reconnectTimeout = None
  <2>1. PICK t \in Timers, jitter \in 0 .. reconnectJitterRange :
          /\ timeouts[t] = Off
          /\ timeouts' = [timeouts EXCEPT ![t] = RetryTime(fails) + jitter]
          /\ reconnectTimeout' = t
    BY <1>3 DEF HandleClose, ScheduleReconnect
  <2>2. /\ RetryTime(fails) + jitter \in Nat
        /\ RetryTime(fails) + jitter >= minWebSocketRetryTime
    <3>1. RetryTime(fails) \in Nat /\ RetryTime(fails) >= minWebSocketRetryTime
      BY RetryTimeLongEnough
    <3> QED
      BY <3>1
  <2>3. timeouts' \in [Timers -> {Off} \cup Nat]
    BY <2>1, <2>2
  <2>4. \A u \in Timers : timeouts'[u] # Off <=> u = t
    BY <1>3, <2>1, <2>2
  <2>5. timeouts'[t] + sinceAttempt' >= minWebSocketRetryTime
    BY <2>1, <2>2 DEF HandleClose
  <2> QED
    BY <1>1, <2>1, <2>3, <2>4, <2>5 DEF HandleClose, RestartNumbering
<1> QED
  BY <1>2, <1>3

LEMMA InitInv == Init => ClientInv
<1> SUFFICES ASSUME Init PROVE ClientInv
  OBVIOUS
<1> USE SocketAssumption, RetryAssumption, BoundAssumption DEF Init
<1>1. TypeOK
  <2>1. /\ readyState \in [Sockets -> States]
        /\ timeouts \in [Timers -> {Off} \cup Nat]
        /\ responseCallbacks \in [1 .. MaxSeq -> {"none", "pong", "reply"}]
    BY DEF States
  <2>2. used \in [faults : Nat, network : Nat, requests : Nat, closes : Nat]
    OBVIOUS
  <2>3. responseSequence \in 1 .. MaxSeq /\ sinceAttempt \in 0 .. minWebSocketRetryTime
    OBVIOUS
  <2> QED
    BY <2>1, <2>2, <2>3 DEF TypeOK
<1>2. OneSocket BY DEF OneSocket, Live
<1>3. NothingLeaks BY DEF NothingLeaks
<1>4. NeverIdle BY DEF NeverIdle
<1>5. SilenceIsNoticed BY DEF SilenceIsNoticed, IsOpen
<1>6. AskedInv BY DEF AskedInv
<1>7. WaitsForAnAnswer BY DEF WaitsForAnAnswer, IsOpen
<1>8. ApartInv BY DEF ApartInv
<1> QED BY <1>1, <1>2, <1>3, <1>4, <1>5, <1>6, <1>7, <1>8 DEF ClientInv

(* The socket that lives stays this.conn: a new one is made only when conn *)
(* is null, and conn is given up only with its socket.                     *)
LEMMA OneSocketStep == ClientInv /\ [Next]_vars => OneSocket'
<1> SUFFICES ASSUME ClientInv, [Next]_vars PROVE OneSocket'
  OBVIOUS
<1> USE SocketAssumption, RetryAssumption, BoundAssumption
    DEF ClientInv, TypeOK, OneSocket, Live, States, vars, socketVars, timerVars, requestVars, otherVars
<1>1. ASSUME NEW s \in Sockets, Initialize(s) PROVE OneSocket'
  BY <1>1 DEF Initialize, Connect
<1>2. ASSUME NEW t \in Timers, NEW s \in Sockets, Reconnect(t, s) PROVE OneSocket'
  BY <1>2 DEF Reconnect, Connect
<1>3. ASSUME NEW s \in Sockets, OnOpen(s) PROVE OneSocket'
  BY <1>3 DEF OnOpen, Request, Sent, IsOpen
<1>4. ASSUME NEW s \in Sockets, OnClose(s) PROVE OneSocket'
  BY <1>4 DEF HandleClose, OnClose
<1>5. ASSUME OnMismatch PROVE OneSocket'
  BY <1>5 DEF OnMismatch, DropSocket, HandleClose, IsOpen
<1>6. ASSUME NEW t \in Timers, PongMissing(t) PROVE OneSocket'
  BY <1>6 DEF PongMissing, DropSocket, HandleClose, IsOpen
<1>7. ASSUME NEW t \in Timers, PingAgain(t) PROVE OneSocket'
  BY <1>7 DEF PingAgain, Ping, Request, Sent, IsOpen
<1>8. ASSUME NEW s \in Sockets, Dropped(s) PROVE OneSocket'
  BY <1>8 DEF Dropped
<1>9. ASSUME NEW s \in Sockets, ServerCloses(s) PROVE OneSocket'
  BY <1>9 DEF ServerCloses, Use
<1>10. ASSUME NEW s \in Sockets, NetworkLost(s) PROVE OneSocket'
  BY <1>10 DEF NetworkLost, Use
<1>11. ASSUME NEW s \in Sockets, NEW n \in 1 .. MaxSeq, OnResponse(s, n) PROVE OneSocket'
  BY <1>11 DEF OnResponse
<1>12. ASSUME NEW callback \in {"none", "reply"}, SendMessage(callback) PROVE OneSocket'
  BY <1>12 DEF SendMessage, Request, Sent, IsOpen, Use
<1>13. ASSUME Online PROVE OneSocket'
  BY <1>13 DEF Online, ClearedTimeouts, IsOpen, Use
<1>14. ASSUME Offline PROVE OneSocket'
  BY <1>14 DEF Offline, Ping, Request, Sent, IsOpen, Use
<1>15. ASSUME Close PROVE OneSocket'
  BY <1>15 DEF Close, Use, ClearedTimeouts, RestartNumbering, StopPingInterval, IsOpen
<1>16. ASSUME Tick PROVE OneSocket'
  BY <1>16 DEF Tick
<1>17. CASE UNCHANGED vars
  BY <1>17
<1> QED
  BY <1>1, <1>2, <1>3, <1>4, <1>5, <1>6, <1>7, <1>8, <1>9, <1>10, <1>11, <1>12, <1>13, <1>14, <1>15, <1>16, <1>17 DEF Next, Interval

(* Timers: the id of a timer is overwritten only after the timer has fired *)
(* or was cleared.                                                         *)
LEMMA NothingLeaksStep == ClientInv /\ [Next]_vars => NothingLeaks'
<1> SUFFICES ASSUME ClientInv, [Next]_vars PROVE NothingLeaks'
  OBVIOUS
<1> USE SocketAssumption, RetryAssumption, BoundAssumption
    DEF ClientInv, TypeOK, NothingLeaks, OneSocket, Live, Off, vars, socketVars, timerVars, requestVars, otherVars
<1>1. ASSUME NEW s \in Sockets, Initialize(s) PROVE NothingLeaks'
  BY <1>1 DEF Initialize, Connect
<1>2. ASSUME NEW t \in Timers, NEW s \in Sockets, Reconnect(t, s) PROVE NothingLeaks'
  BY <1>2 DEF Reconnect, Connect
<1>3. ASSUME NEW s \in Sockets, OnOpen(s) PROVE NothingLeaks'
  BY <1>3 DEF OnOpen, Request, Sent, IsOpen
<1>4. ASSUME NEW s \in Sockets, OnClose(s) PROVE NothingLeaks'
  <2>1. HandleClose(connectFailCount + 1) /\ connectFailCount + 1 \in Nat \ {0}
    BY <1>4 DEF OnClose
  <2>2. /\ intervals' = {} /\ pingInterval' = None
        /\ \A u \in Timers : timeouts'[u] # Off <=> u = reconnectTimeout'
    BY <2>1, Closed
  <2> QED
    BY <1>4, <2>2 DEF OnClose, IsOpen
<1>5. ASSUME OnMismatch PROVE NothingLeaks'
  <2>1. HandleClose(1) /\ 1 \in Nat \ {0}
    BY <1>5 DEF OnMismatch, DropSocket
  <2>2. /\ intervals' = {} /\ pingInterval' = None
        /\ \A u \in Timers : timeouts'[u] # Off <=> u = reconnectTimeout'
    BY <2>1, Closed
  <2> QED
    BY <1>5, <2>2 DEF OnMismatch, DropSocket, IsOpen
<1>6. ASSUME NEW t \in Timers, PongMissing(t) PROVE NothingLeaks'
  <2>1. CASE IsOpen
    <3>1. HandleClose(1) /\ 1 \in Nat \ {0}
      BY <1>6, <2>1 DEF PongMissing, DropSocket
    <3>2. /\ intervals' = {} /\ pingInterval' = None
          /\ \A u \in Timers : timeouts'[u] # Off <=> u = reconnectTimeout'
      BY <3>1, Closed
    <3> QED
      BY <1>6, <2>1, <3>2 DEF PongMissing, DropSocket, IsOpen
  <2>2. CASE ~IsOpen
    BY ZenonT(30), <1>6, <2>2 DEF PongMissing, StopPingInterval, IsOpen
  <2> QED
    BY <2>1, <2>2
<1>7. ASSUME NEW t \in Timers, PingAgain(t) PROVE NothingLeaks'
  BY <1>7 DEF PingAgain, Ping, Request, Sent, IsOpen
<1>8. ASSUME NEW s \in Sockets, Dropped(s) PROVE NothingLeaks'
  BY <1>8 DEF Dropped
<1>9. ASSUME NEW s \in Sockets, ServerCloses(s) PROVE NothingLeaks'
  BY <1>9 DEF ServerCloses, Use
<1>10. ASSUME NEW s \in Sockets, NetworkLost(s) PROVE NothingLeaks'
  BY <1>10 DEF NetworkLost, Use
<1>11. ASSUME NEW s \in Sockets, NEW n \in 1 .. MaxSeq, OnResponse(s, n) PROVE NothingLeaks'
  BY <1>11 DEF OnResponse
<1>12. ASSUME NEW callback \in {"none", "reply"}, SendMessage(callback) PROVE NothingLeaks'
  BY <1>12 DEF SendMessage, Request, Sent, IsOpen, Use
<1>13. ASSUME Online PROVE NothingLeaks'
  BY <1>13 DEF Online, ClearedTimeouts, IsOpen, Use
<1>14. ASSUME Offline PROVE NothingLeaks'
  BY <1>14 DEF Offline, Ping, Request, Sent, IsOpen, Use
<1>15. ASSUME Close PROVE NothingLeaks'
  BY <1>15 DEF Close, Use, ClearedTimeouts, RestartNumbering, StopPingInterval, IsOpen
<1>16. ASSUME Tick PROVE NothingLeaks'
  BY <1>16 DEF Tick
<1>17. CASE UNCHANGED vars
  BY <1>17
<1> QED
  BY <1>1, <1>2, <1>3, <1>4, <1>5, <1>6, <1>7, <1>8, <1>9, <1>10, <1>11, <1>12, <1>13, <1>14, <1>15, <1>16, <1>17 DEF Next, Interval

(* A client that is wanted gives up its socket for a timer, and the timer  *)
(* for a socket.                                                           *)
LEMMA NeverIdleStep == ClientInv /\ [Next]_vars => NeverIdle'
<1> SUFFICES ASSUME ClientInv, [Next]_vars PROVE NeverIdle'
  OBVIOUS
<1> USE SocketAssumption, RetryAssumption, BoundAssumption
    DEF ClientInv, TypeOK, NeverIdle, OneSocket, Live, vars, socketVars, timerVars, requestVars, otherVars
<1>1. ASSUME NEW s \in Sockets, Initialize(s) PROVE NeverIdle'
  BY <1>1 DEF Initialize, Connect
<1>2. ASSUME NEW t \in Timers, NEW s \in Sockets, Reconnect(t, s) PROVE NeverIdle'
  BY <1>2 DEF Reconnect, Connect
<1>3. ASSUME NEW s \in Sockets, OnOpen(s) PROVE NeverIdle'
  BY <1>3 DEF OnOpen, Request, Sent, IsOpen
<1>4. ASSUME NEW s \in Sockets, OnClose(s) PROVE NeverIdle'
  <2>1. HandleClose(connectFailCount + 1) /\ connectFailCount + 1 \in Nat \ {0}
    BY <1>4 DEF OnClose
  <2>2. reconnectTimeout' \in Timers
    BY <2>1, Closed
  <2> QED
    BY <1>4, <2>2 DEF OnClose, IsOpen
<1>5. ASSUME OnMismatch PROVE NeverIdle'
  <2>1. HandleClose(1) /\ 1 \in Nat \ {0}
    BY <1>5 DEF OnMismatch, DropSocket
  <2>2. reconnectTimeout' \in Timers
    BY <2>1, Closed
  <2> QED
    BY <1>5, <2>2 DEF OnMismatch, DropSocket, IsOpen
<1>6. ASSUME NEW t \in Timers, PongMissing(t) PROVE NeverIdle'
  <2>1. CASE IsOpen
    <3>1. HandleClose(1) /\ 1 \in Nat \ {0}
      BY <1>6, <2>1 DEF PongMissing, DropSocket
    <3>2. reconnectTimeout' \in Timers
      BY <3>1, Closed
    <3> QED
      BY <1>6, <2>1, <3>2 DEF PongMissing, DropSocket, IsOpen
  <2>2. CASE ~IsOpen
    BY <1>6, <2>2 DEF PongMissing, StopPingInterval, IsOpen
  <2> QED
    BY <2>1, <2>2
<1>7. ASSUME NEW t \in Timers, PingAgain(t) PROVE NeverIdle'
  BY <1>7 DEF PingAgain, Ping, Request, Sent, IsOpen
<1>8. ASSUME NEW s \in Sockets, Dropped(s) PROVE NeverIdle'
  BY <1>8 DEF Dropped
<1>9. ASSUME NEW s \in Sockets, ServerCloses(s) PROVE NeverIdle'
  BY <1>9 DEF ServerCloses, Use
<1>10. ASSUME NEW s \in Sockets, NetworkLost(s) PROVE NeverIdle'
  BY <1>10 DEF NetworkLost, Use
<1>11. ASSUME NEW s \in Sockets, NEW n \in 1 .. MaxSeq, OnResponse(s, n) PROVE NeverIdle'
  BY <1>11 DEF OnResponse
<1>12. ASSUME NEW callback \in {"none", "reply"}, SendMessage(callback) PROVE NeverIdle'
  BY <1>12 DEF SendMessage, Request, Sent, IsOpen, Use
<1>13. ASSUME Online PROVE NeverIdle'
  BY <1>13 DEF Online, ClearedTimeouts, IsOpen, Use
<1>14. ASSUME Offline PROVE NeverIdle'
  BY <1>14 DEF Offline, Ping, Request, Sent, IsOpen, Use
<1>15. ASSUME Close PROVE NeverIdle'
  BY <1>15 DEF Close, Use, ClearedTimeouts, RestartNumbering, StopPingInterval, IsOpen
<1>16. ASSUME Tick PROVE NeverIdle'
  BY <1>16 DEF Tick
<1>17. CASE UNCHANGED vars
  BY <1>17
<1> QED
  BY <1>1, <1>2, <1>3, <1>4, <1>5, <1>6, <1>7, <1>8, <1>9, <1>10, <1>11, <1>12, <1>13, <1>14, <1>15, <1>16, <1>17 DEF Next, Interval

(* The interval of an open socket asks, then gives up.                     *)
LEMMA SilenceStep == ClientInv /\ [Next]_vars => SilenceIsNoticed'
<1> SUFFICES ASSUME ClientInv, [Next]_vars PROVE SilenceIsNoticed'
  OBVIOUS
<1> USE SocketAssumption, RetryAssumption, BoundAssumption
    DEF ClientInv, TypeOK, SilenceIsNoticed, NothingLeaks, OneSocket, Live, IsOpen, vars, socketVars, timerVars, requestVars, otherVars
<1>1. ASSUME NEW s \in Sockets, Initialize(s) PROVE SilenceIsNoticed'
  BY <1>1 DEF Initialize, Connect
<1>2. ASSUME NEW t \in Timers, NEW s \in Sockets, Reconnect(t, s) PROVE SilenceIsNoticed'
  BY <1>2 DEF Reconnect, Connect
<1>3. ASSUME NEW s \in Sockets, OnOpen(s) PROVE SilenceIsNoticed'
  BY <1>3 DEF OnOpen, Request, Sent, IsOpen
<1>4. ASSUME NEW s \in Sockets, OnClose(s) PROVE SilenceIsNoticed'
  BY <1>4 DEF OnClose, Use, HandleClose, RestartNumbering, StopPingInterval, ScheduleReconnect
<1>5. ASSUME OnMismatch PROVE SilenceIsNoticed'
  BY <1>5 DEF OnMismatch, DropSocket, IsOpen, Use, HandleClose, RestartNumbering, StopPingInterval, ScheduleReconnect
<1>6. ASSUME NEW t \in Timers, PongMissing(t) PROVE SilenceIsNoticed'
  BY <1>6 DEF PongMissing, DropSocket, IsOpen, Use, HandleClose, RestartNumbering, StopPingInterval, ScheduleReconnect
<1>7. ASSUME NEW t \in Timers, PingAgain(t) PROVE SilenceIsNoticed'
  BY <1>7 DEF PingAgain, Ping, Request, Sent, IsOpen
<1>8. ASSUME NEW s \in Sockets, Dropped(s) PROVE SilenceIsNoticed'
  BY <1>8 DEF Dropped
<1>9. ASSUME NEW s \in Sockets, ServerCloses(s) PROVE SilenceIsNoticed'
  BY <1>9 DEF ServerCloses, Use
<1>10. ASSUME NEW s \in Sockets, NetworkLost(s) PROVE SilenceIsNoticed'
  BY <1>10 DEF NetworkLost, Use
<1>11. ASSUME NEW s \in Sockets, NEW n \in 1 .. MaxSeq, OnResponse(s, n) PROVE SilenceIsNoticed'
  BY <1>11 DEF OnResponse
<1>12. ASSUME NEW callback \in {"none", "reply"}, SendMessage(callback) PROVE SilenceIsNoticed'
  BY <1>12 DEF SendMessage, Request, Sent, IsOpen, Use
<1>13. ASSUME Online PROVE SilenceIsNoticed'
  BY <1>13 DEF Online, ClearedTimeouts, IsOpen, Use
<1>14. ASSUME Offline PROVE SilenceIsNoticed'
  BY <1>14 DEF Offline, Ping, Request, Sent, IsOpen, Use
<1>15. ASSUME Close PROVE SilenceIsNoticed'
  BY <1>15 DEF Close, Use, ClearedTimeouts, RestartNumbering, StopPingInterval, IsOpen
<1>16. ASSUME Tick PROVE SilenceIsNoticed'
  BY <1>16 DEF Tick
<1>17. CASE UNCHANGED vars
  BY <1>17
<1> QED
  BY <1>1, <1>2, <1>3, <1>4, <1>5, <1>6, <1>7, <1>8, <1>9, <1>10, <1>11, <1>12, <1>13, <1>14, <1>15, <1>16, <1>17 DEF Next, Interval

(* Nothing asked outlives its socket; the numbering restarts only when the *)
(* socket is given up, or is not open.                                     *)
LEMMA AskedStep == ClientInv /\ [Next]_vars => AskedInv'
<1> SUFFICES ASSUME ClientInv, [Next]_vars PROVE AskedInv'
  OBVIOUS
<1> USE SocketAssumption, RetryAssumption, BoundAssumption
    DEF ClientInv, TypeOK, AskedInv, OneSocket, Live, IsOpen, vars, socketVars, timerVars, requestVars, otherVars
<1>1. ASSUME NEW s \in Sockets, Initialize(s) PROVE AskedInv'
  BY <1>1 DEF Initialize, Connect
<1>2. ASSUME NEW t \in Timers, NEW s \in Sockets, Reconnect(t, s) PROVE AskedInv'
  BY <1>2 DEF Reconnect, Connect
<1>3. ASSUME NEW s \in Sockets, OnOpen(s) PROVE AskedInv'
  BY <1>3 DEF OnOpen, Request, Sent, IsOpen
<1>4. ASSUME NEW s \in Sockets, OnClose(s) PROVE AskedInv'
  <2>1. HandleClose(connectFailCount + 1) /\ connectFailCount + 1 \in Nat \ {0}
    BY <1>4 DEF OnClose
  <2>2. conn' = None
    BY <2>1, Closed
  <2> QED
    BY <1>4, <2>2 DEF OnClose, IsOpen
<1>5. ASSUME OnMismatch PROVE AskedInv'
  <2>1. HandleClose(1) /\ 1 \in Nat \ {0}
    BY <1>5 DEF OnMismatch, DropSocket
  <2>2. conn' = None
    BY <2>1, Closed
  <2> QED
    BY <1>5, <2>2 DEF OnMismatch, DropSocket, IsOpen
<1>6. ASSUME NEW t \in Timers, PongMissing(t) PROVE AskedInv'
  <2>1. CASE IsOpen
    <3>1. HandleClose(1) /\ 1 \in Nat \ {0}
      BY <1>6, <2>1 DEF PongMissing, DropSocket
    <3>2. conn' = None
      BY <3>1, Closed
    <3> QED
      BY <1>6, <2>1, <3>2 DEF PongMissing, DropSocket, IsOpen
  <2>2. CASE ~IsOpen
    BY <1>6, <2>2 DEF PongMissing, StopPingInterval, IsOpen
  <2> QED
    BY <2>1, <2>2
<1>7. ASSUME NEW t \in Timers, PingAgain(t) PROVE AskedInv'
  BY <1>7 DEF PingAgain, Ping, Request, Sent, IsOpen
<1>8. ASSUME NEW s \in Sockets, Dropped(s) PROVE AskedInv'
  BY <1>8 DEF Dropped
<1>9. ASSUME NEW s \in Sockets, ServerCloses(s) PROVE AskedInv'
  BY <1>9 DEF ServerCloses, Use
<1>10. ASSUME NEW s \in Sockets, NetworkLost(s) PROVE AskedInv'
  BY <1>10 DEF NetworkLost, Use
<1>11. ASSUME NEW s \in Sockets, NEW n \in 1 .. MaxSeq, OnResponse(s, n) PROVE AskedInv'
  BY <1>11 DEF OnResponse
<1>12. ASSUME NEW callback \in {"none", "reply"}, SendMessage(callback) PROVE AskedInv'
  BY <1>12 DEF SendMessage, Request, Sent, IsOpen, Use
<1>13. ASSUME Online PROVE AskedInv'
  BY <1>13 DEF Online, ClearedTimeouts, IsOpen, Use
<1>14. ASSUME Offline PROVE AskedInv'
  BY <1>14 DEF Offline, Ping, Request, Sent, IsOpen, Use
<1>15. ASSUME Close PROVE AskedInv'
  BY <1>15 DEF Close, Use, ClearedTimeouts, RestartNumbering, StopPingInterval, IsOpen
<1>16. ASSUME Tick PROVE AskedInv'
  BY <1>16 DEF Tick
<1>17. CASE UNCHANGED vars
  BY <1>17
<1> QED
  BY <1>1, <1>2, <1>3, <1>4, <1>5, <1>6, <1>7, <1>8, <1>9, <1>10, <1>11, <1>12, <1>13, <1>14, <1>15, <1>16, <1>17 DEF Next, Interval

(* What is waited for was asked: later requests use other numbers, and only *)
(* the answer takes the callback away.                                     *)
LEMMA AnswerStep == ClientInv /\ [Next]_vars => WaitsForAnAnswer'
<1> SUFFICES ASSUME ClientInv, [Next]_vars PROVE WaitsForAnAnswer'
  OBVIOUS
<1> USE SocketAssumption, RetryAssumption, BoundAssumption
    DEF ClientInv, TypeOK, WaitsForAnAnswer, AskedInv, OneSocket, Live, IsOpen, vars, socketVars, timerVars, requestVars, otherVars
<1>1. ASSUME NEW s \in Sockets, Initialize(s) PROVE WaitsForAnAnswer'
  BY <1>1 DEF Initialize, Connect
<1>2. ASSUME NEW t \in Timers, NEW s \in Sockets, Reconnect(t, s) PROVE WaitsForAnAnswer'
  BY <1>2 DEF Reconnect, Connect
<1>3. ASSUME NEW s \in Sockets, OnOpen(s) PROVE WaitsForAnAnswer'
  BY <1>3 DEF OnOpen, Request, Sent, IsOpen
<1>4. ASSUME NEW s \in Sockets, OnClose(s) PROVE WaitsForAnAnswer'
  <2>1. HandleClose(connectFailCount + 1) /\ connectFailCount + 1 \in Nat \ {0}
    BY <1>4 DEF OnClose
  <2>2. conn' = None
    BY <2>1, Closed
  <2> QED
    BY <1>4, <2>2 DEF OnClose, IsOpen
<1>5. ASSUME OnMismatch PROVE WaitsForAnAnswer'
  <2>1. HandleClose(1) /\ 1 \in Nat \ {0}
    BY <1>5 DEF OnMismatch, DropSocket
  <2>2. conn' = None
    BY <2>1, Closed
  <2> QED
    BY <1>5, <2>2 DEF OnMismatch, DropSocket, IsOpen
<1>6. ASSUME NEW t \in Timers, PongMissing(t) PROVE WaitsForAnAnswer'
  <2>1. CASE IsOpen
    <3>1. HandleClose(1) /\ 1 \in Nat \ {0}
      BY <1>6, <2>1 DEF PongMissing, DropSocket
    <3>2. conn' = None
      BY <3>1, Closed
    <3> QED
      BY <1>6, <2>1, <3>2 DEF PongMissing, DropSocket, IsOpen
  <2>2. CASE ~IsOpen
    BY <1>6, <2>2 DEF PongMissing, StopPingInterval, IsOpen
  <2> QED
    BY <2>1, <2>2
<1>7. ASSUME NEW t \in Timers, PingAgain(t) PROVE WaitsForAnAnswer'
  BY <1>7 DEF PingAgain, Ping, Request, Sent, IsOpen
<1>8. ASSUME NEW s \in Sockets, Dropped(s) PROVE WaitsForAnAnswer'
  BY <1>8 DEF Dropped
<1>9. ASSUME NEW s \in Sockets, ServerCloses(s) PROVE WaitsForAnAnswer'
  BY <1>9 DEF ServerCloses, Use
<1>10. ASSUME NEW s \in Sockets, NetworkLost(s) PROVE WaitsForAnAnswer'
  BY <1>10 DEF NetworkLost, Use
<1>11. ASSUME NEW s \in Sockets, NEW n \in 1 .. MaxSeq, OnResponse(s, n) PROVE WaitsForAnAnswer'
  BY <1>11 DEF OnResponse
<1>12. ASSUME NEW callback \in {"none", "reply"}, SendMessage(callback) PROVE WaitsForAnAnswer'
  BY <1>12 DEF SendMessage, Request, Sent, IsOpen, Use
<1>13. ASSUME Online PROVE WaitsForAnAnswer'
  BY <1>13 DEF Online, ClearedTimeouts, IsOpen, Use
<1>14. ASSUME Offline PROVE WaitsForAnAnswer'
  BY <1>14 DEF Offline, Ping, Request, Sent, IsOpen, Use
<1>15. ASSUME Close PROVE WaitsForAnAnswer'
  BY <1>15 DEF Close, Use, ClearedTimeouts, RestartNumbering, StopPingInterval, IsOpen
<1>16. ASSUME Tick PROVE WaitsForAnAnswer'
  BY <1>16 DEF Tick
<1>17. CASE UNCHANGED vars
  BY <1>17
<1> QED
  BY <1>1, <1>2, <1>3, <1>4, <1>5, <1>6, <1>7, <1>8, <1>9, <1>10, <1>11, <1>12, <1>13, <1>14, <1>15, <1>16, <1>17 DEF Next, Interval

(* The backoff runs at the pace of the time since the last attempt.        *)
LEMMA ApartStep == ClientInv /\ [Next]_vars => ApartInv'
<1> SUFFICES ASSUME ClientInv, [Next]_vars PROVE ApartInv'
  OBVIOUS
<1> USE SocketAssumption, RetryAssumption, BoundAssumption
    DEF ClientInv, TypeOK, ApartInv, NothingLeaks, OneSocket, Live, Off, vars, socketVars, timerVars, requestVars, otherVars
<1>1. ASSUME NEW s \in Sockets, Initialize(s) PROVE ApartInv'
  BY <1>1 DEF Initialize, Connect
<1>2. ASSUME NEW t \in Timers, NEW s \in Sockets, Reconnect(t, s) PROVE ApartInv'
  BY <1>2 DEF Reconnect, Connect
<1>3. ASSUME NEW s \in Sockets, OnOpen(s) PROVE ApartInv'
  BY <1>3 DEF OnOpen, Request, Sent, IsOpen
<1>4. ASSUME NEW s \in Sockets, OnClose(s) PROVE ApartInv'
  <2>1. HandleClose(connectFailCount + 1) /\ connectFailCount + 1 \in Nat \ {0}
    BY <1>4 DEF OnClose
  <2>2. /\ reconnectTimeout' \in Timers
        /\ timeouts'[reconnectTimeout'] + sinceAttempt' >= minWebSocketRetryTime
    BY <2>1, Closed
  <2> QED
    BY <1>4, <2>2 DEF OnClose, IsOpen
<1>5. ASSUME OnMismatch PROVE ApartInv'
  <2>1. HandleClose(1) /\ 1 \in Nat \ {0}
    BY <1>5 DEF OnMismatch, DropSocket
  <2>2. /\ reconnectTimeout' \in Timers
        /\ timeouts'[reconnectTimeout'] + sinceAttempt' >= minWebSocketRetryTime
    BY <2>1, Closed
  <2> QED
    BY <1>5, <2>2 DEF OnMismatch, DropSocket, IsOpen
<1>6. ASSUME NEW t \in Timers, PongMissing(t) PROVE ApartInv'
  <2>1. CASE IsOpen
    <3>1. HandleClose(1) /\ 1 \in Nat \ {0}
      BY <1>6, <2>1 DEF PongMissing, DropSocket
    <3>2. /\ reconnectTimeout' \in Timers
          /\ timeouts'[reconnectTimeout'] + sinceAttempt' >= minWebSocketRetryTime
      BY <3>1, Closed
    <3> QED
      BY <1>6, <2>1, <3>2 DEF PongMissing, DropSocket, IsOpen
  <2>2. CASE ~IsOpen
    BY <1>6, <2>2 DEF PongMissing, StopPingInterval, IsOpen
  <2> QED
    BY <2>1, <2>2
<1>7. ASSUME NEW t \in Timers, PingAgain(t) PROVE ApartInv'
  BY <1>7 DEF PingAgain, Ping, Request, Sent, IsOpen
<1>8. ASSUME NEW s \in Sockets, Dropped(s) PROVE ApartInv'
  BY <1>8 DEF Dropped
<1>9. ASSUME NEW s \in Sockets, ServerCloses(s) PROVE ApartInv'
  BY <1>9 DEF ServerCloses, Use
<1>10. ASSUME NEW s \in Sockets, NetworkLost(s) PROVE ApartInv'
  BY <1>10 DEF NetworkLost, Use
<1>11. ASSUME NEW s \in Sockets, NEW n \in 1 .. MaxSeq, OnResponse(s, n) PROVE ApartInv'
  BY <1>11 DEF OnResponse
<1>12. ASSUME NEW callback \in {"none", "reply"}, SendMessage(callback) PROVE ApartInv'
  BY <1>12 DEF SendMessage, Request, Sent, IsOpen, Use
<1>13. ASSUME Online PROVE ApartInv'
  BY <1>13 DEF Online, ClearedTimeouts, IsOpen, Use
<1>14. ASSUME Offline PROVE ApartInv'
  BY <1>14 DEF Offline, Ping, Request, Sent, IsOpen, Use
<1>15. ASSUME Close PROVE ApartInv'
  BY <1>15 DEF Close, Use, ClearedTimeouts, RestartNumbering, StopPingInterval, IsOpen
<1>16. ASSUME Tick PROVE ApartInv'
  BY <1>16 DEF Tick
<1>17. CASE UNCHANGED vars
  BY <1>17
<1> QED
  BY <1>1, <1>2, <1>3, <1>4, <1>5, <1>6, <1>7, <1>8, <1>9, <1>10, <1>11, <1>12, <1>13, <1>14, <1>15, <1>16, <1>17 DEF Next, Interval

(* The types.                                                              *)
LEMMA TypesStep == ClientInv /\ [Next]_vars => TypeOK'
<1> SUFFICES ASSUME ClientInv, [Next]_vars PROVE TypeOK'
  OBVIOUS
<1> USE SocketAssumption, RetryAssumption, BoundAssumption
    DEF ClientInv, TypeOK, States, Off, OneSocket, Live, vars, socketVars, timerVars, requestVars, otherVars
<1>1. ASSUME NEW s \in Sockets, Initialize(s) PROVE TypeOK'
  <2>1. readyState' \in [Sockets -> States]
    <3>1. \/ readyState' = readyState
          \/ readyState' = [readyState EXCEPT ![s] = "connecting"]
      BY <1>1 DEF Initialize, Connect
    <3> QED
      BY <3>1
  <2>2. /\ conn' \in Sockets \cup {None}
        /\ sinceAttempt' \in 0 .. minWebSocketRetryTime
    BY <1>1 DEF Initialize, Connect
  <2>3. listening' \in BOOLEAN /\ wanted' \in BOOLEAN
    BY <1>1 DEF Initialize, Connect
  <2> QED
    BY <1>1, <2>1, <2>2, <2>3 DEF Initialize
<1>2. ASSUME NEW t \in Timers, NEW s \in Sockets, Reconnect(t, s) PROVE TypeOK'
  <2>1. readyState' \in [Sockets -> States]
    <3>1. \/ readyState' = readyState
          \/ readyState' = [readyState EXCEPT ![s] = "connecting"]
      BY <1>2 DEF Reconnect, Connect
    <3> QED
      BY <3>1
  <2>2. /\ conn' \in Sockets \cup {None}
        /\ sinceAttempt' \in 0 .. minWebSocketRetryTime
    BY <1>2 DEF Reconnect, Connect
  <2>3. timeouts' \in [Timers -> {Off} \cup Nat]
    BY <1>2 DEF Reconnect
  <2>4. listening' \in BOOLEAN /\ wanted' \in BOOLEAN
    BY <1>2 DEF Reconnect, Connect
  <2> QED
    BY <1>2, <2>1, <2>2, <2>3, <2>4 DEF Reconnect
<1>3. ASSUME NEW s \in Sockets, OnOpen(s) PROVE TypeOK'
  BY <1>3 DEF OnOpen, Request, Sent, IsOpen
<1>4. ASSUME NEW s \in Sockets, OnClose(s) PROVE TypeOK'
  <2>1. HandleClose(connectFailCount + 1) /\ connectFailCount + 1 \in Nat \ {0}
    BY <1>4 DEF OnClose
  <2>2. /\ conn' = None /\ responseSequence' = 1 /\ connectFailCount' \in Nat
        /\ responseCallbacks' = responseCallbacks
        /\ intervals' = {} /\ pingInterval' = None /\ reconnectTimeout' \in Timers
        /\ timeouts' \in [Timers -> {Off} \cup Nat]
        /\ UNCHANGED <<waitingForPong, listening, wanted, sinceAttempt>>
    BY <2>1, Closed
  <2>3. /\ readyState' \in [Sockets -> States]
        /\ dead' \subseteq Sockets /\ silence' \in Nat
        /\ asked' \subseteq Sockets \X (1 .. MaxSeq)
    BY <1>4 DEF OnClose, IsOpen
  <2>4. used' \in [faults : Nat, network : Nat, requests : Nat, closes : Nat]
    BY <1>4, UseType DEF OnClose
  <2> QED
    BY <2>2, <2>3, <2>4
<1>5. ASSUME OnMismatch PROVE TypeOK'
  <2>1. HandleClose(1) /\ 1 \in Nat \ {0}
    BY <1>5 DEF OnMismatch, DropSocket
  <2>2. /\ conn' = None /\ responseSequence' = 1 /\ connectFailCount' \in Nat
        /\ responseCallbacks' = responseCallbacks
        /\ intervals' = {} /\ pingInterval' = None /\ reconnectTimeout' \in Timers
        /\ timeouts' \in [Timers -> {Off} \cup Nat]
        /\ UNCHANGED <<waitingForPong, listening, wanted, sinceAttempt>>
    BY <2>1, Closed
  <2>3. /\ readyState' \in [Sockets -> States]
        /\ dead' \subseteq Sockets /\ silence' \in Nat
        /\ asked' \subseteq Sockets \X (1 .. MaxSeq)
    BY <1>5 DEF OnMismatch, DropSocket, IsOpen
  <2>4. used' \in [faults : Nat, network : Nat, requests : Nat, closes : Nat]
    BY <1>5, UseType DEF OnMismatch
  <2> QED
    BY <2>2, <2>3, <2>4
<1>6. ASSUME NEW t \in Timers, PongMissing(t) PROVE TypeOK'
  <2>1. CASE IsOpen
    <3>1. HandleClose(1) /\ 1 \in Nat \ {0}
      BY <1>6, <2>1 DEF PongMissing, DropSocket
    <3>2. /\ conn' = None /\ responseSequence' = 1 /\ connectFailCount' \in Nat
          /\ responseCallbacks' = responseCallbacks
          /\ intervals' = {} /\ pingInterval' = None /\ reconnectTimeout' \in Timers
          /\ timeouts' \in [Timers -> {Off} \cup Nat]
          /\ UNCHANGED <<waitingForPong, listening, wanted, sinceAttempt>>
      BY <3>1, Closed
    <3>3. /\ readyState' \in [Sockets -> States]
          /\ dead' \subseteq Sockets /\ silence' \in Nat
          /\ asked' \subseteq Sockets \X (1 .. MaxSeq)
      BY <1>6, <2>1 DEF PongMissing, DropSocket, IsOpen
    <3>4. used' \in [faults : Nat, network : Nat, requests : Nat, closes : Nat]
      BY <1>6, <2>1, UseType DEF PongMissing
    <3> QED
      BY <3>2, <3>3, <3>4
  <2>2. CASE ~IsOpen
    BY <1>6, <2>2 DEF PongMissing, StopPingInterval, IsOpen
  <2> QED
    BY <2>1, <2>2
<1>7. ASSUME NEW t \in Timers, PingAgain(t) PROVE TypeOK'
  BY <1>7 DEF PingAgain, Ping, Request, Sent, IsOpen
<1>8. ASSUME NEW s \in Sockets, Dropped(s) PROVE TypeOK'
  BY <1>8 DEF Dropped
<1>9. ASSUME NEW s \in Sockets, ServerCloses(s) PROVE TypeOK'
  BY <1>9 DEF ServerCloses, Use
<1>10. ASSUME NEW s \in Sockets, NetworkLost(s) PROVE TypeOK'
  BY <1>10 DEF NetworkLost, Use
<1>11. ASSUME NEW s \in Sockets, NEW n \in 1 .. MaxSeq, OnResponse(s, n) PROVE TypeOK'
  BY <1>11 DEF OnResponse
<1>12. ASSUME NEW callback \in {"none", "reply"}, SendMessage(callback) PROVE TypeOK'
  <2>1. /\ responseSequence' \in 1 .. MaxSeq
        /\ asked' \subseteq Sockets \X (1 .. MaxSeq)
    BY <1>12 DEF SendMessage, Request, Sent, IsOpen
  <2>2. responseCallbacks' \in [1 .. MaxSeq -> {"none", "pong", "reply"}]
    BY <1>12 DEF SendMessage, Request
  <2>3. used' \in [faults : Nat, network : Nat, requests : Nat, closes : Nat]
    BY <1>12, UseType DEF SendMessage
  <2> QED
    BY <1>12, <2>1, <2>2, <2>3 DEF SendMessage
<1>13. ASSUME Online PROVE TypeOK'
  <2>1. timeouts' \in [Timers -> {Off} \cup Nat] /\ reconnectTimeout' \in Timers
    BY <1>13 DEF Online, ClearedTimeouts
  <2>2. used' \in [faults : Nat, network : Nat, requests : Nat, closes : Nat]
    BY <1>13, UseType DEF Online
  <2> QED
    BY <1>13, <2>1, <2>2 DEF Online
<1>14. ASSUME Offline PROVE TypeOK'
  <2>1. /\ responseSequence' \in 1 .. MaxSeq
        /\ asked' \subseteq Sockets \X (1 .. MaxSeq)
    BY <1>14 DEF Offline, Request, Ping, Sent, IsOpen
  <2>2. responseCallbacks' \in [1 .. MaxSeq -> {"none", "pong", "reply"}]
    BY <1>14 DEF Offline, Request, Ping
  <2>3. used' \in [faults : Nat, network : Nat, requests : Nat, closes : Nat]
    BY <1>14, UseType DEF Offline
  <2> QED
    BY <1>14, <2>1, <2>2, <2>3 DEF Offline, Ping
<1>15. ASSUME Close PROVE TypeOK'
  <2>1. /\ readyState' \in [Sockets -> States]
        /\ conn' \in Sockets \cup {None}
        /\ asked' \subseteq Sockets \X (1 .. MaxSeq)
    BY <1>15 DEF Close, IsOpen
  <2>2. timeouts' \in [Timers -> {Off} \cup Nat]
    BY <1>15 DEF Close, ClearedTimeouts
  <2>3. used' \in [faults : Nat, network : Nat, requests : Nat, closes : Nat]
    BY <1>15, UseType DEF Close
  <2>4. /\ intervals' \subseteq Timers /\ pingInterval' \in Timers \cup {None}
        /\ responseSequence' \in 1 .. MaxSeq
        /\ UNCHANGED responseCallbacks
    BY <1>15 DEF Close, StopPingInterval, RestartNumbering
  <2>5. /\ wanted' \in BOOLEAN /\ listening' \in BOOLEAN /\ waitingForPong' \in BOOLEAN
        /\ dead' \subseteq Sockets
    BY <1>15 DEF Close
  <2>6. /\ reconnectTimeout' = None /\ connectFailCount' = 0 /\ silence' \in Nat
        /\ sinceAttempt' \in 0 .. minWebSocketRetryTime
    BY <1>15 DEF Close
  <2>7. responseCallbacks' \in [1 .. MaxSeq -> {"none", "pong", "reply"}]
    BY <2>4
  <2> QED
    BY <2>1, <2>2, <2>3, <2>4, <2>5, <2>6, <2>7
<1>16. ASSUME Tick PROVE TypeOK'
  BY <1>16 DEF Tick
<1>17. CASE UNCHANGED vars
  BY <1>17
<1> QED
  BY <1>1, <1>2, <1>3, <1>4, <1>5, <1>6, <1>7, <1>8, <1>9, <1>10, <1>11, <1>12, <1>13, <1>14, <1>15, <1>16, <1>17 DEF Next, Interval

LEMMA StepInv == ClientInv /\ [Next]_vars => ClientInv'
  BY OneSocketStep, NothingLeaksStep, NeverIdleStep, SilenceStep, AskedStep, AnswerStep,
     ApartStep, TypesStep DEF ClientInv

(* The invariant holds of every behaviour of the client.                   *)
THEOREM ClientInvariant == Spec => []ClientInv
<1>1. Init => ClientInv
  BY InitInv
<1>2. ClientInv /\ [Next]_vars => ClientInv'
  BY StepInv
<1> QED
  BY <1>1, <1>2, PTL DEF Spec

(* The fields of the client hold what they are declared to hold.           *)
THEOREM TypeCorrect == Spec => []TypeOK
  BY ClientInvariant, PTL DEF ClientInv

(* websocket.ts never has two sockets at work: the handlers of onclose,    *)
(* onopen and the interval, none of which look whose they are, act on the  *)
(* socket they belong to.                                                  *)
THEOREM OneSocketAlways == Spec => []OneSocket
  BY ClientInvariant, PTL DEF ClientInv

(* No reconnect timer and no ping interval escapes close() and onclose.    *)
THEOREM NothingLeaksEver == Spec => []NothingLeaks
  BY ClientInvariant, PTL DEF ClientInv

(* Until close() is called there is a socket, or a timer to make one.      *)
THEOREM NeverIdleAgain == Spec => []NeverIdle
  BY ClientInvariant, PTL DEF ClientInv

(* An open socket is watched, and closed at the second silent firing.      *)
THEOREM SilenceIsAlwaysNoticed == Spec => []SilenceIsNoticed
  BY ClientInvariant, PTL DEF ClientInv

(* The interval closes only a socket on which an answer is owed.           *)
THEOREM AlwaysWaitsForAnAnswer == Spec => []WaitsForAnAnswer
  BY ClientInvariant, PTL DEF ClientInv

(* A new WebSocket is made only in Connect, reached without a socket and   *)
(* with either no timer or one whose time is up.                           *)
LEMMA ApartWhenConnecting ==
  ASSUME ClientInv, [Next]_vars, NEW s \in Sockets,
         readyState[s] # "connecting", readyState'[s] = "connecting"
  PROVE  sinceAttempt = minWebSocketRetryTime
<1> USE SocketAssumption, RetryAssumption DEF ClientInv, TypeOK, ApartInv
<1>1. ASSUME NEW r \in Sockets, Initialize(r) PROVE sinceAttempt = minWebSocketRetryTime
  BY <1>1 DEF Initialize, Connect
<1>2. ASSUME NEW t \in Timers, NEW r \in Sockets, Reconnect(t, r)
      PROVE  sinceAttempt = minWebSocketRetryTime
  <2>1. t = reconnectTimeout /\ timeouts[t] = 0
    BY <1>2 DEF Reconnect, NothingLeaks, Off
  <2> QED
    BY <2>1
<1>3. ASSUME \/ \E r \in Sockets : \/ OnOpen(r) \/ OnClose(r) \/ Dropped(r)
                                   \/ ServerCloses(r) \/ NetworkLost(r)
             \/ \E t \in Timers : Interval(t)
             \/ \E r \in Sockets, n \in 1 .. MaxSeq : OnResponse(r, n)
             \/ \E callback \in {"none", "reply"} : SendMessage(callback)
             \/ OnMismatch \/ Online \/ Offline \/ Close \/ Tick
      PROVE  FALSE
  <2>1. \/ readyState' = readyState
        \/ \E r \in Sockets, x \in States \ {"connecting"} :
             readyState' = [readyState EXCEPT ![r] = x]
    <3> DEFINE Q == \/ readyState' = readyState
                    \/ \E r \in Sockets, x \in States \ {"connecting"} :
                         readyState' = [readyState EXCEPT ![r] = x]
    <3> USE DEF States
    <3>1. ASSUME NEW r \in Sockets,
                 \/ OnOpen(r) \/ OnClose(r) \/ Dropped(r) \/ ServerCloses(r) \/ NetworkLost(r)
          PROVE  Q
      BY <3>1 DEF OnOpen, OnClose, Dropped, ServerCloses, NetworkLost
    <3>2. ASSUME DropSocket, IsOpen PROVE Q
      BY <3>2 DEF DropSocket, IsOpen
    <3>3. ASSUME NEW t \in Timers, Interval(t) PROVE Q
      BY <3>2, <3>3 DEF Interval, PingAgain, PongMissing, socketVars
    <3>4. ASSUME \/ \E r \in Sockets, n \in 1 .. MaxSeq : OnResponse(r, n)
                 \/ \E callback \in {"none", "reply"} : SendMessage(callback)
                 \/ Online \/ Offline \/ Tick
          PROVE  Q
      BY <3>4 DEF OnResponse, SendMessage, Online, Offline, Tick, socketVars
    <3>5. ASSUME OnMismatch \/ Close PROVE Q
      BY <3>2, <3>5 DEF OnMismatch, Close, IsOpen
    <3> QED
      BY <1>3, <3>1, <3>3, <3>4, <3>5
  <2> QED
    BY <2>1
<1>4. CASE UNCHANGED vars
  BY <1>4 DEF vars, socketVars
<1> QED
  BY <1>1, <1>2, <1>3, <1>4 DEF Next, Interval

(* Attempts to connect are at least minWebSocketRetryTime apart, however   *)
(* the backoff, the online event and the application's calls interleave.   *)
THEOREM AttemptsAreApart == Spec => AttemptsApart
<1>1. ClientInv /\ [Next]_vars =>
        [\A s \in Sockets :
           readyState[s] # "connecting" /\ readyState'[s] = "connecting"
               => sinceAttempt = minWebSocketRetryTime]_vars
  BY ApartWhenConnecting
<1> QED
  BY <1>1, ClientInvariant, PTL DEF Spec, AttemptsApart
=============================================================================
