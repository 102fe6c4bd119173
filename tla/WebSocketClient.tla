--------------------------- MODULE WebSocketClient ---------------------------
(***************************************************************************)
(* The connection keeping of websocket.ts: one WebSocketClient in a        *)
(* browser tab with its sockets, its reconnect timer, its ping interval,   *)
(* the online and offline events of the window and the callbacks of its    *)
(* requests. What the events of a socket mean is in ReliableWebSocket;     *)
(* here any event may turn out to have the wrong sequence number.          *)
(*                                                                         *)
(* A handler runs to its end before the next one starts, as JavaScript     *)
(* does. A timer never fires early and may fire late.                      *)
(***************************************************************************)
EXTENDS Integers

CONSTANTS
    Sockets,                \* WebSocket objects
    Timers,                 \* ids that setTimeout and setInterval give
    None,                   \* null
    minWebSocketRetryTime,
    maxWebSocketRetryTime,
    maxWebSocketFails,
    reconnectJitterRange,
    MaxSeq,                 \* numbers of requests; the last stands for all later
    MaxFaults,              \* how often a socket fails, is closed or is lost
    MaxNetwork,             \* online and offline events
    MaxRequests,            \* requests of the application
    MaxCloses               \* calls of close()

ASSUME SocketAssumption == None \notin Sockets /\ None \notin Timers
ASSUME RetryAssumption ==
    /\ minWebSocketRetryTime \in Nat \ {0}
    /\ maxWebSocketRetryTime \in Nat
    /\ maxWebSocketRetryTime >= minWebSocketRetryTime
    /\ maxWebSocketFails \in Nat
    /\ reconnectJitterRange \in Nat
ASSUME BoundAssumption ==
    /\ MaxSeq \in Nat \ {0}
    /\ MaxFaults \in Nat /\ MaxNetwork \in Nat
    /\ MaxRequests \in Nat /\ MaxCloses \in Nat

Off == -1    \* a timer that is not set

VARIABLES
    readyState,         \* of each socket
    dead,               \* sockets whose network is gone without a word
    conn,               \* this.conn
    timeouts,           \* time left of each setTimeout, or Off
    reconnectTimeout,   \* this.reconnectTimeout
    intervals,          \* setIntervals that run
    pingInterval,       \* this.pingInterval
    waitingForPong,
    connectFailCount,
    responseSequence,
    responseCallbacks,  \* number -> which callback is kept for it
    asked,              \* <<s, n>>: request n reached the server on socket s
    listening,          \* onlineHandler and offlineHandler are registered
    wanted,             \* history: the application called initialize last, not close
    silence,            \* history: times the interval fired since an answer
    sinceAttempt,       \* history: time since the last new WebSocket
    used                \* what of the bounds has been used

socketVars  == <<readyState, dead, conn>>
timerVars   == <<timeouts, reconnectTimeout, intervals, pingInterval>>
requestVars == <<waitingForPong, responseSequence, responseCallbacks, asked>>
otherVars   == <<connectFailCount, listening, wanted, silence, sinceAttempt, used>>
vars == <<socketVars, timerVars, requestVars, otherVars>>

(* "free" is a socket not made yet, or closed and forgotten; "dropped" is  *)
(* closing with an onclose that does nothing.                              *)
States == {"free", "connecting", "open", "closing", "dropped"}
Live == {"connecting", "open", "closing"}

Init ==
    /\ readyState = [s \in Sockets |-> "free"]
    /\ dead = {}
    /\ conn = None
    /\ timeouts = [t \in Timers |-> Off]
    /\ reconnectTimeout = None
    /\ intervals = {}
    /\ pingInterval = None
    /\ waitingForPong = FALSE
    /\ connectFailCount = 0
    /\ responseSequence = 1
    /\ responseCallbacks = [n \in 1 .. MaxSeq |-> "none"]
    /\ asked = {}
    /\ listening = FALSE
    /\ wanted = FALSE
    /\ silence = 0
    /\ sinceAttempt = minWebSocketRetryTime
    /\ used = [faults |-> 0, network |-> 0, requests |-> 0, closes |-> 0]

Use(what, bound) ==
    /\ used[what] < bound
    /\ used' = [used EXCEPT ![what] = @ + 1]

IsOpen == conn # None /\ readyState[conn] = "open"

-----------------------------------------------------------------------------

(* Mutant of Request: the callback is kept under the next number.          *)
RequestOffByOne(callback) ==
    /\ responseSequence' = IF responseSequence < MaxSeq THEN responseSequence + 1
                                                        ELSE responseSequence
    /\ responseCallbacks' = IF callback = "none" THEN responseCallbacks
                            ELSE [responseCallbacks EXCEPT ![responseSequence'] = callback]

(* Requests: ping and sendMessage. Without a callback the one that may be  *)
(* kept under the number stays.                                            *)
Request(callback) ==
    /\ responseSequence' = IF responseSequence < MaxSeq THEN responseSequence + 1
                                                        ELSE responseSequence
    /\ responseCallbacks' = IF callback = "none" THEN responseCallbacks
                            ELSE [responseCallbacks EXCEPT ![responseSequence] = callback]

Sent == IF IsOpen THEN asked \cup {<<conn, responseSequence>>} ELSE asked

(* responseSequence = 1, the callbacks stay.                               *)
RestartNumbering ==
    /\ responseSequence' = 1
    /\ UNCHANGED responseCallbacks

(* Mutant of Ping: waitingForPong is not set.                              *)
PingUnwatched ==
    /\ UNCHANGED waitingForPong
    /\ Request("pong")
    /\ asked' = Sent

(* waitingForPong = true and ping(), with the callback that resets it.     *)
Ping ==
    /\ waitingForPong' = TRUE
    /\ Request("pong")
    /\ asked' = Sent

(* sendMessage by the application.                                         *)
SendMessage(callback) ==
    /\ responseSequence < MaxSeq
    /\ Use("requests", MaxRequests)
    /\ Request(callback)
    /\ asked' = Sent
    /\ UNCHANGED <<socketVars, timerVars, waitingForPong, connectFailCount,
                   listening, wanted, silence, sinceAttempt>>

(* onmessage with seq_reply: the callback kept under the number is called  *)
(* and deleted.                                                            *)
OnResponse(s, n) ==
    /\ readyState[s] = "open"
    /\ s \notin dead
    /\ <<s, n>> \in asked
    /\ asked' = asked \ {<<s, n>>}
    /\ waitingForPong' = (waitingForPong /\ responseCallbacks[n] # "pong")
    /\ responseCallbacks' = [responseCallbacks EXCEPT ![n] = "none"]
    /\ silence' = 0
    /\ UNCHANGED <<socketVars, timerVars, responseSequence, connectFailCount,
                   listening, wanted, sinceAttempt, used>>

-----------------------------------------------------------------------------

(* Mutant of Connect: initialize without its two early returns.            *)
ConnectAgain(s) ==
    /\ readyState[s] = "free"
    /\ readyState' = [readyState EXCEPT ![s] = "connecting"]
    /\ conn' = s
    /\ listening' = TRUE
    /\ sinceAttempt' = 0

(* initialize, as far as it goes past this.conn: a new WebSocket, and the  *)
(* handlers of the window's events.                                        *)
Connect(s) ==
    IF conn # None THEN UNCHANGED <<readyState, conn, listening, sinceAttempt>>
    ELSE /\ readyState[s] = "free"
         /\ readyState' = [readyState EXCEPT ![s] = "connecting"]
         /\ conn' = s
         /\ listening' = TRUE
         /\ sinceAttempt' = 0

(* Mutant of Initialize: it does not look for a waiting timer.             *)
InitializeAtOnce(s) ==
    /\ wanted' = TRUE
    /\ Connect(s)
    /\ UNCHANGED <<dead, timerVars, requestVars, connectFailCount, silence, used>>

(* initialize, called by the application: it leaves a waiting timer alone. *)
Initialize(s) ==
    /\ wanted' = TRUE
    /\ IF reconnectTimeout # None
       THEN UNCHANGED <<readyState, conn, listening, sinceAttempt>>
       ELSE Connect(s)
    /\ UNCHANGED <<dead, timerVars, requestVars, connectFailCount, silence, used>>

(* Mutant of Reconnect: initialize first, then reconnectTimeout = null.    *)
ReconnectTooEarly(t, s) ==
    /\ timeouts[t] = 0
    /\ timeouts' = [timeouts EXCEPT ![t] = Off]
    /\ reconnectTimeout' = None
    /\ IF reconnectTimeout # None
       THEN UNCHANGED <<readyState, conn, listening, sinceAttempt>>
       ELSE Connect(s)
    /\ UNCHANGED <<dead, intervals, pingInterval, requestVars, connectFailCount,
                   wanted, silence, used>>

(* The reconnect timer fires: whatever timer it is, reconnectTimeout = null*)
Reconnect(t, s) ==
    /\ timeouts[t] = 0
    /\ timeouts' = [timeouts EXCEPT ![t] = Off]
    /\ reconnectTimeout' = None
    /\ Connect(s)
    /\ UNCHANGED <<dead, intervals, pingInterval, requestVars, connectFailCount,
                   wanted, silence, used>>

ClearedTimeouts ==
    [t \in Timers |-> IF t = reconnectTimeout THEN Off ELSE timeouts[t]]

StopPingInterval ==
    /\ intervals' = intervals \ {pingInterval}
    /\ pingInterval' = None

RetryTime(fails) ==
    IF fails <= maxWebSocketFails THEN minWebSocketRetryTime
    ELSE LET backoff == minWebSocketRetryTime * fails * fails
         IN  IF backoff > maxWebSocketRetryTime THEN maxWebSocketRetryTime ELSE backoff

(* Mutant of ScheduleReconnect: a second timer is set beside one waiting.  *)
ScheduleAnother(fails) ==
    \E t \in Timers, jitter \in 0 .. reconnectJitterRange :
        /\ timeouts[t] = Off
        /\ timeouts' = [timeouts EXCEPT ![t] = RetryTime(fails) + jitter]
        /\ reconnectTimeout' = t

(* The end of onclose: a timer that is already waiting will do.            *)
ScheduleReconnect(fails) ==
    \/ /\ reconnectTimeout # None
       /\ UNCHANGED <<timeouts, reconnectTimeout>>
    \/ /\ reconnectTimeout = None
       /\ \E t \in Timers, jitter \in 0 .. reconnectJitterRange :
            /\ timeouts[t] = Off
            /\ timeouts' = [timeouts EXCEPT ![t] = RetryTime(fails) + jitter]
            /\ reconnectTimeout' = t

(* The onclose of initialize, reached with the count fails.                *)
HandleClose(fails) ==
    /\ conn' = None
    /\ RestartNumbering
    /\ connectFailCount' = fails
    /\ StopPingInterval
    /\ ScheduleReconnect(fails)
    /\ UNCHANGED <<waitingForPong, listening, wanted, sinceAttempt>>

(* The browser fires close: the server refused, closed, or went away.      *)
OnClose(s) ==
    /\ readyState[s] \in Live
    /\ IF readyState[s] = "closing" THEN UNCHANGED used ELSE Use("faults", MaxFaults)
    /\ readyState' = [readyState EXCEPT ![s] = "free"]
    /\ dead' = dead \ {s}
    /\ asked' = {r \in asked : r[1] # s}
    /\ HandleClose(connectFailCount + 1)
    /\ UNCHANGED silence

(* The client closes a socket itself and calls onclose at once, with the   *)
(* socket's own set to do nothing.                                         *)
DropSocket ==
    /\ readyState' = [readyState EXCEPT ![conn] = "dropped"]
    /\ asked' = {r \in asked : r[1] # conn}
    /\ HandleClose(1)
    /\ UNCHANGED <<dead, silence>>

(* onmessage with the wrong sequence number.                               *)
OnMismatch ==
    /\ IsOpen
    /\ conn \notin dead
    /\ Use("faults", MaxFaults)
    /\ DropSocket

(* The socket of a closed client, or of a dropped one, is gone.            *)
Dropped(s) ==
    /\ readyState[s] = "dropped"
    /\ readyState' = [readyState EXCEPT ![s] = "free"]
    /\ dead' = dead \ {s}
    /\ UNCHANGED <<conn, timerVars, requestVars, otherVars>>

(* The server starts the closing handshake.                                *)
ServerCloses(s) ==
    /\ readyState[s] = "open"
    /\ s \notin dead
    /\ Use("faults", MaxFaults)
    /\ readyState' = [readyState EXCEPT ![s] = "closing"]
    /\ UNCHANGED <<dead, conn, timerVars, requestVars, connectFailCount, listening,
                   wanted, silence, sinceAttempt>>

(* The network goes away without a word: nothing is answered any more.     *)
NetworkLost(s) ==
    /\ readyState[s] = "open"
    /\ s \notin dead
    /\ Use("faults", MaxFaults)
    /\ dead' = dead \cup {s}
    /\ UNCHANGED <<readyState, conn, timerVars, requestVars, connectFailCount,
                   listening, wanted, silence, sinceAttempt>>

(* onopen: the interval of an earlier socket is stopped, a ping sent, a    *)
(* new interval started.                                                   *)
OnOpen(s) ==
    /\ readyState[s] = "connecting"
    /\ readyState' = [readyState EXCEPT ![s] = "open"]
    /\ waitingForPong' = TRUE
    /\ Request("pong")
    /\ asked' = IF conn = s THEN asked \cup {<<s, responseSequence>>} ELSE Sent
    /\ \E t \in Timers :
         /\ t \notin intervals
         /\ intervals' = (intervals \ {pingInterval}) \cup {t}
         /\ pingInterval' = t
    /\ connectFailCount' = 0
    /\ silence' = 0
    /\ UNCHANGED <<dead, conn, timeouts, reconnectTimeout, listening, wanted,
                   sinceAttempt, used>>

(* The interval fires and nothing is outstanding: ask again.               *)
PingAgain(t) ==
    /\ t \in intervals
    /\ ~waitingForPong
    /\ Ping
    /\ silence' = silence + 1
    /\ UNCHANGED <<socketVars, timerVars, connectFailCount, listening, wanted,
                   sinceAttempt, used>>

(* It fires, and the last ping has no answer: the network is gone, or the  *)
(* server was too slow.                                                    *)
PongMissing(t) ==
    /\ t \in intervals
    /\ waitingForPong
    /\ IF IsOpen
       THEN /\ DropSocket
            /\ IF conn \in dead THEN UNCHANGED used ELSE Use("faults", MaxFaults)
       ELSE StopPingInterval
            /\ UNCHANGED <<socketVars, timeouts, reconnectTimeout, requestVars, otherVars>>

(* onlineHandler                                                           *)
Online ==
    /\ listening
    /\ ~IsOpen
    /\ Use("network", MaxNetwork)
    /\ \E t \in Timers :
         /\ ClearedTimeouts[t] = Off
         /\ timeouts' = [ClearedTimeouts EXCEPT ![t] = minWebSocketRetryTime]
         /\ reconnectTimeout' = t
    /\ UNCHANGED <<socketVars, intervals, pingInterval, requestVars, connectFailCount,
                   listening, wanted, silence, sinceAttempt>>

(* offlineHandler                                                          *)
Offline ==
    /\ listening
    /\ conn = None \/ IsOpen
    /\ Use("network", MaxNetwork)
    /\ Ping
    /\ UNCHANGED <<socketVars, timerVars, connectFailCount, listening, wanted,
                   silence, sinceAttempt>>

(* close() by the application. A socket that is still connecting, or is    *)
(* closing, stays this.conn with its handlers.                             *)
Close ==
    /\ wanted
    /\ Use("closes", MaxCloses)
    /\ wanted' = FALSE
    /\ connectFailCount' = 0
    /\ RestartNumbering
    /\ timeouts' = ClearedTimeouts
    /\ reconnectTimeout' = None
    /\ StopPingInterval
    /\ IF IsOpen
       THEN /\ readyState' = [readyState EXCEPT ![conn] = "dropped"]
            /\ asked' = {r \in asked : r[1] # conn}
            /\ conn' = None
       ELSE UNCHANGED <<readyState, asked, conn>>
    /\ listening' = FALSE
    /\ sinceAttempt' = minWebSocketRetryTime
    /\ UNCHANGED <<dead, waitingForPong, silence>>

(* Time: a timer that is due fires now or later.                           *)
Tick ==
    /\ sinceAttempt < minWebSocketRetryTime \/ \E t \in Timers : timeouts[t] > 0
    /\ timeouts' = [t \in Timers |-> IF timeouts[t] > 0 THEN timeouts[t] - 1
                                                        ELSE timeouts[t]]
    /\ sinceAttempt' = IF sinceAttempt < minWebSocketRetryTime THEN sinceAttempt + 1
                                                               ELSE sinceAttempt
    /\ UNCHANGED <<socketVars, reconnectTimeout, intervals, pingInterval, requestVars,
                   connectFailCount, listening, wanted, silence, used>>

Interval(t) == PingAgain(t) \/ PongMissing(t)

Next ==
    \/ \E s \in Sockets : \/ Initialize(s) \/ OnOpen(s) \/ OnClose(s) \/ Dropped(s)
                          \/ ServerCloses(s) \/ NetworkLost(s)
    \/ \E t \in Timers : Interval(t) \/ \E s \in Sockets : Reconnect(t, s)
    \/ \E s \in Sockets, n \in 1 .. MaxSeq : OnResponse(s, n)
    \/ \E callback \in {"none", "reply"} : SendMessage(callback)
    \/ OnMismatch \/ Online \/ Offline \/ Close \/ Tick

Spec == Init /\ [][Next]_vars

(* Timers fire, the browser resolves a socket that is connecting, closing  *)
(* or dropped, and a server that can be reached answers.                   *)
Fairness ==
    /\ WF_vars(Tick)
    /\ \A t \in Timers : WF_vars(\E s \in Sockets : Reconnect(t, s))
    /\ \A t \in Timers : WF_vars(Interval(t))
    /\ \A s \in Sockets :
         /\ WF_vars(OnOpen(s))
         /\ WF_vars(readyState[s] = "closing" /\ OnClose(s))
         /\ WF_vars(Dropped(s))
         /\ WF_vars(\E n \in 1 .. MaxSeq : OnResponse(s, n))

FairSpec == Spec /\ Fairness

-----------------------------------------------------------------------------

(* What the fields of WebSocketClient, its sockets and its timers hold.    *)
TypeOK ==
    /\ readyState \in [Sockets -> States]
    /\ dead \subseteq Sockets
    /\ conn \in Sockets \cup {None}
    /\ timeouts \in [Timers -> {Off} \cup Nat]
    /\ reconnectTimeout \in Timers \cup {None}
    /\ intervals \subseteq Timers
    /\ pingInterval \in Timers \cup {None}
    /\ waitingForPong \in BOOLEAN
    /\ connectFailCount \in Nat
    /\ responseSequence \in 1 .. MaxSeq
    /\ responseCallbacks \in [1 .. MaxSeq -> {"none", "pong", "reply"}]
    /\ asked \subseteq Sockets \X (1 .. MaxSeq)
    /\ listening \in BOOLEAN
    /\ wanted \in BOOLEAN
    /\ silence \in Nat
    /\ sinceAttempt \in 0 .. minWebSocketRetryTime
    /\ used \in [faults : Nat, network : Nat, requests : Nat, closes : Nat]

(* The client has one socket: whatever the timers, the window's events and *)
(* the application do, a socket that connects, is open or is closing is    *)
(* this.conn, and its handlers act on nobody else's state.                 *)
OneSocket == \A s \in Sockets : readyState[s] \in Live <=> s = conn

(* No timer leaks: one that waits to reconnect is the one close() would    *)
(* clear, and one that pings is the one onclose would.                     *)
NothingLeaks ==
    /\ \A t \in Timers : timeouts[t] # Off <=> t = reconnectTimeout
    /\ \A t \in Timers : t \in intervals <=> t = pingInterval

(* Between initialize and close() the client is never left with neither a  *)
(* socket nor a timer that will make one.                                  *)
NeverIdle == wanted => conn # None \/ reconnectTimeout # None

(* An open socket is being watched, and the interval never fires twice     *)
(* over a server that says nothing.                                        *)
SilenceIsNoticed ==
    IsOpen => /\ pingInterval # None
              /\ silence <= 1
              /\ silence = 1 => waitingForPong

(* While a pong is waited for over an open socket, the server has been     *)
(* asked for it there and the callback that ends the wait is still kept    *)
(* under that number: the interval gives up only on a server that owes an  *)
(* answer.                                                                 *)
WaitsForAnAnswer ==
    IsOpen /\ waitingForPong =>
        \E n \in 1 .. MaxSeq : <<conn, n>> \in asked /\ responseCallbacks[n] = "pong"

(* A new WebSocket is made at least minWebSocketRetryTime after the last   *)
(* one, unless the application closed the client in between.               *)
AttemptsApart ==
    [][\A s \in Sockets :
         readyState[s] # "connecting" /\ readyState'[s] = "connecting"
             => sinceAttempt = minWebSocketRetryTime]_vars

(* When faults, network events and calls stop, a client that is wanted     *)
(* ends up, and stays, on an open socket that the server answers.          *)
KeepsConnected == <>[](wanted => IsOpen /\ conn \notin dead)
=============================================================================
