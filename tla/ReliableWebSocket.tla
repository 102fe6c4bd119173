-------------------------- MODULE ReliableWebSocket --------------------------
(***************************************************************************)
(* The reliable websocket: the hub and the connections of the server       *)
(* (WebHub, WebConn) with the client of websocket.ts that receives, loses  *)
(* its socket, and comes back with its connection id and the number of the *)
(* event it expects next.                                                  *)
(*                                                                         *)
(* The timers, the pings and the requests of the client are left out: here *)
(* it notices at any time that its socket is gone.                         *)
(***************************************************************************)
EXTENDS WebHub

CONSTANT NoConn   \* this.conn is null

ASSUME NoConnAssumption == NoConn \notin Conns

VARIABLES client,     \* the WebSocketClient
          got,        \* history: broadcasts given to the listeners since hello
          last,       \* history: the highest broadcast ever given to them
          missed,     \* history: how often the missed-event callback ran
          refetched   \* history: broadcasts the last refetch of data covers

clientVars == <<client, got, last, missed, refetched>>
vars == <<connVars, hubVars, clientVars>>

Client == [conn           : Conns \cup {NoConn},
           open           : BOOLEAN,          \* readyState is OPEN
           connectionId   : 0 .. MaxIds,
           serverSequence : Nat,
           failed         : BOOLEAN]          \* connectFailCount # 0

Init ==
    /\ HubInit
    /\ client = [conn |-> NoConn, open |-> FALSE, connectionId |-> 0,
                 serverSequence |-> 0, failed |-> FALSE]
    /\ got = <<>>
    /\ last = 0
    /\ missed = 0
    /\ refetched = 0

(* initialize(): a new socket, whose request reaches the server. A request *)
(* that does not reach it changes nothing but connectFailCount.            *)
Initialize(c) ==
    /\ client.conn = NoConn
    /\ conn[c].phase = "free"
    /\ client' = [client EXCEPT !.conn = c, !.open = FALSE]
    /\ conn' = [conn EXCEPT ![c] = [FreeConn EXCEPT
                                      !.phase = "upgraded",
                                      !.reqId = client.connectionId,
                                      !.reqSeq = client.serverSequence]]
    /\ sock' = [sock EXCEPT ![c] = [up |-> TRUE, toClient |-> <<>>]]
    /\ UNCHANGED <<nextId, stream, hubVars, got, last, missed, refetched>>

(* onopen: the reconnect listeners, which fetch the data anew, run only    *)
(* after a failure; so do the first-connect ones before any.               *)
OnOpen ==
    /\ client.conn # NoConn
    /\ ~client.open
    /\ sock[client.conn].up \/ sock[client.conn].toClient # <<>>
    /\ client' = [client EXCEPT !.open = TRUE, !.failed = FALSE]
    /\ refetched' = broadcasts
    /\ UNCHANGED <<connVars, hubVars, got, last, missed>>

(* onclose, after the socket has ended or never opened; initialize is      *)
(* called again when the reconnect timer fires.                            *)
OnClose ==
    /\ client.conn # NoConn
    /\ ~sock[client.conn].up /\ sock[client.conn].toClient = <<>>
    /\ client' = [client EXCEPT !.conn = NoConn, !.open = FALSE, !.failed = TRUE]
    /\ UNCHANGED <<connVars, hubVars, got, last, missed, refetched>>

Incoming == /\ client.conn # NoConn
            /\ client.open
            /\ sock[client.conn].toClient # <<>>

Msg == Head(sock[client.conn].toClient)

Taken == sock' = [sock EXCEPT ![client.conn].toClient = Tail(@)]

(* A hello with another connection id than the one the client has.         *)
NewStream == Msg.type = "hello" /\ client.connectionId # Msg.val

ExpectedSeq ==
    IF NewStream /\ client.connectionId # 0 THEN 0 ELSE client.serverSequence

(* Mutant of HearHello: the client takes the new id without a word.        *)
HearHelloSilently ==
    /\ missed' = missed
    /\ refetched' = IF NewStream THEN broadcasts ELSE refetched

(* The part of onmessage about hello: the missed-event callback fetches    *)
(* the data anew when the client had another id.                           *)
HearHello ==
    /\ missed' = IF NewStream /\ client.connectionId # 0 THEN missed + 1
                                                         ELSE missed
    /\ refetched' = IF NewStream THEN broadcasts ELSE refetched

KnownId == IF Msg.type = "hello" THEN Msg.val ELSE client.connectionId

(* onmessage with the number the client expects: it goes to the listeners. *)
OnEvent ==
    /\ Incoming
    /\ Msg.type # "response"
    /\ Msg.seq = ExpectedSeq
    /\ HearHello
    /\ client' = [client EXCEPT !.connectionId = KnownId,
                                !.serverSequence = Msg.seq + 1]
    /\ got' = IF NewStream THEN <<>>
              ELSE IF Msg.type = "event" THEN Append(got, Msg.val) ELSE got
    /\ last' = IF Msg.type = "event" THEN Msg.val ELSE last
    /\ Taken
    /\ UNCHANGED <<conn, nextId, stream, hubVars>>

(* onmessage with any other: the client closes the socket and reconnects.  *)
OnMismatch ==
    /\ Incoming
    /\ Msg.type # "response"
    /\ Msg.seq # ExpectedSeq
    /\ HearHello
    /\ client' = [client EXCEPT !.conn = NoConn, !.open = FALSE, !.failed = TRUE,
                                !.connectionId = KnownId,
                                !.serverSequence = ExpectedSeq]
    /\ got' = IF NewStream THEN <<>> ELSE got
    /\ sock' = [sock EXCEPT ![client.conn] = [up |-> FALSE, toClient |-> <<>>]]
    /\ UNCHANGED <<conn, nextId, stream, hubVars, last>>

(* onmessage with a response: its sequence number is not checked.          *)
OnResponse ==
    /\ Incoming
    /\ Msg.type = "response"
    /\ Taken
    /\ UNCHANGED <<conn, nextId, stream, hubVars, clientVars>>

Server(c) ==
    \/ Pump(c) /\ UNCHANGED hubVars
    \/ HubStep(c)
    \/ RegisterFails(c)
    \/ SendMessage(c)
    \/ RemoveInactiveConnection(c)
    \/ Break(c)

Next ==
    \/ \E c \in Conns : Server(c) /\ UNCHANGED clientVars
    \/ (Broadcast \/ InvalidateFails \/ Restart) /\ UNCHANGED clientVars
    \/ \E c \in Conns : Initialize(c)
    \/ OnOpen \/ OnClose \/ OnEvent \/ OnMismatch \/ OnResponse

Spec == Init /\ [][Next]_vars

(* The pumps, the hub and the client's event loop run as long as they have *)
(* something to do; the reconnect timer and the reaper's ticker fire.      *)
Fairness ==
    /\ \A c \in Conns : WF_vars(Pump(c) /\ UNCHANGED <<hubVars, clientVars>>)
    /\ \A c \in Conns : WF_vars(HubStep(c) /\ UNCHANGED clientVars)
    /\ \A c \in Conns : WF_vars(RemoveInactiveConnection(c) /\ UNCHANGED clientVars)
    /\ WF_vars(\E c \in Conns : Initialize(c))
    /\ WF_vars(OnOpen) /\ WF_vars(OnClose)
    /\ WF_vars(OnEvent) /\ WF_vars(OnMismatch) /\ WF_vars(OnResponse)

FairSpec == Spec /\ Fairness

-----------------------------------------------------------------------------

ServerTypeOK ==
    /\ conn \in [Conns -> Conn]
    /\ sock \in [Conns -> Socket]
    /\ nextId \in 1 .. MaxIds + 1
    /\ connIndex \subseteq Conns
    /\ broadcasts \in 0 .. MaxBroadcasts
    /\ responses \in 0 .. MaxResponses
    /\ faults \in 0 .. MaxFaults

ClientTypeOK ==
    /\ client \in Client
    /\ got \in Seq(Nat)
    /\ last \in Nat /\ missed \in Nat /\ refetched \in Nat

(* The variables keep their types, and the ids a client hears in a hello   *)
(* have been handed out.                                                   *)
TypeOK ==
    /\ ServerTypeOK
    /\ ClientTypeOK
    /\ stream \in [Ids -> Seq(Nat)]

(* The broadcasts of the client's stream, as far as the hub has taken them *)
Accepted == IF client.connectionId = 0 THEN <<>>
                                       ELSE stream[client.connectionId]

(* writePump, the dead queue and onmessage together: the listeners have    *)
(* been given the first broadcasts taken for the connection id the client  *)
(* holds, each of them once and in order, over all the sockets it has had. *)
DeliveredIsPrefix ==
    /\ Len(got) <= Len(Accepted)
    /\ \A i \in DOMAIN got : got[i] = Accepted[i]

(* Also across streams: whether the client resumes, is sent to a new       *)
(* stream or comes back while its old connection is still served, no       *)
(* broadcast reaches the listeners again or after a later one.             *)
NeverRepeated ==
    [][\A i \in DOMAIN got' : got' # got /\ i = Len(got') => got'[i] > last]_vars

(* The hub's select loop, closeAndRemoveConn: no connection of the index   *)
(* has a closed send channel (sending on it would panic, and so would      *)
(* closing it twice), and each is still owned by its pumps, or waits,      *)
(* inactive, to be resumed.                                                *)
IndexIsUsable ==
    \A c \in connIndex :
        /\ ~conn[c].closed
        /\ conn[c].phase \in Pumping \cup {"parked"}
        /\ conn[c].Active <=> conn[c].phase # "parked"

(* CheckConn and Register: a connection id, and with it a send channel and *)
(* a dead queue, is never in the hands of two connections at a time.       *)
OneConnPerId ==
    \A c, d \in Conns : conn[c].id # 0 /\ conn[c].id = conn[d].id => c = d

(* deadQueue is contiguous: _hasMsgLoss reads the slot before the pointer  *)
(* and drainDeadQueue every slot up to it, without looking for nil.        *)
DeadQueueIsContiguous ==
    \A c \in Conns :
        LET wc == conn[c]
        IN  \A i \in Slot :
              wc.deadQueue[i] = nil <=>
                  wc.deadQueue[wc.deadQueuePointer] = nil
                  /\ i >= wc.deadQueuePointer

(* The whole implements the promise of ReliableStream.                     *)
Stream == INSTANCE ReliableStream WITH
            Broadcasts <- Broadcasts,
            begun <- client.connectionId # 0,
            accepted <- Accepted,
            delivered <- got

ImplementsStream == Stream!Spec

(* Nothing more can go wrong or be said, and the client is served by the   *)
(* connection it knows and has been given all that was taken for it.       *)
CaughtUp ==
    /\ client.conn # NoConn
    /\ client.open
    /\ conn[client.conn].phase = "loop"
    /\ conn[client.conn].id = client.connectionId
    /\ got = Accepted

(* Faults and broadcasts are bounded here, so in the end they stop: the    *)
(* client then has a connection and everything taken for it.               *)
EventuallyCaughtUp == <>[]CaughtUp

(* "deadQueue ... is used to resuscitate any messages that might have got  *)
(* lost when the connection is broken" (web_conn.go): a client that is not *)
(* told otherwise has been given every broadcast up to the last one, but   *)
(* for those its last refetch of the data covers.                          *)
NothingLostSilently ==
    \A n \in Broadcasts :
        refetched < n /\ n < last /\ Deliverable(n) =>
            \E i \in DOMAIN got : got[i] = n
=============================================================================
