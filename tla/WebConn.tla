------------------------------ MODULE WebConn ------------------------------
(***************************************************************************)
(* The server's end of the websocket connections of one user: the WebConn  *)
(* objects of web_conn.go with their two pumps, and the sockets they write *)
(* to. The hub that owns them is in WebHub.                                *)
(*                                                                         *)
(* A resumed connection is a new WebConn that takes over the send channel  *)
(* and the dead queue of the old one. The old object is reachable from     *)
(* nowhere after that, so a slot of Conns is then free for another.        *)
(***************************************************************************)
EXTENDS DeadQueue, Sequences, FiniteSets

CONSTANTS Conns,           \* the WebConn objects that may exist at once
          sendQueueSize,   \* capacity of a send channel, 256 in the code
          MaxBroadcasts,   \* bound on the broadcasts
          MaxIds,          \* bound on the connection ids handed out
          Rejected,        \* broadcasts a hook rejects for this user
          Unencodable      \* broadcasts whose encoding fails

Broadcasts == 1 .. MaxBroadcasts
Ids == 1 .. MaxIds   \* connection ids; 0 is the empty id of the code

ASSUME WebConnAssumption ==
    /\ IsFiniteSet(Conns)
    /\ sendQueueSize \in Nat \ {0}
    /\ MaxBroadcasts \in Nat /\ MaxIds \in Nat
    /\ Rejected \subseteq Broadcasts
    /\ Unencodable \subseteq Broadcasts

VARIABLES conn,     \* the WebConn objects
          sock,     \* their sockets: up, and what is on its way to the client
          nextId,   \* what model.NewId will return
          stream    \* history: the broadcasts a connection id has taken

connVars == <<conn, sock, nextId, stream>>

(* Where a connection is:                                                  *)
(*   free      no such object                                              *)
(*   upgraded  connectWebSocket after the upgrade of the request           *)
(*   checked   after PopulateWebConnConfig and NewWebConn                  *)
(*   start     registered; writePump has not looked at the sequence yet    *)
(*   drain     writePump in drainDeadQueue                                 *)
(*   loop      writePump in its loop                                       *)
(*   ended     writePump has returned                                      *)
(*   parked    both pumps have ended, the hub has marked it inactive       *)
Phase == {"free", "upgraded", "checked", "start", "drain", "loop", "ended",
          "parked"}

Pumping == {"start", "drain", "loop", "ended"}

(* A hello names a connection id that has been handed out.                 *)
ConnMessage == {m \in Message : m.type = "hello" => m.val \in Ids}

Conn == [phase     : Phase,
         reading   : BOOLEAN,         \* readPump has not returned
         reqId     : 0 .. MaxIds,     \* connection_id of the request
         reqSeq    : Nat,             \* sequence_number of the request
         id        : 0 .. MaxIds,     \* connectionID
         Sequence  : Nat,
         reuse     : BOOLEAN,         \* reuseCount # 0
         Active    : BOOLEAN,
         send      : Seq(ConnMessage),
         closed    : BOOLEAN,         \* send has been closed
         deadQueue : [Slot -> ConnMessage \cup {nil}],
         deadQueuePointer : Slot,
         currPtr   : Slot]            \* local of drainDeadQueue

FreeConn == [phase |-> "free", reading |-> FALSE, reqId |-> 0, reqSeq |-> 0,
             id |-> 0, Sequence |-> 0, reuse |-> FALSE, Active |-> FALSE,
             send |-> <<>>, closed |-> FALSE, deadQueue |-> NewDeadQueue,
             deadQueuePointer |-> 0, currPtr |-> 0]

Socket == [up : BOOLEAN, toClient : Seq(ConnMessage)]

Hello(id) == [type |-> "hello", val |-> id, seq |-> 0]
Event(n) == [type |-> "event", val |-> n, seq |-> 0]
Response == [type |-> "response", val |-> 0, seq |-> 0]

(* What a hook lets through and the encoder accepts.                       *)
Deliverable(n) == n \notin Rejected \cup Unencodable

IsShown(m) == m.type = "event" /\ Deliverable(m.val)

(* The broadcasts the user is meant to see among the messages of a queue,  *)
(* and the same in their order: the hub numbers the broadcasts as it puts  *)
(* them in the queues.                                                     *)
ShownSet(msgs) == {msgs[i].val : i \in {j \in DOMAIN msgs : IsShown(msgs[j])}}

Shown(msgs) ==
    CHOOSE v \in [1 .. Cardinality(ShownSet(msgs)) -> ShownSet(msgs)] :
        \A i, j \in DOMAIN v : i < j => v[i] < v[j]

ConnInit ==
    /\ conn = [c \in Conns |-> FreeConn]
    /\ sock = [c \in Conns |-> [up |-> FALSE, toClient |-> <<>>]]
    /\ nextId = 1
    /\ stream = [id \in Ids |-> <<>>]

-----------------------------------------------------------------------------
(* Writing to a socket that is up puts the message behind those already on *)
(* their way. On a broken one the write fails, or still succeeds into the  *)
(* buffer of the kernel and the message is lost.                           *)

Written(c, msg) ==
    sock' = [sock EXCEPT ![c].toClient = IF sock[c].up THEN Append(@, msg)
                                                       ELSE @]

(* writePump returns; its deferred WebSocket.Close ends the socket after   *)
(* what has been written.                                                  *)
PumpReturns(c, wc) ==
    /\ conn' = [conn EXCEPT ![c] = [wc EXCEPT !.phase = "ended"]]
    /\ sock' = [sock EXCEPT ![c].up = FALSE]

(* The connection becomes wc once msg is written, or writePump returns.    *)
WriteOrReturn(c, wc, msg) ==
    \/ /\ conn' = [conn EXCEPT ![c] = wc]
       /\ Written(c, msg)
    \/ /\ ~sock[c].up
       /\ PumpReturns(c, wc)

(* writePump, before its loop: nothing to resume.                          *)
StartFresh(c) ==
    /\ conn[c].phase = "start"
    /\ conn[c].Sequence = 0
    /\ conn' = [conn EXCEPT ![c].phase = "loop"]
    /\ UNCHANGED <<sock, nextId, stream>>

(* The event the client wants is in the dead queue.                        *)
StartFound(c) ==
    LET wc == conn[c]
    IN  /\ wc.phase = "start"
        /\ wc.Sequence # 0
        /\ isInDeadQueue(wc.deadQueue, wc.Sequence)
        /\ conn' = [conn EXCEPT
              ![c] = [wc EXCEPT
                        !.phase = "drain",
                        !.currPtr = IndexInDeadQueue(wc.deadQueue, wc.Sequence)]]
        /\ UNCHANGED <<sock, nextId, stream>>

(* It should have been there: the connection gets another id and a hello.  *)
(* What waits in send belongs to the new stream.                           *)
StartLost(c) ==
    LET wc == conn[c]
        hello == Hello(nextId)
    IN  /\ wc.phase = "start"
        /\ wc.Sequence # 0
        /\ ~isInDeadQueue(wc.deadQueue, wc.Sequence)
        /\ hasMsgLoss(wc.deadQueue, wc.deadQueuePointer, wc.Sequence)
        /\ nextId \in Ids
        /\ nextId' = nextId + 1
        /\ stream' = [stream EXCEPT ![nextId] = Shown(wc.send)]
        /\ WriteOrReturn(c,
              [wc EXCEPT
                 !.phase = "loop",
                 !.id = nextId,
                 !.deadQueue = addToDeadQueue(clearDeadQueue(@), 0, hello),
                 !.deadQueuePointer = NextSlot(0),
                 !.Sequence = 1],
              hello)

(* The client has seen everything that was written.                        *)
StartLossless(c) ==
    LET wc == conn[c]
    IN  /\ wc.phase = "start"
        /\ wc.Sequence # 0
        /\ ~isInDeadQueue(wc.deadQueue, wc.Sequence)
        /\ ~hasMsgLoss(wc.deadQueue, wc.deadQueuePointer, wc.Sequence)
        /\ conn' = [conn EXCEPT ![c].phase = "loop"]
        /\ UNCHANGED <<sock, nextId, stream>>

(* One iteration of drainDeadQueue. writeMessage counts the message before *)
(* it writes it.                                                           *)
Drain(c) ==
    LET wc == conn[c]
        done == DrainedTo(wc.deadQueue, wc.deadQueuePointer, wc.currPtr)
    IN  /\ wc.phase = "drain"
        /\ WriteOrReturn(c,
              [wc EXCEPT !.phase = IF done THEN "loop" ELSE "drain",
                         !.Sequence = @ + 1,
                         !.currPtr = IF done THEN 0 ELSE NextSlot(@)],
              wc.deadQueue[wc.currPtr])
        /\ UNCHANGED <<nextId, stream>>

(* The loop of writePump receives from send.                               *)
Receiving(c) == conn[c].phase = "loop" /\ conn[c].send # <<>>

(* Mutant of PumpSkip: the event that does not encode takes a slot as well.*)
PumpSkipTakesSlot(c) ==
    LET wc == conn[c]
        msg == Head(wc.send)
    IN  /\ Receiving(c)
        /\ msg.type = "event" /\ ~Deliverable(msg.val)
        /\ conn' = [conn EXCEPT
              ![c].send = Tail(@),
              ![c].Sequence = IF msg.val \in Rejected THEN @ ELSE @ + 1,
              ![c].deadQueuePointer = IF msg.val \in Rejected THEN @
                                                              ELSE NextSlot(@)]
        /\ UNCHANGED <<sock, nextId, stream>>

(* A message a hook has rejected is skipped, one that does not encode only *)
(* uses up a number.                                                       *)
PumpSkip(c) ==
    LET wc == conn[c]
        msg == Head(wc.send)
    IN  /\ Receiving(c)
        /\ msg.type = "event" /\ ~Deliverable(msg.val)
        /\ conn' = [conn EXCEPT
              ![c].send = Tail(@),
              ![c].Sequence = IF msg.val \in Rejected THEN @ ELSE @ + 1]
        /\ UNCHANGED <<sock, nextId, stream>>

(* Mutant of PumpEvent: the event is kept once it has been written.        *)
PumpEventKeptAfter(c) ==
    LET wc == conn[c]
        msg == [Head(wc.send) EXCEPT !.seq = wc.Sequence]
        counted == [wc EXCEPT !.send = Tail(@), !.Sequence = @ + 1]
    IN  /\ Receiving(c)
        /\ msg.type = "event" => Deliverable(msg.val)
        /\ msg.type # "response"
        /\ \/ /\ conn' = [conn EXCEPT
                  ![c] = [counted EXCEPT
                            !.deadQueue = addToDeadQueue(@, wc.deadQueuePointer, msg),
                            !.deadQueuePointer = NextSlot(@)]]
              /\ Written(c, msg)
           \/ ~sock[c].up /\ PumpReturns(c, counted)
        /\ UNCHANGED <<nextId, stream>>

(* Any other event is numbered, kept in the dead queue and written.        *)
PumpEvent(c) ==
    LET wc == conn[c]
        msg == [Head(wc.send) EXCEPT !.seq = wc.Sequence]
    IN  /\ Receiving(c)
        /\ msg.type = "event" => Deliverable(msg.val)
        /\ msg.type # "response"
        /\ WriteOrReturn(c,
              [wc EXCEPT
                 !.send = Tail(@),
                 !.Sequence = @ + 1,
                 !.deadQueue = addToDeadQueue(@, wc.deadQueuePointer, msg),
                 !.deadQueuePointer = NextSlot(@)],
              msg)
        /\ UNCHANGED <<nextId, stream>>

(* A response has no sequence number and is not kept.                      *)
PumpResponse(c) ==
    /\ Receiving(c)
    /\ Head(conn[c].send).type = "response"
    /\ WriteOrReturn(c, [conn[c] EXCEPT !.send = Tail(@)], Head(conn[c].send))
    /\ UNCHANGED <<nextId, stream>>

(* send is closed and empty: writePump writes a close frame and returns.   *)
PumpClosed(c) ==
    /\ conn[c].phase = "loop"
    /\ conn[c].send = <<>> /\ conn[c].closed
    /\ PumpReturns(c, conn[c])
    /\ UNCHANGED <<nextId, stream>>

(* A ping that cannot be written, or endWritePump once readPump is over.   *)
PumpEnds(c) ==
    /\ conn[c].phase = "loop"
    /\ ~conn[c].reading \/ ~sock[c].up
    /\ PumpReturns(c, conn[c])
    /\ UNCHANGED <<nextId, stream>>

(* readPump: the read fails on a broken or closed socket.                  *)
ReadFails(c) ==
    /\ conn[c].phase \in Pumping
    /\ conn[c].reading
    /\ ~sock[c].up
    /\ conn' = [conn EXCEPT ![c].reading = FALSE]
    /\ UNCHANGED <<sock, nextId, stream>>

Pump(c) ==
    \/ StartFresh(c) \/ StartFound(c) \/ StartLost(c) \/ StartLossless(c)
    \/ Drain(c)
    \/ PumpSkip(c) \/ PumpEvent(c) \/ PumpResponse(c) \/ PumpClosed(c)
    \/ PumpEnds(c)
    \/ ReadFails(c)
=============================================================================
