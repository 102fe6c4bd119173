----------------------- MODULE ReliableWebSocketProofs -----------------------
(***************************************************************************)
(* Proofs about ReliableWebSocket, for any number of connections, any      *)
(* sizes of the queues and any bounds: an id is in the hands of one        *)
(* connection, the hub's index has none that is closed, and a dead queue   *)
(* has no hole, over which the scans and the replay of writePump would     *)
(* stumble.                                                                *)
(***************************************************************************)
EXTENDS ReliableWebSocket, TLAPS

(* A connection that the hub has not registered is not closed: it has been *)
(* made anew, or with the channel of one that was in the index. Once it    *)
(* has been checked it has an id.                                          *)
UnregisteredIsOpen ==
    \A c \in Conns :
        /\ conn[c].phase \in {"upgraded", "checked"} => ~conn[c].closed
        /\ conn[c].phase = "checked" => conn[c].id # 0

(* The id of a connection has been handed out.                             *)
IdsAreOld == \A c \in Conns : conn[c].id < nextId

(* drainDeadQueue stands at an event.                                      *)
DrainsEvents ==
    \A c \in Conns : conn[c].phase = "drain" => conn[c].deadQueue[conn[c].currPtr] # nil

(* The inductive invariant.                                                *)
WebSocketInv ==
    /\ ServerTypeOK
    /\ ClientTypeOK
    /\ IndexIsUsable
    /\ UnregisteredIsOpen
    /\ IdsAreOld
    /\ OneConnPerId
    /\ DeadQueueIsContiguous
    /\ DrainsEvents

-----------------------------------------------------------------------------
(* The ring.                                                               *)

LEMMA NextSlotStep ==
    ASSUME NEW p \in Slot
    PROVE  NextSlot(p) = IF p = deadQueueSize - 1 THEN 0 ELSE p + 1
<1>1. CASE p = deadQueueSize - 1
  BY <1>1, DeadQueueSizeAssumption DEF NextSlot, Slot
<1>2. CASE p # deadQueueSize - 1
  <2>1. p + 1 \in 0 .. deadQueueSize - 1
    BY <1>2, DeadQueueSizeAssumption DEF Slot
  <2>2. (p + 1) % deadQueueSize = p + 1
    BY <2>1, DeadQueueSizeAssumption
  <2>3. QED
    BY <1>2, <2>2 DEF NextSlot
<1>3. QED
  BY <1>1, <1>2

LEMMA NextSlotType == \A p \in Slot : NextSlot(p) \in Slot
BY NextSlotStep, DeadQueueSizeAssumption DEF Slot

LEMMA NilIsNoMessage == nil \notin ConnMessage
BY DEF nil, ConnMessage, Message

Ring == [Slot -> ConnMessage \cup {nil}]

(* What DeadQueueIsContiguous says of one ring.                            *)
Contiguous(dq, p) == \A i \in Slot : dq[i] = nil <=> dq[p] = nil /\ i >= p

(* An event added at the pointer leaves no hole.                           *)
LEMMA AddKeepsContiguous ==
    ASSUME NEW dq \in Ring, NEW p \in Slot, NEW msg \in ConnMessage, Contiguous(dq, p)
    PROVE  /\ addToDeadQueue(dq, p, msg) \in Ring
           /\ Contiguous(addToDeadQueue(dq, p, msg), NextSlot(p))
<1> DEFINE new == addToDeadQueue(dq, p, msg)
<1> USE DeadQueueSizeAssumption
<1>1. new \in Ring /\ new[p] # nil /\ \A i \in Slot : i # p => new[i] = dq[i]
  BY NilIsNoMessage DEF addToDeadQueue, Ring
<1>2. CASE p = deadQueueSize - 1
  <2>1. NextSlot(p) = 0 /\ 0 \in Slot
    BY <1>2, NextSlotStep DEF Slot
  <2>2. \A i \in Slot : i # p => dq[i] # nil
    BY <1>2 DEF Contiguous, Slot
  <2>3. QED
    BY <1>1, <1>2, <2>1, <2>2 DEF Contiguous, Slot
<1>3. CASE p # deadQueueSize - 1
  <2>1. NextSlot(p) = p + 1 /\ p + 1 \in Slot
    BY <1>3, NextSlotStep DEF Slot
  <2>2. QED
    BY <1>1, <2>1 DEF Contiguous, Slot
<1>4. QED
  BY <1>1, <1>2, <1>3

(* clearDeadQueue, which stops at the first empty slot, empties it.        *)
LEMMA ClearEmpties ==
    ASSUME NEW dq \in Ring, NEW p \in Slot, Contiguous(dq, p)
    PROVE  clearDeadQueue(dq) = NewDeadQueue
<1> SUFFICES ASSUME NEW i \in Slot, ~(\A j \in 0 .. i : dq[j] # nil)
             PROVE  dq[i] = nil
  BY DEF clearDeadQueue, NewDeadQueue
<1>1. PICK j \in 0 .. i : dq[j] = nil
  OBVIOUS
<1>2. QED
  BY <1>1, DeadQueueSizeAssumption DEF Contiguous, Slot

LEMMA NewIsContiguous ==
    /\ NewDeadQueue \in Ring
    /\ 0 \in Slot
    /\ Contiguous(NewDeadQueue, 0)
BY DeadQueueSizeAssumption DEF NewDeadQueue, Ring, Contiguous, Slot

(* What the scan finds.                                                    *)
LEMMA IndexFound ==
    ASSUME NEW dq, NEW s, isInDeadQueue(dq, s)
    PROVE  /\ IndexInDeadQueue(dq, s) \in Slot
           /\ dq[IndexInDeadQueue(dq, s)] # nil
           /\ dq[IndexInDeadQueue(dq, s)].seq = s
BY DEF isInDeadQueue, IndexInDeadQueue, FoundAt

(* The loop of drainDeadQueue goes on to a slot with an event.             *)
LEMMA DrainGoesOn ==
    ASSUME NEW dq \in Ring, NEW p \in Slot, NEW cur \in Slot,
           Contiguous(dq, p), dq[cur] # nil, ~DrainedTo(dq, p, cur)
    PROVE  NextSlot(cur) \in Slot /\ dq[NextSlot(cur)] # nil
<1> USE DeadQueueSizeAssumption
<1>1. CASE dq[p] = nil
  <2>1. cur + 1 < p
    BY <1>1 DEF DrainedTo, Slot
  <2>2. NextSlot(cur) = cur + 1 /\ cur + 1 \in Slot
    BY <2>1, NextSlotStep DEF Slot
  <2>3. QED
    BY <2>1, <2>2 DEF Contiguous, Slot
<1>2. CASE dq[p] # nil
  BY <1>2, NextSlotType DEF Contiguous
<1>3. QED
  BY <1>1, <1>2

-----------------------------------------------------------------------------
(* Types.                                                                  *)

LEMMA FreeType == FreeConn \in Conn
BY NewIsContiguous, WebConnAssumption DEF FreeConn, Conn, Phase, Ring

LEMMA ConnType ==
    ASSUME ServerTypeOK, NEW c \in Conns
    PROVE  /\ conn[c] \in Conn /\ sock[c] \in Socket
           /\ conn[c].phase \in Phase
           /\ conn[c].id \in 0 .. MaxIds /\ conn[c].reqId \in 0 .. MaxIds
           /\ conn[c].Sequence \in Nat /\ conn[c].reqSeq \in Nat
           /\ conn[c].send \in Seq(ConnMessage)
           /\ conn[c].deadQueue \in Ring
           /\ conn[c].deadQueuePointer \in Slot /\ conn[c].currPtr \in Slot
           /\ {conn[c].reading, conn[c].reuse, conn[c].Active, conn[c].closed} \subseteq BOOLEAN
           /\ sock[c].up \in BOOLEAN
           /\ sock[c].toClient \in Seq(ConnMessage)
<1>1. conn[c] \in Conn /\ sock[c] \in Socket
  BY DEF ServerTypeOK
<1>2. QED
  BY <1>1 DEF Conn, Socket, Ring

LEMMA WriteType ==
    ASSUME ServerTypeOK, NEW c \in Conns, NEW wc \in Conn, NEW msg \in ConnMessage,
           WriteOrReturn(c, wc, msg)
    PROVE  conn' \in [Conns -> Conn] /\ sock' \in [Conns -> Socket]
<1>1. [wc EXCEPT !.phase = "ended"] \in Conn
  BY DEF Conn, Phase
<1>2. Append(sock[c].toClient, msg) \in Seq(ConnMessage)
  BY ConnType
<1>3. /\ [sock[c] EXCEPT !.up = FALSE] \in Socket
      /\ [sock[c] EXCEPT !.toClient = IF sock[c].up THEN Append(@, msg) ELSE @] \in Socket
  BY <1>2, ConnType DEF Socket
<1>4. QED
  BY ZenonT(30), <1>1, <1>3, ConnType DEF ServerTypeOK, WriteOrReturn, PumpReturns, Written

(* A step that writes changes one connection; writePump may return.        *)
LEMMA WriteShape ==
    ASSUME NEW c, NEW wc, NEW msg, WriteOrReturn(c, wc, msg)
    PROVE  \/ conn' = [conn EXCEPT ![c] = wc]
           \/ conn' = [conn EXCEPT ![c] = [wc EXCEPT !.phase = "ended"]]
BY DEF WriteOrReturn, PumpReturns

(* The type of a connection after a step of its pumps.                     *)
LEMMA PumpType ==
    ASSUME ServerTypeOK, NEW c \in Conns, Pump(c), DeadQueueIsContiguous, DrainsEvents
    PROVE  /\ conn' \in [Conns -> Conn]
           /\ sock' \in [Conns -> Socket]
           /\ nextId' \in 1 .. MaxIds + 1
<1> DEFINE wc == conn[c]
<1>0. /\ wc \in Conn /\ sock[c] \in Socket
      /\ wc.Sequence \in Nat /\ wc.send \in Seq(ConnMessage)
      /\ wc.deadQueue \in Ring
      /\ wc.deadQueuePointer \in Slot /\ wc.currPtr \in Slot
  BY ConnType
<1>a. wc \in Conn
  BY <1>0
<1>1. CASE StartFresh(c) \/ StartLossless(c) \/ ReadFails(c)
  <2>1. [wc EXCEPT !.phase = "loop"] \in Conn /\ [wc EXCEPT !.reading = FALSE] \in Conn
    BY <1>0 DEF Conn, Phase
  <2>2. QED
    BY <1>0, <1>1, <2>1 DEF ServerTypeOK, StartFresh, StartLossless, ReadFails
<1>2. CASE StartFound(c)
  <2>1. IndexInDeadQueue(wc.deadQueue, wc.Sequence) \in Slot
    BY <1>0, <1>2, IndexFound DEF StartFound
  <2>2. [wc EXCEPT !.phase = "drain",
                   !.currPtr = IndexInDeadQueue(wc.deadQueue, wc.Sequence)] \in Conn
    BY <1>0, <2>1 DEF Conn, Phase
  <2>3. QED
    BY <1>0, <1>2, <2>2 DEF ServerTypeOK, StartFound
<1>3. CASE StartLost(c)
  <2>1. nextId \in Ids /\ Hello(nextId) \in ConnMessage
    BY <1>0, <1>3 DEF StartLost, Hello, ConnMessage, Message, Ids
  <2>2. addToDeadQueue(clearDeadQueue(wc.deadQueue), 0, Hello(nextId)) \in Ring
    BY <1>0, <2>1, ClearEmpties, NewIsContiguous, AddKeepsContiguous DEF DeadQueueIsContiguous, Contiguous
  <2>3. NextSlot(0) \in Slot
    BY <1>0, NextSlotType, NewIsContiguous
  <2> DEFINE new == [wc EXCEPT
                 !.phase = "loop",
                 !.id = nextId,
                 !.deadQueue = addToDeadQueue(clearDeadQueue(@), 0, Hello(nextId)),
                 !.deadQueuePointer = NextSlot(0),
                 !.Sequence = 1]
  <2>4. new \in Conn
    <3>1. nextId \in 0 .. MaxIds /\ "loop" \in Phase /\ 1 \in Nat
      BY <2>1, WebConnAssumption DEF Ids, Phase
    <3>2. QED
      BY <1>a, <2>2, <2>3, <3>1 DEF Conn, Ring
  <2>5. WriteOrReturn(c, new, Hello(nextId))
    BY <1>0, <1>3 DEF StartLost
  <2>6. nextId' \in 1 .. MaxIds + 1
    BY <1>0, <1>3, WebConnAssumption DEF StartLost, Ids
  <2>7. QED
    BY <1>0, <2>1, <2>4, <2>5, <2>6, WriteType
<1>4. CASE Drain(c)
  <2> DEFINE done == DrainedTo(wc.deadQueue, wc.deadQueuePointer, wc.currPtr)
             new == [wc EXCEPT !.phase = IF done THEN "loop" ELSE "drain",
                               !.Sequence = @ + 1,
                               !.currPtr = IF done THEN 0 ELSE NextSlot(@)]
  <2>1. wc.deadQueue[wc.currPtr] \in ConnMessage
    BY <1>0, <1>4 DEF Drain, DrainsEvents, Ring
  <2>2. NextSlot(wc.currPtr) \in Slot /\ 0 \in Slot
    BY <1>0, NextSlotType, NewIsContiguous
  <2>3. new \in Conn
    <3>1. (IF done THEN "loop" ELSE "drain") \in Phase /\ (IF done THEN 0 ELSE NextSlot(wc.currPtr)) \in Slot
      BY <2>2 DEF Phase
    <3>2. wc.Sequence + 1 \in Nat
      BY <1>0
    <3> HIDE DEF done
    <3>3. QED
      BY <1>a, <3>1, <3>2 DEF Conn
  <2>4. WriteOrReturn(c, new, wc.deadQueue[wc.currPtr]) /\ nextId' = nextId
    BY <1>0, <1>4 DEF Drain
  <2>5. QED
    BY <1>0, <2>1, <2>3, <2>4, WriteType DEF ServerTypeOK
<1>5. CASE PumpSkip(c)
  <2>1. Tail(wc.send) \in Seq(ConnMessage)
    BY <1>0, <1>5 DEF PumpSkip, Receiving
  <2> DEFINE s == IF Head(wc.send).val \in Rejected THEN wc.Sequence ELSE wc.Sequence + 1
  <2>2. [wc EXCEPT !.send = Tail(wc.send), !.Sequence = s] \in Conn
    <3>1. s \in Nat
      BY <1>0
    <3>2. QED
      BY <1>a, <2>1, <3>1 DEF Conn
  <2>3. conn' = [conn EXCEPT ![c] = [wc EXCEPT !.send = Tail(wc.send), !.Sequence = s]]
    BY <1>0, <1>5 DEF PumpSkip, ServerTypeOK
  <2>4. QED
    BY <1>0, <1>5, <2>2, <2>3 DEF ServerTypeOK, PumpSkip
<1>6. CASE PumpEvent(c)
  <2> DEFINE msg == [Head(wc.send) EXCEPT !.seq = wc.Sequence]
             new == [wc EXCEPT
                 !.send = Tail(@),
                 !.Sequence = @ + 1,
                 !.deadQueue = addToDeadQueue(@, wc.deadQueuePointer, msg),
                 !.deadQueuePointer = NextSlot(@)]
  <2>1. Head(wc.send) \in ConnMessage /\ Tail(wc.send) \in Seq(ConnMessage)
    BY <1>0, <1>6 DEF PumpEvent, Receiving
  <2>2. msg \in ConnMessage
    BY <1>0, <2>1 DEF ConnMessage, Message
  <2>3. addToDeadQueue(wc.deadQueue, wc.deadQueuePointer, msg) \in Ring
    BY <1>0, <2>2, AddKeepsContiguous DEF DeadQueueIsContiguous, Contiguous
  <2>4. NextSlot(wc.deadQueuePointer) \in Slot
    BY <1>0, NextSlotType
  <2>5. new \in Conn
    <3>1. wc.Sequence + 1 \in Nat
      BY <1>0
    <3>2. QED
      BY <1>a, <2>1, <2>3, <2>4, <3>1 DEF Conn, Ring
  <2>6. WriteOrReturn(c, new, msg) /\ nextId' = nextId
    BY <1>0, <1>6 DEF PumpEvent
  <2>7. QED
    BY <1>0, <2>2, <2>5, <2>6, WriteType DEF ServerTypeOK
<1>7. CASE PumpResponse(c)
  <2>1. Head(wc.send) \in ConnMessage /\ Tail(wc.send) \in Seq(ConnMessage)
    BY <1>0, <1>7 DEF PumpResponse, Receiving
  <2>2. [wc EXCEPT !.send = Tail(@)] \in Conn
    BY <1>0, <2>1 DEF Conn
  <2>3. WriteOrReturn(c, [wc EXCEPT !.send = Tail(@)], Head(wc.send)) /\ nextId' = nextId
    BY <1>0, <1>7 DEF PumpResponse
  <2>4. QED
    BY <1>0, <2>1, <2>2, <2>3, WriteType DEF ServerTypeOK
<1>8. CASE PumpClosed(c) \/ PumpEnds(c)
  <2>1. [wc EXCEPT !.phase = "ended"] \in Conn /\ [sock[c] EXCEPT !.up = FALSE] \in Socket
    BY <1>0 DEF Conn, Phase, Socket
  <2>2. QED
    BY <1>0, <1>8, <2>1 DEF PumpClosed, PumpEnds, PumpReturns, ServerTypeOK
<1>9. QED
  BY <1>1, <1>2, <1>3, <1>4, <1>5, <1>6, <1>7, <1>8 DEF Pump

(* A message that a queue takes, and a connection the hub closes.          *)
LEMMA HubConnType ==
    ASSUME ServerTypeOK, NEW c \in Conns
    PROVE  /\ ClosedConn(c) \in Conn
           /\ \A m \in ConnMessage : [conn[c] EXCEPT !.send = Append(@, m)] \in Conn
           /\ \A n \in Nat : Event(n) \in ConnMessage
           /\ Response \in ConnMessage
           /\ conn[c].id # 0 => Hello(conn[c].id) \in ConnMessage
<1>1. [conn[c] EXCEPT !.closed = TRUE] \in Conn
  BY ConnType DEF Conn
<1>2. \A m \in ConnMessage : [conn[c] EXCEPT !.send = Append(@, m)] \in Conn
  <2> TAKE m \in ConnMessage
  <2>1. Append(conn[c].send, m) \in Seq(ConnMessage)
    BY ConnType
  <2>2. QED
    BY <2>1, ConnType DEF Conn
<1>3. /\ \A n \in Nat : Event(n) \in ConnMessage
      /\ Response \in ConnMessage
      /\ conn[c].id # 0 => Hello(conn[c].id) \in ConnMessage
  <2>1. conn[c].id \in 0 .. MaxIds /\ MaxIds \in Nat
    BY ConnType, WebConnAssumption
  <2>2. QED
    BY <2>1 DEF Event, Response, Hello, ConnMessage, Message, Ids
<1>4. QED
  BY <1>1, <1>2, <1>3, FreeType DEF ClosedConn
(* The same after a step of the hub.                                       *)
LEMMA HubType ==
    ASSUME ServerTypeOK, UnregisteredIsOpen, NEW c \in Conns,
           \/ HubStep(c) \/ RegisterFails(c) \/ SendMessage(c)
           \/ RemoveInactiveConnection(c) \/ Break(c)
    PROVE  ServerTypeOK'
<1> DEFINE wc == conn[c]
<1>0. /\ wc \in Conn /\ FreeConn \in Conn
      /\ [sock[c] EXCEPT !.up = FALSE] \in Socket
      /\ [up |-> FALSE, toClient |-> <<>>] \in Socket
  <2>1. [up |-> FALSE, toClient |-> <<>>] \in Socket
    BY DEF Socket
  <2>2. [sock[c] EXCEPT !.up = FALSE] \in Socket
    BY ConnType DEF Socket
  <2>3. QED
    BY <2>1, <2>2, ConnType, FreeType
<1>1. CASE CheckConnNew(c)
  <2>1. nextId \in 0 .. MaxIds /\ "checked" \in Phase /\ nextId + 1 \in 1 .. MaxIds + 1
    BY <1>1, WebConnAssumption DEF CheckConnNew, Ids, Phase
  <2>2. [wc EXCEPT !.phase = "checked", !.id = nextId, !.Active = TRUE] \in Conn
    BY <1>0, <2>1 DEF Conn
  <2>3. conn' = [conn EXCEPT ![c] = [wc EXCEPT !.phase = "checked", !.id = nextId, !.Active = TRUE]]
    BY <1>1 DEF CheckConnNew, ServerTypeOK
  <2>4. QED
    BY <1>1, <2>1, <2>2, <2>3 DEF CheckConnNew, ServerTypeOK, hubVars
<1>2. CASE CheckConnFound(c)
  <2>1. PICK old \in Resumable(wc.reqId) :
          /\ connIndex' = connIndex \ {old}
          /\ conn' = [conn EXCEPT
              ![c] = [@ EXCEPT
                        !.phase = "checked",
                        !.id = conn[c].reqId,
                        !.Sequence = conn[c].reqSeq,
                        !.reuse = TRUE,
                        !.send = conn[old].send,
                        !.closed = conn[old].closed,
                        !.deadQueue = conn[old].deadQueue,
                        !.deadQueuePointer = conn[old].deadQueuePointer],
              ![old] = FreeConn]
    BY <1>2 DEF CheckConnFound
  <2>2. old \in Conns
    BY DEF Resumable, ServerTypeOK
  <2> DEFINE new == [wc EXCEPT
                        !.phase = "checked",
                        !.id = conn[c].reqId,
                        !.Sequence = conn[c].reqSeq,
                        !.reuse = TRUE,
                        !.send = conn[old].send,
                        !.closed = conn[old].closed,
                        !.deadQueue = conn[old].deadQueue,
                        !.deadQueuePointer = conn[old].deadQueuePointer]
  <2>3. new \in Conn
    <3>1. wc.reqId \in 0 .. MaxIds /\ wc.reqSeq \in Nat /\ "checked" \in Phase
      BY ConnType DEF Phase
    <3>2. /\ conn[old].send \in Seq(ConnMessage) /\ conn[old].closed \in BOOLEAN
          /\ conn[old].deadQueue \in Ring /\ conn[old].deadQueuePointer \in Slot
      BY <2>2, ConnType
    <3>3. QED
      BY <1>0, <3>1, <3>2 DEF Conn, Ring
  <2>4. conn' = [conn EXCEPT ![c] = new, ![old] = FreeConn]
    BY <2>1 DEF ServerTypeOK
  <2> HIDE DEF new
  <2>5. QED
    <3>1. conn' \in [Conns -> Conn]
      BY <1>0, <2>2, <2>3, <2>4 DEF ServerTypeOK
    <3>2. connIndex' \subseteq Conns
      BY <2>1 DEF ServerTypeOK
    <3>3. QED
      BY <1>2, <3>1, <3>2 DEF CheckConnFound, ServerTypeOK
<1>3. CASE Register(c)
  <2> DEFINE s == IF wc.reuse THEN wc.send ELSE Append(wc.send, Hello(wc.id))
             new == [wc EXCEPT !.phase = "start", !.reading = TRUE, !.Active = TRUE, !.send = s]
  <2>1. s \in Seq(ConnMessage) /\ "start" \in Phase
    BY <1>3, HubConnType, ConnType DEF Register, UnregisteredIsOpen, Phase
  <2>2. new \in Conn
    BY <1>0, <2>1 DEF Conn
  <2>3. conn' = [conn EXCEPT ![c] = new]
    BY <1>3 DEF Register
  <2>4. QED
    BY <1>3, <2>2, <2>3 DEF Register, ServerTypeOK, hubVars
<1>4. CASE RegisterFails(c)
  BY <1>0, <1>4, WebHubAssumption DEF RegisterFails, Fault, ServerTypeOK
<1>5. CASE Unregister(c)
  <2>1. [wc EXCEPT !.phase = "parked", !.Active = FALSE] \in Conn
    BY <1>0 DEF Conn, Phase
  <2>2. QED
    BY <1>0, <1>5, <2>1 DEF Unregister, ServerTypeOK, hubVars
<1>6. CASE SendMessage(c)
  <2>1. [wc EXCEPT !.send = Append(@, Response)] \in Conn /\ ClosedConn(c) \in Conn
    BY HubConnType
  <2>2. [conn EXCEPT ![c].send = Append(@, Response)] = [conn EXCEPT ![c] = [wc EXCEPT !.send = Append(@, Response)]]
    BY DEF ServerTypeOK
  <2>3. conn' \in [Conns -> Conn] /\ connIndex' \subseteq Conns
    BY <1>6, <2>1, <2>2 DEF SendMessage, ServerTypeOK
  <2>4. QED
    BY <1>6, <2>3, WebHubAssumption DEF SendMessage, ServerTypeOK
<1>7. CASE RemoveInactiveConnection(c)
  BY <1>0, <1>7 DEF RemoveInactiveConnection, ServerTypeOK
<1>8. CASE Break(c)
  BY <1>0, <1>8, WebHubAssumption DEF Break, Fault, ServerTypeOK
<1>9. QED
  BY <1>1, <1>2, <1>3, <1>4, <1>5, <1>6, <1>7, <1>8 DEF HubStep

LEMMA AllConnsType ==
    ASSUME ServerTypeOK, Broadcast \/ InvalidateFails \/ Restart
    PROVE  ServerTypeOK'
<1>0. /\ FreeConn \in Conn
      /\ [up |-> FALSE, toClient |-> <<>>] \in Socket
  BY FreeType DEF Socket
<1>1. CASE Broadcast
  <2>1. \A d \in Conns :
          /\ [conn[d] EXCEPT !.send = Append(@, Event(broadcasts + 1))] \in Conn
          /\ ClosedConn(d) \in Conn /\ conn[d] \in Conn
    <3>1. broadcasts + 1 \in Nat
      BY WebConnAssumption DEF ServerTypeOK
    <3>2. \A d \in Conns : Event(broadcasts + 1) \in ConnMessage
      BY <3>1, HubConnType
    <3>3. QED
      BY <3>2, HubConnType, ConnType
  <2>2. conn' \in [Conns -> Conn]
    BY <1>1, <2>1 DEF Broadcast
  <2>3. broadcasts' \in 0 .. MaxBroadcasts /\ connIndex' \subseteq Conns
    BY <1>1 DEF Broadcast, Broadcasts, ServerTypeOK
  <2>4. QED
    BY <1>1, <2>2, <2>3 DEF Broadcast, ServerTypeOK
<1>2. CASE InvalidateFails
  <2>1. \A d \in Conns : ClosedConn(d) \in Conn /\ conn[d] \in Conn
    BY HubConnType, ConnType
  <2>2. conn' \in [Conns -> Conn]
    BY <1>2, <2>1 DEF InvalidateFails
  <2>3. QED
    BY <1>2, <2>2, WebHubAssumption DEF InvalidateFails, Fault, ServerTypeOK
<1>3. CASE Restart
  BY <1>0, <1>3, WebHubAssumption DEF Restart, Fault, ServerTypeOK
<1>4. QED
  BY <1>1, <1>2, <1>3

(* The same after a step of the client.                                    *)
LEMMA ClientType ==
    ASSUME ServerTypeOK, ClientTypeOK,
           \/ \E c \in Conns : Initialize(c)
           \/ OnOpen \/ OnClose \/ OnEvent \/ OnMismatch \/ OnResponse
    PROVE  ServerTypeOK' /\ ClientTypeOK'
<1>0. /\ client \in Client /\ got \in Seq(Nat) /\ broadcasts \in Nat
      /\ client.serverSequence \in Nat /\ client.connectionId \in 0 .. MaxIds
      /\ <<>> \in Seq(Nat)
  BY WebConnAssumption DEF ServerTypeOK, ClientTypeOK, Client
<1>1. ASSUME Incoming
      PROVE  /\ client.conn \in Conns
             /\ Msg \in ConnMessage /\ Msg.val \in Nat /\ Msg.seq \in Nat
             /\ [sock[client.conn] EXCEPT !.toClient = Tail(@)] \in Socket
             /\ KnownId \in 0 .. MaxIds /\ ExpectedSeq \in Nat
  <2>1. client.conn \in Conns
    BY <1>0, <1>1 DEF Incoming, Client
  <2>2. sock[client.conn].toClient \in Seq(ConnMessage) /\ sock[client.conn].toClient # <<>>
    BY <1>1, <2>1, ConnType DEF Incoming
  <2>3. Msg \in ConnMessage /\ Tail(sock[client.conn].toClient) \in Seq(ConnMessage)
    BY <2>2 DEF Msg
  <2>4. Msg.val \in Nat /\ Msg.seq \in Nat
    BY <2>3 DEF ConnMessage, Message
  <2>5. KnownId \in 0 .. MaxIds
    BY <1>0, <2>3, WebConnAssumption DEF KnownId, ConnMessage, Ids
  <2>6. ExpectedSeq \in Nat
    BY <1>0 DEF ExpectedSeq
  <2>7. [sock[client.conn] EXCEPT !.toClient = Tail(@)] \in Socket
    BY <2>1, <2>3, ConnType DEF Socket
  <2>8. QED
    BY <2>1, <2>3, <2>4, <2>5, <2>6, <2>7
<1>2. ASSUME Incoming, HearHello
      PROVE  missed' \in Nat /\ refetched' \in Nat
  BY <1>0, <1>2 DEF HearHello, ClientTypeOK
<1>3. CASE \E c \in Conns : Initialize(c)
  <2>1. PICK c \in Conns : Initialize(c)
    BY <1>3
  <2> DEFINE new == [FreeConn EXCEPT !.phase = "upgraded",
                                     !.reqId = client.connectionId,
                                     !.reqSeq = client.serverSequence]
  <2>2. new \in Conn
    BY <1>0, FreeType DEF Conn, Phase
  <2>3. [client EXCEPT !.conn = c, !.open = FALSE] \in Client
    BY <1>0 DEF Client
  <2>4. [up |-> TRUE, toClient |-> <<>>] \in Socket
    BY DEF Socket
  <2> HIDE DEF new
  <2>5. conn' = [conn EXCEPT ![c] = new]
    BY <2>1 DEF Initialize, new
  <2>6. QED
    BY <2>1, <2>2, <2>3, <2>4, <2>5 DEF Initialize, ServerTypeOK, ClientTypeOK, hubVars
<1>4. CASE OnOpen \/ OnClose
  <2>1. /\ [client EXCEPT !.open = TRUE, !.failed = FALSE] \in Client
        /\ [client EXCEPT !.conn = NoConn, !.open = FALSE, !.failed = TRUE] \in Client
    BY <1>0 DEF Client
  <2>2. QED
    BY <1>0, <1>4, <2>1 DEF OnOpen, OnClose, ServerTypeOK, ClientTypeOK, connVars, hubVars
<1>5. CASE OnEvent
  <2>1. Incoming /\ HearHello /\ Taken
    BY <1>5 DEF OnEvent
  <2>2. [client EXCEPT !.connectionId = KnownId, !.serverSequence = Msg.seq + 1] \in Client
    <3>1. Msg.seq + 1 \in Nat /\ KnownId \in 0 .. MaxIds
      BY <1>1, <2>1
    <3>2. QED
      BY <1>0, <3>1 DEF Client
  <2>3. sock' \in [Conns -> Socket]
    BY <1>1, <2>1 DEF Taken, ServerTypeOK
  <2>4. got' \in Seq(Nat) /\ last' \in Nat
    BY <1>0, <1>1, <1>5, <2>1 DEF OnEvent, ClientTypeOK
  <2>5. QED
    BY <1>2, <1>5, <2>1, <2>2, <2>3, <2>4 DEF OnEvent, ServerTypeOK, ClientTypeOK, hubVars
<1>6. CASE OnMismatch
  <2>1. Incoming /\ HearHello
    BY <1>6 DEF OnMismatch
  <2>2. [client EXCEPT !.conn = NoConn, !.open = FALSE, !.failed = TRUE,
                       !.connectionId = KnownId, !.serverSequence = ExpectedSeq] \in Client
    BY <1>0, <1>1, <2>1 DEF Client
  <2>3. [up |-> FALSE, toClient |-> <<>>] \in Socket
    BY DEF Socket
  <2>4. got' \in Seq(Nat)
    BY <1>0, <1>6 DEF OnMismatch
  <2>5. QED
    BY <1>1, <1>2, <1>6, <2>1, <2>2, <2>3, <2>4
       DEF OnMismatch, ServerTypeOK, ClientTypeOK, hubVars
<1>7. CASE OnResponse
  <2>1. Incoming /\ Taken
    BY <1>7 DEF OnResponse
  <2>2. sock' \in [Conns -> Socket]
    BY <1>1, <2>1 DEF Taken, ServerTypeOK
  <2>3. QED
    BY <1>7, <2>2 DEF OnResponse, ServerTypeOK, ClientTypeOK, hubVars, clientVars
<1>8. QED
  BY <1>3, <1>4, <1>5, <1>6, <1>7

LEMMA TypeStep == WebSocketInv /\ [Next]_vars => ServerTypeOK' /\ ClientTypeOK'
<1> SUFFICES ASSUME WebSocketInv, [Next]_vars PROVE ServerTypeOK' /\ ClientTypeOK'
  OBVIOUS
<1>0. /\ ServerTypeOK /\ ClientTypeOK /\ UnregisteredIsOpen
      /\ DeadQueueIsContiguous /\ DrainsEvents
  BY DEF WebSocketInv
<1>1. ASSUME UNCHANGED clientVars PROVE ClientTypeOK'
  BY <1>0, <1>1 DEF ClientTypeOK, clientVars
<1>2. ASSUME NEW c \in Conns, Server(c) PROVE ServerTypeOK'
  <2>1. CASE Pump(c) /\ UNCHANGED hubVars
    BY <1>0, <2>1, PumpType DEF ServerTypeOK, hubVars
  <2>2. CASE ~(Pump(c) /\ UNCHANGED hubVars)
    BY <1>0, <1>2, <2>2, HubType DEF Server
  <2>3. QED
    BY <2>1, <2>2
<1>3. ASSUME Broadcast \/ InvalidateFails \/ Restart PROVE ServerTypeOK'
  BY <1>0, <1>3, AllConnsType
<1>4. CASE UNCHANGED vars
  BY <1>0, <1>4 DEF vars, connVars, hubVars, clientVars, ServerTypeOK, ClientTypeOK
<1>5. QED
  BY <1>0, <1>1, <1>2, <1>3, <1>4, ClientType DEF Next
-----------------------------------------------------------------------------
(* Ids and the index.                                                      *)

(* What the pumps leave alone.                                             *)
LEMMA PumpShape ==
    ASSUME ServerTypeOK, NEW c \in Conns, Pump(c)
    PROVE  /\ conn[c].phase \in Pumping /\ conn'[c].phase \in Pumping
           /\ conn'[c].Active = conn[c].Active
           /\ conn'[c].closed = conn[c].closed
           /\ \A d \in Conns : d # c => conn'[d] = conn[d]
           /\ \/ conn'[c].id = conn[c].id /\ nextId' = nextId
              \/ nextId \in Ids /\ conn'[c].id = nextId /\ nextId' = nextId + 1
<1>0. conn \in [Conns -> Conn] /\ conn[c] \in Conn
  BY DEF ServerTypeOK
<1> DEFINE wc == conn[c]
<1>1. CASE StartFresh(c) \/ StartLossless(c) \/ ReadFails(c)
  BY <1>0, <1>1 DEF StartFresh, StartLossless, ReadFails, Pumping, Conn
<1>2. CASE StartFound(c)
  BY <1>0, <1>2 DEF StartFound, Pumping, Conn
<1>3. CASE StartLost(c)
  <2> DEFINE msg == Hello(nextId)
             new == [wc EXCEPT
                 !.phase = "loop",
                 !.id = nextId,
                 !.deadQueue = addToDeadQueue(clearDeadQueue(@), 0, msg),
                 !.deadQueuePointer = NextSlot(0),
                 !.Sequence = 1]
  <2>1. \/ conn' = [conn EXCEPT ![c] = new]
        \/ conn' = [conn EXCEPT ![c] = [new EXCEPT !.phase = "ended"]]
    BY <1>3, WriteShape DEF StartLost
  <2>2. /\ new.phase \in Pumping /\ [new EXCEPT !.phase = "ended"].phase \in Pumping
        /\ \A n \in {new, [new EXCEPT !.phase = "ended"]} :
              n.Active = wc.Active /\ n.closed = wc.closed /\ n.id = nextId
    BY <1>0 DEF Pumping, Conn
  <2> HIDE DEF new
  <2>3. conn'[c] \in {new, [new EXCEPT !.phase = "ended"]} /\ \A d \in Conns : d # c => conn'[d] = conn[d]
    BY <1>0, <2>1
  <2>4. conn[c].phase \in Pumping
    BY <1>3 DEF StartLost, Pumping
  <2>5. QED
    BY <1>3, <2>2, <2>3, <2>4 DEF StartLost
<1>4. CASE Drain(c)
  <2> DEFINE msg == wc.deadQueue[wc.currPtr]
             done == DrainedTo(wc.deadQueue, wc.deadQueuePointer, wc.currPtr)
             new == [wc EXCEPT !.phase = IF done THEN "loop" ELSE "drain",
                               !.Sequence = @ + 1,
                               !.currPtr = IF done THEN 0 ELSE NextSlot(@)]
  <2>1. \/ conn' = [conn EXCEPT ![c] = new]
        \/ conn' = [conn EXCEPT ![c] = [new EXCEPT !.phase = "ended"]]
    BY <1>4, WriteShape DEF Drain
  <2>2. /\ new.phase \in Pumping /\ [new EXCEPT !.phase = "ended"].phase \in Pumping
        /\ \A n \in {new, [new EXCEPT !.phase = "ended"]} :
              n.Active = wc.Active /\ n.closed = wc.closed /\ n.id = wc.id
    BY <1>0 DEF Pumping, Conn
  <2> HIDE DEF new
  <2>3. conn'[c] \in {new, [new EXCEPT !.phase = "ended"]} /\ \A d \in Conns : d # c => conn'[d] = conn[d]
    BY <1>0, <2>1
  <2>4. conn[c].phase \in Pumping
    BY <1>4 DEF Drain, Pumping
  <2>5. QED
    BY <1>4, <2>2, <2>3, <2>4 DEF Drain
<1>5. CASE PumpSkip(c)
  BY <1>0, <1>5 DEF PumpSkip, Receiving, Pumping, Conn
<1>6. CASE PumpEvent(c)
  <2> DEFINE msg == [Head(wc.send) EXCEPT !.seq = wc.Sequence]
             new == [wc EXCEPT
                 !.send = Tail(@),
                 !.Sequence = @ + 1,
                 !.deadQueue = addToDeadQueue(@, wc.deadQueuePointer, msg),
                 !.deadQueuePointer = NextSlot(@)]
  <2>1. \/ conn' = [conn EXCEPT ![c] = new]
        \/ conn' = [conn EXCEPT ![c] = [new EXCEPT !.phase = "ended"]]
    BY <1>6, WriteShape DEF PumpEvent
  <2>2. /\ new.phase \in Pumping /\ [new EXCEPT !.phase = "ended"].phase \in Pumping
        /\ \A n \in {new, [new EXCEPT !.phase = "ended"]} :
              n.Active = wc.Active /\ n.closed = wc.closed /\ n.id = wc.id
    BY <1>0, <1>6 DEF PumpEvent, Receiving, Pumping, Conn
  <2> HIDE DEF new
  <2>3. conn'[c] \in {new, [new EXCEPT !.phase = "ended"]} /\ \A d \in Conns : d # c => conn'[d] = conn[d]
    BY <1>0, <2>1
  <2>4. conn[c].phase \in Pumping
    BY <1>6 DEF PumpEvent, Receiving, Pumping
  <2>5. QED
    BY <1>6, <2>2, <2>3, <2>4 DEF PumpEvent
<1>7. CASE PumpResponse(c)
  <2> DEFINE msg == Head(wc.send)
             new == [wc EXCEPT !.send = Tail(@)]
  <2>1. \/ conn' = [conn EXCEPT ![c] = new]
        \/ conn' = [conn EXCEPT ![c] = [new EXCEPT !.phase = "ended"]]
    BY <1>7, WriteShape DEF PumpResponse
  <2>2. /\ new.phase \in Pumping /\ [new EXCEPT !.phase = "ended"].phase \in Pumping
        /\ \A n \in {new, [new EXCEPT !.phase = "ended"]} :
              n.Active = wc.Active /\ n.closed = wc.closed /\ n.id = wc.id
    BY <1>0, <1>7 DEF PumpResponse, Receiving, Pumping, Conn
  <2> HIDE DEF new
  <2>3. conn'[c] \in {new, [new EXCEPT !.phase = "ended"]} /\ \A d \in Conns : d # c => conn'[d] = conn[d]
    BY <1>0, <2>1
  <2>4. conn[c].phase \in Pumping
    BY <1>7 DEF PumpResponse, Receiving, Pumping
  <2>5. QED
    BY <1>7, <2>2, <2>3, <2>4 DEF PumpResponse
<1>8. CASE PumpClosed(c) \/ PumpEnds(c)
  BY <1>0, <1>8 DEF PumpClosed, PumpEnds, PumpReturns, Pumping, Conn
<1>9. QED
  BY <1>1, <1>2, <1>3, <1>4, <1>5, <1>6, <1>7, <1>8 DEF Pump

IndexInv == IndexIsUsable /\ UnregisteredIsOpen /\ IdsAreOld /\ OneConnPerId

(* A connection may be replaced by FreeConn, which is not in the index, by *)
(* one whose queue has changed, or by one that is closed and has left the  *)
(* index.                                                                  *)
LEMMA IndexKept ==
    ASSUME ServerTypeOK, IndexInv, nextId' = nextId,
           connIndex' \subseteq connIndex,
           \A d \in Conns :
               \/ conn'[d] = FreeConn /\ d \notin connIndex'
               \/ /\ conn'[d].id = conn[d].id
                  /\ conn'[d].phase = conn[d].phase
                  /\ conn'[d].Active = conn[d].Active
                  /\ \/ conn'[d].closed = conn[d].closed
                     \/ d \in connIndex /\ d \notin connIndex'
    PROVE  IndexInv'
<1>0. FreeConn.id = 0 /\ FreeConn.phase = "free" /\ nextId \in Nat /\ nextId > 0
  BY WebConnAssumption DEF FreeConn, ServerTypeOK
<1>1. IndexIsUsable'
  BY <1>0 DEF IndexInv, IndexIsUsable, ServerTypeOK
<1>2. UnregisteredIsOpen'
  BY <1>0 DEF IndexInv, IndexIsUsable, UnregisteredIsOpen, Pumping
<1>3. IdsAreOld'
  BY <1>0 DEF IndexInv, IdsAreOld
<1>4. OneConnPerId'
  BY <1>0 DEF IndexInv, OneConnPerId
<1>5. QED
  BY <1>1, <1>2, <1>3, <1>4 DEF IndexInv

LEMMA IndexStep == WebSocketInv /\ [Next]_vars => IndexInv'
<1> SUFFICES ASSUME WebSocketInv, [Next]_vars PROVE IndexInv'
  OBVIOUS
<1>0. /\ ServerTypeOK /\ ClientTypeOK /\ IndexInv
      /\ IndexIsUsable /\ UnregisteredIsOpen /\ IdsAreOld /\ OneConnPerId
      /\ conn \in [Conns -> Conn] /\ \A d \in Conns : conn[d] \in Conn
      /\ connIndex \subseteq Conns
      /\ nextId \in Nat /\ nextId > 0
  BY WebConnAssumption DEF WebSocketInv, ServerTypeOK, IndexInv
<1>f. FreeConn.id = 0 /\ FreeConn.phase = "free" /\ FreeConn.closed = FALSE
  BY DEF FreeConn
<1>1. ASSUME NEW c \in Conns, Pump(c), UNCHANGED hubVars PROVE IndexInv'
  <2>1. /\ conn[c].phase \in Pumping /\ conn'[c].phase \in Pumping
        /\ conn'[c].Active = conn[c].Active
        /\ conn'[c].closed = conn[c].closed
        /\ \A d \in Conns : d # c => conn'[d] = conn[d]
        /\ connIndex' = connIndex
    BY <1>0, <1>1, PumpShape DEF hubVars
  <2>2. \/ conn'[c].id = conn[c].id /\ nextId' = nextId
        \/ nextId \in Ids /\ conn'[c].id = nextId /\ nextId' = nextId + 1
    BY <1>0, <1>1, PumpShape
  <2>3. IndexIsUsable' /\ UnregisteredIsOpen'
    BY <1>0, <2>1 DEF IndexIsUsable, UnregisteredIsOpen, Pumping
  <2>4. IdsAreOld' /\ OneConnPerId'
    <3>1. \A d \in Conns : conn[d].id \in Nat
      BY <1>0, ConnType, WebConnAssumption
    <3>2. QED
      BY <1>0, <2>1, <2>2, <3>1 DEF IdsAreOld, OneConnPerId
  <2>5. QED
    BY <2>3, <2>4 DEF IndexInv
<1>2. ASSUME NEW c \in Conns, CheckConnNew(c) PROVE IndexInv'
  <2>1. /\ conn[c].phase = "upgraded" /\ ~conn[c].closed
        /\ conn' = [conn EXCEPT ![c] = [conn[c] EXCEPT !.phase = "checked", !.id = nextId, !.Active = TRUE]]
        /\ nextId' = nextId + 1 /\ connIndex' = connIndex
    BY <1>0, <1>2 DEF CheckConnNew, hubVars, UnregisteredIsOpen
  <2>2. /\ \A d \in Conns : d # c => conn'[d] = conn[d]
        /\ conn'[c].phase = "checked" /\ conn'[c].id = nextId /\ ~conn'[c].closed
    BY <1>0, <2>1 DEF Conn
  <2>3. c \notin connIndex
    BY <1>0, <2>1 DEF IndexIsUsable, Pumping
  <2>4. \A d \in Conns : conn[d].id \in Nat
    BY <1>0, ConnType, WebConnAssumption
  <2>5. QED
    BY <1>0, <2>1, <2>2, <2>3, <2>4
       DEF IndexInv, IndexIsUsable, UnregisteredIsOpen, IdsAreOld, OneConnPerId
<1>3. ASSUME NEW c \in Conns, CheckConnFound(c) PROVE IndexInv'
  <2>1. PICK old \in Resumable(conn[c].reqId) :
          /\ connIndex' = connIndex \ {old}
          /\ conn' = [conn EXCEPT
              ![c] = [@ EXCEPT
                        !.phase = "checked",
                        !.id = conn[c].reqId,
                        !.Sequence = conn[c].reqSeq,
                        !.reuse = TRUE,
                        !.send = conn[old].send,
                        !.closed = conn[old].closed,
                        !.deadQueue = conn[old].deadQueue,
                        !.deadQueuePointer = conn[old].deadQueuePointer],
              ![old] = FreeConn]
    BY <1>3 DEF CheckConnFound
  <2>2. /\ old \in Conns /\ old \in connIndex /\ conn[old].id = conn[c].reqId
        /\ conn[c].phase = "upgraded" /\ conn[c].reqId # 0 /\ nextId' = nextId
    BY <1>0, <1>3 DEF Resumable, CheckConnFound
  <2>3. ~conn[old].closed /\ old # c /\ c \notin connIndex
    BY <1>0, <2>2 DEF IndexIsUsable, Pumping
  <2>4. /\ \A d \in Conns \ {c, old} : conn'[d] = conn[d]
        /\ conn'[old] = FreeConn
        /\ conn'[c].phase = "checked" /\ conn'[c].id = conn[old].id /\ ~conn'[c].closed
    BY <1>0, <2>1, <2>2, <2>3 DEF Conn
  <2>5. IndexIsUsable' /\ UnregisteredIsOpen'
    BY <1>0, <1>f, <2>1, <2>2, <2>3, <2>4 DEF IndexIsUsable, UnregisteredIsOpen
  <2>6. IdsAreOld' /\ OneConnPerId'
    BY <1>0, <1>f, <2>2, <2>3, <2>4 DEF IdsAreOld, OneConnPerId
  <2>7. QED
    BY <2>5, <2>6 DEF IndexInv
<1>4. ASSUME NEW c \in Conns, Register(c) PROVE IndexInv'
  <2>1. /\ conn[c].phase = "checked" /\ ~conn[c].closed
        /\ nextId' = nextId /\ connIndex' = connIndex \cup {c}
        /\ \A d \in Conns : d # c => conn'[d] = conn[d]
        /\ conn'[c].phase = "start" /\ conn'[c].Active
        /\ conn'[c].id = conn[c].id /\ conn'[c].closed = conn[c].closed
    BY <1>0, <1>4 DEF Register, UnregisteredIsOpen, Conn
  <2>2. QED
    BY <1>0, <2>1
       DEF IndexInv, IndexIsUsable, UnregisteredIsOpen, IdsAreOld, OneConnPerId, Pumping
<1>5. ASSUME NEW c \in Conns, RegisterFails(c) PROVE IndexInv'
  <2>1. c \notin connIndex
    BY <1>0, <1>5 DEF RegisterFails, IndexIsUsable, Pumping
  <2>2. QED
    BY <1>0, <1>5, <2>1, IndexKept DEF RegisterFails
<1>6. ASSUME NEW c \in Conns, Unregister(c) PROVE IndexInv'
  <2>1. CASE c \in connIndex
    <3>1. /\ connIndex' = connIndex /\ nextId' = nextId
          /\ \A d \in Conns : d # c => conn'[d] = conn[d]
          /\ conn'[c].phase = "parked" /\ ~conn'[c].Active
          /\ conn'[c].id = conn[c].id /\ conn'[c].closed = conn[c].closed
      BY <1>0, <1>6, <2>1 DEF Unregister, hubVars, Conn
    <3>2. QED
      BY <1>0, <3>1
         DEF IndexInv, IndexIsUsable, UnregisteredIsOpen, IdsAreOld, OneConnPerId, Pumping
  <2>2. CASE c \notin connIndex
    BY <1>0, <1>6, <2>2, IndexKept DEF Unregister, hubVars
  <2>3. QED
    BY <2>1, <2>2
<1>c. ASSUME NEW d \in Conns
      PROVE  \/ ClosedConn(d) = FreeConn
             \/ /\ ClosedConn(d).id = conn[d].id
                /\ ClosedConn(d).phase = conn[d].phase
                /\ ClosedConn(d).Active = conn[d].Active
  BY <1>0 DEF ClosedConn, Conn
<1>7. ASSUME NEW c \in Conns, SendMessage(c) PROVE IndexInv'
  <2>1. CASE c \notin connIndex
    BY <1>0, <1>7, <2>1, IndexKept DEF SendMessage
  <2>2. CASE c \in connIndex /\ HasRoom(c)
    <3>1. /\ conn' = [conn EXCEPT ![c].send = Append(@, Response)]
          /\ connIndex' = connIndex /\ nextId' = nextId
      BY <1>7, <2>2 DEF SendMessage
    <3>2. \A d \in Conns : /\ conn'[d].id = conn[d].id
                           /\ conn'[d].phase = conn[d].phase
                           /\ conn'[d].Active = conn[d].Active
                           /\ conn'[d].closed = conn[d].closed
      BY <1>0, <3>1 DEF Conn
    <3>3. QED
      BY <1>0, <3>1, <3>2, IndexKept
  <2>3. CASE c \in connIndex /\ ~HasRoom(c)
    <3>1. /\ conn' = [conn EXCEPT ![c] = ClosedConn(c)]
          /\ connIndex' = connIndex \ {c} /\ nextId' = nextId
      BY <1>7, <2>3 DEF SendMessage
    <3>2. \A d \in Conns : IF d = c THEN conn'[d] = ClosedConn(c) ELSE conn'[d] = conn[d]
      BY <1>0, <3>1
    <3>3. QED
      BY <1>0, <1>c, <2>3, <3>1, <3>2, IndexKept
  <2>4. QED
    BY <2>1, <2>2, <2>3
<1>8. ASSUME NEW c \in Conns, RemoveInactiveConnection(c) PROVE IndexInv'
  BY <1>0, <1>8, IndexKept DEF RemoveInactiveConnection
<1>9. ASSUME NEW c \in Conns, Break(c) PROVE IndexInv'
  BY <1>0, <1>9, IndexKept DEF Break
<1>10. ASSUME Broadcast PROVE IndexInv'
  <2> DEFINE taking == {c \in connIndex : HasRoom(c)}
  <2>1. connIndex' = taking /\ nextId' = nextId
    BY <1>10 DEF Broadcast
  <2>2. ASSUME NEW d \in Conns
        PROVE  \/ conn'[d] = FreeConn /\ d \notin connIndex'
               \/ /\ conn'[d].id = conn[d].id
                  /\ conn'[d].phase = conn[d].phase
                  /\ conn'[d].Active = conn[d].Active
                  /\ \/ conn'[d].closed = conn[d].closed
                     \/ d \in connIndex /\ d \notin connIndex'
    <3>1. CASE d \in taking
      <4>1. conn'[d] = [conn[d] EXCEPT !.send = Append(@, Event(broadcasts + 1))]
        BY <1>10, <3>1 DEF Broadcast
      <4>2. QED
        BY <1>0, <4>1 DEF Conn
    <3>2. CASE d \in connIndex \ taking
      <4>1. conn'[d] = ClosedConn(d)
        BY <1>10, <3>2 DEF Broadcast
      <4>2. QED
        BY <1>c, <2>1, <3>2, <4>1
    <3>3. CASE d \notin connIndex
      <4>1. conn'[d] = conn[d]
        BY <1>10, <3>3 DEF Broadcast
      <4>2. QED
        BY <4>1
    <3>4. QED
      BY <3>1, <3>2, <3>3
  <2>3. QED
    BY <1>0, <2>1, <2>2, IndexKept
<1>11. ASSUME InvalidateFails PROVE IndexInv'
  <2>1. connIndex' = {} /\ nextId' = nextId
    BY <1>11 DEF InvalidateFails
  <2>2. \A d \in Conns : conn'[d] = IF d \in connIndex THEN ClosedConn(d) ELSE conn[d]
    BY <1>11 DEF InvalidateFails
  <2>3. QED
    BY <1>0, <1>c, <2>1, <2>2, IndexKept
<1>12. ASSUME Restart PROVE IndexInv'
  BY <1>0, <1>12, IndexKept DEF Restart
<1>13. ASSUME NEW c \in Conns, Initialize(c) PROVE IndexInv'
  <2>1. /\ \A d \in Conns : d # c => conn'[d] = conn[d]
        /\ conn'[c].phase = "upgraded" /\ conn'[c].id = 0 /\ ~conn'[c].closed
        /\ conn[c].phase = "free" /\ connIndex' = connIndex /\ nextId' = nextId
    BY <1>0, <1>13 DEF Initialize, FreeConn, hubVars
  <2>2. c \notin connIndex
    BY <1>0, <2>1 DEF IndexIsUsable, Pumping
  <2>3. QED
    BY <1>0, <2>1, <2>2
       DEF IndexInv, IndexIsUsable, UnregisteredIsOpen, IdsAreOld, OneConnPerId
<1>14. ASSUME UNCHANGED <<conn, nextId, connIndex>> PROVE IndexInv'
  BY <1>0, <1>14 DEF IndexInv, IndexIsUsable, UnregisteredIsOpen, IdsAreOld, OneConnPerId
<1>15. CASE OnOpen \/ OnClose \/ OnEvent \/ OnMismatch \/ OnResponse \/ UNCHANGED vars
  BY <1>14, <1>15
     DEF OnOpen, OnClose, OnEvent, OnMismatch, OnResponse, vars, connVars, hubVars
<1>16. QED
  BY <1>1, <1>2, <1>3, <1>4, <1>5, <1>6, <1>7, <1>8, <1>9, <1>10, <1>11, <1>12, <1>13, <1>15
     DEF Next, Server, HubStep
-----------------------------------------------------------------------------
(* Dead queues.                                                            *)

Sound(wc) ==
    /\ Contiguous(wc.deadQueue, wc.deadQueuePointer)
    /\ wc.phase = "drain" => wc.deadQueue[wc.currPtr] # nil

QueueInv == \A c \in Conns : Sound(conn[c])

LEMMA QueueInvIs == QueueInv <=> DeadQueueIsContiguous /\ DrainsEvents
BY DEF QueueInv, Sound, Contiguous, DeadQueueIsContiguous, DrainsEvents

LEMMA FreeIsSound == Sound(FreeConn)
BY NewIsContiguous DEF FreeConn, Sound

(* A connection whose dead queue stays as it is.                           *)
SameQueue(new, old) ==
    /\ new.deadQueue = old.deadQueue
    /\ new.deadQueuePointer = old.deadQueuePointer
    /\ new.phase = "drain" => old.phase = "drain" /\ new.currPtr = old.currPtr

LEMMA QueueKept ==
    ASSUME QueueInv,
           \A d \in Conns : conn'[d] = FreeConn \/ SameQueue(conn'[d], conn[d])
    PROVE  QueueInv'
BY FreeIsSound DEF QueueInv, Sound, SameQueue

LEMMA PumpQueue ==
    ASSUME ServerTypeOK, QueueInv, NEW c \in Conns, Pump(c)
    PROVE  QueueInv'
<1> DEFINE wc == conn[c]
<1>0. /\ conn \in [Conns -> Conn] /\ wc \in Conn /\ Sound(wc)
      /\ wc.deadQueue \in Ring /\ wc.deadQueuePointer \in Slot /\ wc.currPtr \in Slot
      /\ wc.send \in Seq(ConnMessage)
      /\ Contiguous(wc.deadQueue, wc.deadQueuePointer)
  BY ConnType DEF ServerTypeOK, QueueInv, Sound
<1>q. ASSUME NEW new, Sound(new), conn' = [conn EXCEPT ![c] = new] PROVE QueueInv'
  BY <1>0, <1>q DEF QueueInv
<1>w. ASSUME NEW new, NEW msg, Sound(new), Sound([new EXCEPT !.phase = "ended"]),
             WriteOrReturn(c, new, msg)
      PROVE  QueueInv'
  BY <1>w, <1>q, WriteShape
<1>k. ASSUME NEW new, SameQueue(new, wc), conn' = [conn EXCEPT ![c] = new] PROVE QueueInv'
  BY <1>0, <1>k, <1>q DEF Sound, SameQueue
<1>1. CASE StartFresh(c) \/ StartLossless(c) \/ ReadFails(c)
  <2>1. SameQueue([wc EXCEPT !.phase = "loop"], wc) /\ SameQueue([wc EXCEPT !.reading = FALSE], wc)
    BY <1>0 DEF SameQueue, Conn
  <2>2. \/ conn' = [conn EXCEPT ![c] = [wc EXCEPT !.phase = "loop"]]
        \/ conn' = [conn EXCEPT ![c] = [wc EXCEPT !.reading = FALSE]]
    BY <1>0, <1>1 DEF StartFresh, StartLossless, ReadFails
  <2>3. QED
    BY <1>k, <2>1, <2>2
<1>2. CASE StartFound(c)
  <2> DEFINE i == IndexInDeadQueue(wc.deadQueue, wc.Sequence)
             new == [wc EXCEPT !.phase = "drain", !.currPtr = i]
  <2>1. i \in Slot /\ wc.deadQueue[i] # nil
    BY <1>2, IndexFound DEF StartFound
  <2> HIDE DEF i
  <2>2. /\ new.deadQueue = wc.deadQueue /\ new.deadQueuePointer = wc.deadQueuePointer
        /\ new.currPtr = i
    BY <1>0 DEF Conn
  <2>3. Sound(new)
    BY <1>0, <2>1, <2>2 DEF Sound
  <2>4. conn' = [conn EXCEPT ![c] = new]
    BY <1>2 DEF StartFound, i
  <2>5. QED
    BY <1>q, <2>3, <2>4
<1>3. CASE StartLost(c)
  <2> DEFINE hello == Hello(nextId)
             dq == addToDeadQueue(clearDeadQueue(wc.deadQueue), 0, hello)
             new == [wc EXCEPT
                       !.phase = "loop",
                       !.id = nextId,
                       !.deadQueue = addToDeadQueue(clearDeadQueue(@), 0, hello),
                       !.deadQueuePointer = NextSlot(0),
                       !.Sequence = 1]
  <2>1. hello \in ConnMessage
    BY <1>3 DEF StartLost, Hello, ConnMessage, Message, Ids
  <2>2. Contiguous(dq, NextSlot(0))
    BY <1>0, <2>1, ClearEmpties, NewIsContiguous, AddKeepsContiguous
  <2>3. /\ new.deadQueue = dq /\ new.deadQueuePointer = NextSlot(0) /\ new.phase = "loop"
        /\ [new EXCEPT !.phase = "ended"].deadQueue = dq
        /\ [new EXCEPT !.phase = "ended"].deadQueuePointer = NextSlot(0)
        /\ [new EXCEPT !.phase = "ended"].phase = "ended"
    BY <1>0 DEF Conn
  <2>4. WriteOrReturn(c, new, hello)
    BY <1>3 DEF StartLost
  <2> HIDE DEF new, dq
  <2>5. QED
    BY <1>w, <2>2, <2>3, <2>4 DEF Sound
<1>4. CASE Drain(c)
  <2> DEFINE done == DrainedTo(wc.deadQueue, wc.deadQueuePointer, wc.currPtr)
             new == [wc EXCEPT !.phase = IF done THEN "loop" ELSE "drain",
                               !.Sequence = @ + 1,
                               !.currPtr = IF done THEN 0 ELSE NextSlot(@)]
  <2>1. wc.deadQueue[wc.currPtr] # nil
    BY <1>0, <1>4 DEF Drain, Sound
  <2>2. ~done => wc.deadQueue[NextSlot(wc.currPtr)] # nil
    BY <1>0, <2>1, DrainGoesOn
  <2> HIDE DEF done
  <2>3. /\ new.deadQueue = wc.deadQueue /\ new.deadQueuePointer = wc.deadQueuePointer
        /\ new.phase = IF done THEN "loop" ELSE "drain"
        /\ new.currPtr = IF done THEN 0 ELSE NextSlot(wc.currPtr)
        /\ [new EXCEPT !.phase = "ended"].deadQueue = wc.deadQueue
        /\ [new EXCEPT !.phase = "ended"].deadQueuePointer = wc.deadQueuePointer
        /\ [new EXCEPT !.phase = "ended"].phase = "ended"
    BY <1>0 DEF Conn
  <2>4. WriteOrReturn(c, new, wc.deadQueue[wc.currPtr])
    BY <1>4 DEF Drain, done
  <2> HIDE DEF new
  <2>5. Sound(new) /\ Sound([new EXCEPT !.phase = "ended"])
    BY <1>0, <2>2, <2>3 DEF Sound
  <2>6. QED
    BY <1>w, <2>4, <2>5
<1>5. CASE PumpSkip(c)
  BY <1>0, <1>5, QueueKept DEF PumpSkip, SameQueue, Conn
<1>6. CASE PumpEvent(c)
  <2> DEFINE msg == [Head(wc.send) EXCEPT !.seq = wc.Sequence]
             dq == addToDeadQueue(wc.deadQueue, wc.deadQueuePointer, msg)
             new == [wc EXCEPT
                       !.send = Tail(@),
                       !.Sequence = @ + 1,
                       !.deadQueue = addToDeadQueue(@, wc.deadQueuePointer, msg),
                       !.deadQueuePointer = NextSlot(@)]
  <2>1. Head(wc.send) \in ConnMessage /\ wc.Sequence \in Nat /\ wc.phase = "loop"
    BY <1>0, <1>6, ConnType DEF PumpEvent, Receiving
  <2>2. msg \in ConnMessage
    BY <2>1 DEF ConnMessage, Message
  <2>3. Contiguous(dq, NextSlot(wc.deadQueuePointer))
    BY <1>0, <2>2, AddKeepsContiguous
  <2>4. /\ new.deadQueue = dq /\ new.deadQueuePointer = NextSlot(wc.deadQueuePointer)
        /\ new.phase = "loop"
        /\ [new EXCEPT !.phase = "ended"].deadQueue = dq
        /\ [new EXCEPT !.phase = "ended"].deadQueuePointer = NextSlot(wc.deadQueuePointer)
        /\ [new EXCEPT !.phase = "ended"].phase = "ended"
    BY <1>0, <2>1 DEF Conn
  <2>5. WriteOrReturn(c, new, msg)
    BY <1>6 DEF PumpEvent
  <2> HIDE DEF new, dq
  <2>6. QED
    BY <1>w, <2>3, <2>4, <2>5 DEF Sound
<1>7. CASE PumpResponse(c)
  <2> DEFINE new == [wc EXCEPT !.send = Tail(@)]
  <2>1. Sound(new) /\ Sound([new EXCEPT !.phase = "ended"])
    BY <1>0, <1>7 DEF PumpResponse, Receiving, Sound, Conn
  <2>2. WriteOrReturn(c, new, Head(wc.send))
    BY <1>7 DEF PumpResponse
  <2> HIDE DEF new
  <2>3. QED
    BY <1>w, <2>1, <2>2
<1>8. CASE PumpClosed(c) \/ PumpEnds(c)
  <2>1. SameQueue([wc EXCEPT !.phase = "ended"], wc)
    BY <1>0 DEF SameQueue, Conn
  <2>2. conn' = [conn EXCEPT ![c] = [wc EXCEPT !.phase = "ended"]]
    BY <1>8 DEF PumpClosed, PumpEnds, PumpReturns
  <2>3. QED
    BY <1>k, <2>1, <2>2
<1>9. QED
  BY <1>1, <1>2, <1>3, <1>4, <1>5, <1>6, <1>7, <1>8 DEF Pump

(* The hub and the client make, move, close and free connections; none of  *)
(* it touches a dead queue but for that of the connection that takes it.   *)
LEMMA QueueStep == WebSocketInv /\ [Next]_vars => QueueInv'
<1> SUFFICES ASSUME WebSocketInv, [Next]_vars PROVE QueueInv'
  OBVIOUS
<1>0. /\ ServerTypeOK /\ QueueInv
      /\ conn \in [Conns -> Conn] /\ \A d \in Conns : conn[d] \in Conn
  BY QueueInvIs DEF WebSocketInv, ServerTypeOK
<1>1. ASSUME NEW c \in Conns, Pump(c) PROVE QueueInv'
  BY <1>0, <1>1, PumpQueue
<1>2. ASSUME NEW c \in Conns,
             CheckConnNew(c) \/ Register(c) \/ Unregister(c) \/ RegisterFails(c)
             \/ RemoveInactiveConnection(c) \/ Break(c)
      PROVE  QueueInv'
  <2>1. \A d \in Conns : SameQueue(conn[d], conn[d])
    BY DEF SameQueue
  <2>2. CASE CheckConnNew(c)
    <3>1. conn' = [conn EXCEPT ![c] = [conn[c] EXCEPT !.phase = "checked", !.id = nextId, !.Active = TRUE]]
      BY <1>0, <2>2 DEF CheckConnNew
    <3>2. SameQueue(conn'[c], conn[c])
      BY <1>0, <3>1 DEF SameQueue, Conn
    <3>3. QED
      BY <1>0, <2>1, <3>1, <3>2, QueueKept
  <2>3. CASE Register(c)
    <3>1. SameQueue(conn'[c], conn[c])
      BY <1>0, <2>3 DEF Register, SameQueue, Conn
    <3>2. \A d \in Conns : d # c => conn'[d] = conn[d]
      BY <1>0, <2>3 DEF Register
    <3>3. QED
      BY <1>0, <2>1, <3>1, <3>2, QueueKept
  <2>4. CASE Unregister(c)
    <3>1. SameQueue([conn[c] EXCEPT !.phase = "parked", !.Active = FALSE], conn[c])
      BY <1>0 DEF SameQueue, Conn
    <3>2. conn' \in {[conn EXCEPT ![c] = [conn[c] EXCEPT !.phase = "parked", !.Active = FALSE]],
                     [conn EXCEPT ![c] = FreeConn]}
      BY <2>4 DEF Unregister
    <3>3. QED
      BY <1>0, <2>1, <3>1, <3>2, QueueKept
  <2>5. CASE RegisterFails(c) \/ RemoveInactiveConnection(c) \/ Break(c)
    BY <1>0, <2>1, <2>5, QueueKept DEF RegisterFails, RemoveInactiveConnection, Break
  <2>6. QED
    BY <1>2, <2>2, <2>3, <2>4, <2>5
<1>3. ASSUME NEW c \in Conns, CheckConnFound(c) PROVE QueueInv'
  <2>1. PICK old \in Resumable(conn[c].reqId) :
          conn' = [conn EXCEPT
              ![c] = [@ EXCEPT
                        !.phase = "checked",
                        !.id = conn[c].reqId,
                        !.Sequence = conn[c].reqSeq,
                        !.reuse = TRUE,
                        !.send = conn[old].send,
                        !.closed = conn[old].closed,
                        !.deadQueue = conn[old].deadQueue,
                        !.deadQueuePointer = conn[old].deadQueuePointer],
              ![old] = FreeConn]
    BY <1>3 DEF CheckConnFound
  <2>2. old \in Conns
    BY <1>0 DEF Resumable, ServerTypeOK
  <2>3. /\ \A d \in Conns \ {c, old} : conn'[d] = conn[d]
        /\ conn'[old] = FreeConn
        /\ c # old => /\ conn'[c].phase = "checked"
                      /\ conn'[c].deadQueue = conn[old].deadQueue
                      /\ conn'[c].deadQueuePointer = conn[old].deadQueuePointer
    BY <1>0, <2>1, <2>2 DEF Conn
  <2>4. QED
    BY <1>0, <2>2, <2>3, FreeIsSound DEF QueueInv, Sound
<1>c. ASSUME NEW d \in Conns
      PROVE  ClosedConn(d) = FreeConn \/ SameQueue(ClosedConn(d), conn[d])
  BY <1>0 DEF ClosedConn, SameQueue, Conn
<1>m. ASSUME NEW d \in Conns
      PROVE  /\ SameQueue([conn[d] EXCEPT !.send = Append(@, Event(broadcasts + 1))], conn[d])
             /\ SameQueue([conn[d] EXCEPT !.send = Append(@, Response)], conn[d])
             /\ SameQueue(conn[d], conn[d])
  BY <1>0 DEF SameQueue, Conn
<1>4. ASSUME NEW c \in Conns, SendMessage(c) PROVE QueueInv'
  <2>1. conn' \in {conn, [conn EXCEPT ![c] = ClosedConn(c)],
                   [conn EXCEPT ![c] = [conn[c] EXCEPT !.send = Append(@, Response)]]}
    BY <1>0, <1>4 DEF SendMessage
  <2>2. \A d \in Conns :
          conn'[d] \in {conn[d], ClosedConn(d), [conn[d] EXCEPT !.send = Append(@, Response)]}
    BY <1>0, <2>1
  <2>3. ASSUME NEW d \in Conns PROVE conn'[d] = FreeConn \/ SameQueue(conn'[d], conn[d])
    BY <1>c, <1>m, <2>2
  <2>4. QED
    BY <1>0, <2>3, QueueKept
<1>5. ASSUME Broadcast PROVE QueueInv'
  <2>1. \A d \in Conns :
           conn'[d] \in {conn[d], ClosedConn(d),
                         [conn[d] EXCEPT !.send = Append(@, Event(broadcasts + 1))]}
    BY <1>5 DEF Broadcast
  <2>2. ASSUME NEW d \in Conns PROVE conn'[d] = FreeConn \/ SameQueue(conn'[d], conn[d])
    BY <1>c, <1>m, <2>1
  <2>3. QED
    BY <1>0, <2>2, QueueKept
<1>6. ASSUME InvalidateFails PROVE QueueInv'
  <2>1. \A d \in Conns : conn'[d] \in {conn[d], ClosedConn(d)}
    BY <1>6 DEF InvalidateFails
  <2>2. ASSUME NEW d \in Conns PROVE conn'[d] = FreeConn \/ SameQueue(conn'[d], conn[d])
    BY <1>c, <1>m, <2>1
  <2>3. QED
    BY <1>0, <2>2, QueueKept
<1>7. ASSUME Restart PROVE QueueInv'
  BY <1>0, <1>7, QueueKept DEF Restart
<1>8. ASSUME NEW c \in Conns, Initialize(c) PROVE QueueInv'
  <2>1. /\ \A d \in Conns : d # c => conn'[d] = conn[d]
        /\ conn'[c].deadQueue = FreeConn.deadQueue
        /\ conn'[c].deadQueuePointer = FreeConn.deadQueuePointer
        /\ conn'[c].phase = "upgraded"
    BY <1>0, <1>8 DEF Initialize, FreeConn
  <2>2. QED
    BY <1>0, <2>1, FreeIsSound DEF QueueInv, Sound
<1>9. ASSUME UNCHANGED conn PROVE QueueInv'
  BY <1>0, <1>9 DEF QueueInv
<1>10. CASE OnOpen \/ OnClose \/ OnEvent \/ OnMismatch \/ OnResponse \/ UNCHANGED vars
  BY <1>9, <1>10 DEF OnOpen, OnClose, OnEvent, OnMismatch, OnResponse, vars, connVars
<1>11. QED
  BY <1>1, <1>2, <1>3, <1>4, <1>5, <1>6, <1>7, <1>8, <1>10 DEF Next, Server, HubStep

-----------------------------------------------------------------------------

LEMMA InitInv == Init => WebSocketInv
<1> SUFFICES ASSUME Init PROVE WebSocketInv
  OBVIOUS
<1>1. \A c \in Conns : conn[c] = FreeConn
  BY DEF Init, HubInit, ConnInit
<1>2. ServerTypeOK
  <2>1. [up |-> FALSE, toClient |-> <<>>] \in Socket
    BY DEF Socket
  <2>2. QED
    BY <2>1, FreeType, WebConnAssumption, WebHubAssumption
       DEF Init, HubInit, ConnInit, ServerTypeOK
<1>3. ClientTypeOK
  <2>1. /\ client.conn = NoConn /\ client.open = FALSE /\ client.connectionId = 0
        /\ client.serverSequence = 0 /\ client.failed = FALSE
    BY DEF Init
  <2>2. client \in Client
    BY WebConnAssumption DEF Init, Client
  <2>3. QED
    BY <2>2 DEF Init, ClientTypeOK
<1>4. QueueInv
  BY <1>1, FreeIsSound DEF QueueInv
<1>5. IndexIsUsable /\ UnregisteredIsOpen /\ IdsAreOld /\ OneConnPerId
  BY <1>1
     DEF FreeConn, Init, HubInit, ConnInit, IndexIsUsable, UnregisteredIsOpen, IdsAreOld,
         OneConnPerId
<1>6. QED
  BY <1>2, <1>3, <1>4, <1>5, QueueInvIs DEF WebSocketInv

LEMMA StepInv == WebSocketInv /\ [Next]_vars => WebSocketInv'
<1>1. QueueInv' <=> DeadQueueIsContiguous' /\ DrainsEvents'
  BY DEF QueueInv, Sound, Contiguous, DeadQueueIsContiguous, DrainsEvents
<1>2. QED
  BY <1>1, TypeStep, IndexStep, QueueStep DEF WebSocketInv, IndexInv

(* The invariant holds in every behaviour.                                 *)
THEOREM WebSocketInvariant == Spec => []WebSocketInv
<1>1. QED
  BY InitInv, StepInv, PTL DEF Spec

(* The variables keep their types, but for the history stream, and a hello *)
(* never names an id that has not been handed out.                         *)
THEOREM TypesCorrect == Spec => [](ServerTypeOK /\ ClientTypeOK)
<1>1. WebSocketInv => ServerTypeOK /\ ClientTypeOK
  BY DEF WebSocketInv
<1>2. QED
  BY <1>1, WebSocketInvariant, PTL

(* The hub never sends on a closed channel nor closes one twice.           *)
THEOREM IndexAlwaysUsable == Spec => []IndexIsUsable
<1>1. WebSocketInv => IndexIsUsable
  BY DEF WebSocketInv
<1>2. QED
  BY <1>1, WebSocketInvariant, PTL

(* A connection id is in the hands of one connection.                      *)
THEOREM OneConnPerIdAlways == Spec => []OneConnPerId
<1>1. WebSocketInv => OneConnPerId
  BY DEF WebSocketInv
<1>2. QED
  BY <1>1, WebSocketInvariant, PTL

(* A dead queue has no hole, so that a replay never writes an empty slot.  *)
THEOREM DeadQueueAlwaysContiguous == Spec => [](DeadQueueIsContiguous /\ DrainsEvents)
<1>1. WebSocketInv => DeadQueueIsContiguous /\ DrainsEvents
  BY DEF WebSocketInv
<1>2. QED
  BY <1>1, WebSocketInvariant, PTL
=============================================================================
