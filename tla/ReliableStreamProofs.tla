------------------------ MODULE ReliableStreamProofs ------------------------
(***************************************************************************)
(* Proofs of what the reliable websocket is for: what the listeners of the *)
(* client have been given is a prefix of what was taken for its connection *)
(* id, nothing is repeated, and ReliableWebSocket implements               *)
(* ReliableStream.                                                         *)
(*                                                                         *)
(* The numbers of the messages are the argument. As long as every event    *)
(* encodes, the event with number n is the n-th broadcast of the stream,   *)
(* in the dead queue and on the socket alike. An event that does not       *)
(* encode uses up a number; if another is written after it the stream is   *)
(* torn at that number, which never comes again, and the client does not   *)
(* get past it.                                                            *)
(***************************************************************************)
EXTENDS ReliableWebSocketProofs, FiniteSetTheorems, FunctionTheorems, SequenceTheorems

(* Below, s is the stream of a connection id, G the number of messages     *)
(* written for it without a missing number, the hello being number 0, and  *)
(* t says whether the stream is torn there or still whole.                 *)

Tears == {"whole", "torn"}

(* An event or a hello that has been written.                              *)
Numbered(m, s, G, t) ==
    /\ m.type # "response"
    /\ m.type = "hello" <=> m.seq = 0
    /\ m.seq < G \/ (t = "torn" /\ m.seq > G)
    /\ m.type = "event" /\ m.seq < G => m.seq \in 1 .. Len(s) /\ m.val = s[m.seq]

(* The number in slot i of a ring in which none is missing, with the       *)
(* pointer at p after G messages.                                          *)
NumberAt(i, p, G) == IF i < p THEN G - p + i ELSE G - p + i - deadQueueSize

(* A dead queue holds the last messages written. A stream that is not torn *)
(* has them in the slots their numbers say; after a tear there is no more  *)
(* than the order before it.                                               *)
RingNumbered(dq, p, s, G, t) ==
    /\ \A i \in Slot : dq[i] # nil => Numbered(dq[i], s, G, t)
    /\ G = 0 <=> dq[0] = nil
    /\ t = "whole" => \A i \in Slot : dq[i] # nil =>
          dq[i].seq = NumberAt(i, p, G)
    /\ t = "torn" =>
          /\ dq[LastSlot(p)].seq > G
          /\ \A i \in Slot : dq[i] # nil /\ NextSlot(i) # p =>
                 \/ dq[NextSlot(i)].seq = dq[i].seq + 1 /\ dq[i].seq < G - 1
                 \/ dq[NextSlot(i)].seq > G /\ dq[i].seq >= G - 1

(* The shown events of a queue are the end of the stream, from number o.   *)
RestFrom(q, s, o) == ShownSet(q) = {s[j] : j \in o .. Len(s)}

(* What waits in send: first the hello, if it has not been written, then   *)
(* events in the order of the broadcasts, of which there have been n.      *)
QueueNumbered(wc, s, G, t, n) ==
    LET q == wc.send
    IN  /\ \A i \in 1 .. Len(q) : q[i].type = "hello" => i = 1 /\ G = 0 /\ q[i].val = wc.id
        /\ \A i, j \in 1 .. Len(q) :
              i < j /\ q[i].type = "event" /\ q[j].type = "event" => q[i].val < q[j].val
        /\ \A i \in 1 .. Len(q) : q[i].type = "event" => q[i].val \in 1 .. n
        /\ G = 0 => IF wc.phase = "checked" THEN q = <<>> /\ ~wc.reuse
                                            ELSE q # <<>> /\ q[1].type = "hello"
        /\ wc.phase = "checked" /\ G > 0 => wc.reuse
        /\ \E o \in 1 .. Len(s) + 1 :
              /\ RestFrom(q, s, o)
              /\ o >= G
              /\ t = "whole" => o = G \/ (G = 0 /\ o = 1)

(* Sequence and the place of writePump.                                    *)
PumpNumbered(wc, G, t) ==
    /\ wc.phase \in {"checked", "start"} =>
          wc.Sequence <= G /\ (wc.Sequence = 0 => G = 0)
    /\ wc.phase = "drain" =>
          LET m == wc.deadQueue[wc.currPtr]
          IN  /\ m.seq > 0
              /\ m.seq < G => wc.Sequence = m.seq
              /\ m.seq > G => wc.Sequence >= G
    /\ wc.phase = "loop" =>
          /\ wc.Sequence >= G
          /\ G = 0 => wc.Sequence = 0
          /\ t = "torn" => wc.Sequence > G

(* Everything about the owner of an id.                                    *)
ConnNumbered(wc, s, G, t, n) ==
    /\ wc.phase \notin {"free", "upgraded"}
    /\ RingNumbered(wc.deadQueue, wc.deadQueuePointer, s, G, t)
    /\ QueueNumbered(wc, s, G, t, n)
    /\ PumpNumbered(wc, G, t)

-----------------------------------------------------------------------------
(* What is on its way to the client, and the id of the stream it is of.    *)
Pending == sock[client.conn].toClient

HeardId(p, id) == IF p # <<>> /\ p[1].type = "hello" THEN p[1].val ELSE id

(* The broadcasts of a stream, from number o, come after l.                *)
After(l, s, o) == \A j \in o .. Len(s) : s[j] > l

(* The client and the stream it hears.                                     *)
ClientNumbered(k, s, G) ==
    client.connectionId = k =>
        /\ client.serverSequence \in 1 .. G
        /\ Len(got) = client.serverSequence - 1
        /\ \A i \in 1 .. Len(got) : got[i] = s[i]
        /\ After(last, s, client.serverSequence)

(* What is on its way is numbered; a stream that begins with it begins     *)
(* after what was given.                                                   *)
Wire(p, cid, l, k, s, G, t) ==
    HeardId(p, cid) = k =>
        /\ \A i \in 1 .. Len(p) : p[i].type # "response" => Numbered(p[i], s, G, t)
        /\ cid # k => G > 0 /\ After(l, s, 1)

(* The client's socket, and the stream whose hello is still to be written. *)
PendingNumbered(k, s, G, t) ==
    client.conn # NoConn =>
        /\ Wire(Pending, client.connectionId, last, k, s, G, t)
        /\ /\ conn[client.conn].id = k
           /\ conn[client.conn].phase \in {"checked", "start", "loop"}
           /\ G = 0
           => After(last, s, 1)

(* All of it for the id k.                                                 *)
IdNumbered(k, G, t) ==
    LET s == stream[k]
    IN  /\ k >= nextId => G = 0 /\ t = "whole" /\ s = <<>>
        /\ G <= Len(s) + 1
        /\ t = "torn" => G > 0
        /\ \A c \in Conns : conn[c].id = k => ConnNumbered(conn[c], s, G, t, broadcasts)
        /\ \A c \in Conns : conn[c].reqId = k => conn[c].reqSeq \in 1 .. G
        /\ ClientNumbered(k, s, G)
        /\ PendingNumbered(k, s, G, t)

StreamNumbered == \A k \in Ids : \E G \in Nat, t \in Tears : IdNumbered(k, G, t)

(* A stream has the broadcasts in their order.                             *)
StreamsIncrease ==
    /\ stream \in [Ids -> Seq(Broadcasts)]
    /\ \A k \in Ids :
          /\ \A i \in 1 .. Len(stream[k]) : stream[k][i] <= broadcasts
          /\ \A i, j \in 1 .. Len(stream[k]) : i < j => stream[k][i] < stream[k][j]

(* The connection wc at the other end of the client's socket: nothing is   *)
(* on its way before writePump starts, or before its hello; what it writes *)
(* belongs to the stream that the client hears, if it hears one.           *)
Peer(wc, up, p, cid, ss) ==
    /\ \A i \in 1 .. Len(p) : p[i].type = "hello" => i = 1 /\ p[i].seq = 0
    /\ HeardId(p, cid) = 0 => \A i \in 1 .. Len(p) : p[i].type = "response"
    /\ wc.phase \in {"upgraded", "checked", "start"} => p = <<>>
    /\ wc.phase = "loop" /\ wc.Sequence = 0 => p = <<>>
    /\ wc.phase = "upgraded" => wc.reqId = cid /\ wc.reqSeq = ss
    /\ wc.phase \in {"checked", "start"} /\ wc.Sequence # 0 => wc.id = cid
    /\ up /\ (wc.phase = "drain" \/ (wc.phase = "loop" /\ wc.Sequence # 0)) =>
          wc.id = HeardId(p, cid)

PeerInv ==
    client.conn # NoConn =>
        Peer(conn[client.conn], sock[client.conn].up, Pending,
             client.connectionId, client.serverSequence)

(* Before its first hello the client has nothing.                          *)
UnbegunInv == client.connectionId = 0 => client.serverSequence = 0 /\ got = <<>>

(* A connection has an id once it has been checked, and before that it has *)
(* nothing in its queues.                                                  *)
IdsAreGiven ==
    \A c \in Conns :
        LET wc == conn[c]
        IN  /\ wc.id = 0 <=> wc.phase \in {"free", "upgraded"}
            /\ wc.phase = "upgraded" =>
                  /\ wc.send = <<>> /\ wc.Sequence = 0 /\ ~wc.reuse
                  /\ wc.deadQueue = NewDeadQueue /\ wc.deadQueuePointer = 0

(* The inductive invariant, on top of WebSocketInv.                        *)
StreamInv ==
    /\ StreamsIncrease
    /\ last <= broadcasts
    /\ IdsAreGiven
    /\ PeerInv
    /\ UnbegunInv
    /\ StreamNumbered

-----------------------------------------------------------------------------
(* The ring of numbers.                                                    *)

LEMMA LastSlotStep ==
    ASSUME NEW p \in Slot
    PROVE  /\ LastSlot(p) \in Slot
           /\ \A i \in Slot : NextSlot(i) = p <=> i = LastSlot(p)
<1> USE DeadQueueSizeAssumption
<1>1. LastSlot(p) \in Slot
  BY DEF LastSlot, Slot
<1>2. ASSUME NEW i \in Slot PROVE NextSlot(i) = p <=> i = LastSlot(p)
  BY NextSlotStep DEF LastSlot, Slot
<1>3. QED
  BY <1>1, <1>2

(* What a ring is made of, for the provers.                                *)
LEMMA RingFacts ==
    ASSUME NEW dq \in Ring, NEW i \in Slot, dq[i] # nil
    PROVE  dq[i] \in ConnMessage /\ dq[i].seq \in Nat
BY DEF Ring, ConnMessage, Message

LEMMA NewestSlot ==
    ASSUME NEW dq \in Ring, NEW p \in Slot, Contiguous(dq, p), dq[0] # nil
    PROVE  LastSlot(p) \in Slot /\ dq[LastSlot(p)] # nil
<1> USE DeadQueueSizeAssumption
<1>1. LastSlot(p) \in Slot /\ 0 \in Slot
  BY LastSlotStep DEF Slot
<1>2. QED
  BY <1>1 DEF Contiguous, LastSlot, Slot

LEMMA SuccessorSlot ==
    ASSUME NEW dq \in Ring, NEW p \in Slot, Contiguous(dq, p),
           NEW i \in Slot, dq[i] # nil, NextSlot(i) # p
    PROVE  NextSlot(i) \in Slot /\ dq[NextSlot(i)] # nil
<1> USE DeadQueueSizeAssumption
<1>1. NextSlot(i) = (IF i = deadQueueSize - 1 THEN 0 ELSE i + 1) /\ NextSlot(i) \in Slot
  BY NextSlotStep, NextSlotType
<1>2. QED
  BY <1>1 DEF Contiguous, Slot

(* In a stream that is not torn the numbers follow each other.             *)
LEMMA SuccessorNumber ==
    ASSUME NEW dq \in Ring, NEW p \in Slot, Contiguous(dq, p), NEW s,
           NEW G \in Nat, RingNumbered(dq, p, s, G, "whole"),
           NEW i \in Slot, dq[i] # nil
    PROVE  IF NextSlot(i) = p THEN dq[i].seq = G - 1
                              ELSE dq[NextSlot(i)].seq = dq[i].seq + 1
<1> USE DeadQueueSizeAssumption
<1>1. NextSlot(i) = (IF i = deadQueueSize - 1 THEN 0 ELSE i + 1) /\ NextSlot(i) \in Slot
  BY NextSlotStep, NextSlotType
<1>2. dq[i].seq = NumberAt(i, p, G)
  BY DEF RingNumbered
<1>3. CASE NextSlot(i) = p
  BY <1>1, <1>2, <1>3 DEF Slot, NumberAt
<1>4. CASE NextSlot(i) # p
  <2>1. dq[NextSlot(i)] # nil
    BY <1>4, SuccessorSlot
  <2>2. dq[NextSlot(i)].seq = NumberAt(NextSlot(i), p, G)
    BY <1>1, <2>1 DEF RingNumbered
  <2>3. QED
    BY <1>1, <1>2, <1>4, <2>2 DEF Slot, NumberAt
<1>5. QED
  BY <1>3, <1>4

(* Before a tear they do so as well.                                       *)
LEMMA SuccessorTorn ==
    ASSUME NEW dq \in Ring, NEW p \in Slot, Contiguous(dq, p), NEW s,
           NEW G \in Nat, NEW t \in {"whole", "torn"}, RingNumbered(dq, p, s, G, t),
           NEW i \in Slot, dq[i] # nil, NextSlot(i) # p
    PROVE  \/ dq[NextSlot(i)].seq = dq[i].seq + 1 /\ dq[i].seq < G - 1
           \/ dq[NextSlot(i)].seq > G /\ dq[i].seq >= G - 1 /\ t = "torn"
<1>1. CASE t = "torn"
  BY <1>1 DEF RingNumbered
<1>2. CASE t = "whole"
  <2>1. RingNumbered(dq, p, s, G, "whole")
    BY <1>2 DEF RingNumbered
  <2>2. dq[NextSlot(i)].seq = dq[i].seq + 1
    BY <2>1, SuccessorNumber
  <2>3. dq[NextSlot(i)].seq < G /\ dq[i].seq \in Nat
    BY <1>2, RingFacts, SuccessorSlot DEF RingNumbered, Numbered
  <2>4. QED
    BY <2>2, <2>3
<1>3. QED
  BY <1>1, <1>2

(* The newest event of a ring.                                             *)
LEMMA NewestNumber ==
    ASSUME NEW dq \in Ring, NEW p \in Slot, Contiguous(dq, p), NEW s,
           NEW G \in Nat, NEW t \in {"whole", "torn"}, RingNumbered(dq, p, s, G, t), dq[0] # nil
    PROVE  IF t = "torn" THEN dq[LastSlot(p)].seq > G ELSE dq[LastSlot(p)].seq = G - 1
<1>1. CASE t = "torn"
  BY <1>1 DEF RingNumbered
<1>2. CASE t = "whole"
  <2>1. RingNumbered(dq, p, s, G, "whole")
    BY <1>2 DEF RingNumbered
  <2>2. LastSlot(p) \in Slot /\ dq[LastSlot(p)] # nil /\ NextSlot(LastSlot(p)) = p
    BY NewestSlot, LastSlotStep
  <2>3. QED
    BY <1>2, <2>1, <2>2, SuccessorNumber
<1>3. QED
  BY <1>1, <1>2

(* The next number is written: there is one message more.                  *)
LEMMA RingAddNext ==
    ASSUME NEW dq \in Ring, NEW p \in Slot, Contiguous(dq, p), NEW s,
           NEW G \in Nat, RingNumbered(dq, p, s, G, "whole"),
           NEW msg \in ConnMessage, msg.seq = G, Numbered(msg, s, G + 1, "whole")
    PROVE  RingNumbered(addToDeadQueue(dq, p, msg), NextSlot(p), s, G + 1, "whole")
<1> DEFINE new == addToDeadQueue(dq, p, msg)
<1> USE DeadQueueSizeAssumption
<1>1. new[p] = msg /\ \A i \in Slot : i # p => new[i] = dq[i]
  BY DEF addToDeadQueue, Ring
<1>2. NextSlot(p) = IF p = deadQueueSize - 1 THEN 0 ELSE p + 1
  BY NextSlotStep
<1>3. ASSUME NEW i \in Slot, new[i] # nil PROVE Numbered(new[i], s, G + 1, "whole")
  <2>1. CASE i # p
    BY <1>1, <1>3, <2>1, RingFacts DEF RingNumbered, Numbered
  <2>2. QED
    BY <1>1, <2>1
<1>4. new[0] # nil
  <2>1. CASE p = 0
    BY <1>1, <2>1, NilIsNoMessage
  <2>2. CASE p # 0
    BY <1>1, <2>2 DEF Contiguous, Slot
  <2>3. QED
    BY <2>1, <2>2
<1>5. ASSUME NEW i \in Slot, new[i] # nil
      PROVE  new[i].seq = NumberAt(i, NextSlot(p), G + 1)
  <2>1. CASE i = p
    BY <1>1, <1>2, <2>1 DEF Slot, NumberAt
  <2>2. CASE i # p
    <3>1. dq[i].seq = NumberAt(i, p, G)
      BY <1>1, <1>5, <2>2 DEF RingNumbered
    <3>2. QED
      BY <1>1, <1>2, <2>2, <3>1 DEF Slot, NumberAt
  <2>3. QED
    BY <2>1, <2>2
<1> HIDE DEF new
<1>6. \A i \in Slot : new[i] # nil => Numbered(new[i], s, G + 1, "whole")
  BY <1>3
<1>7. \A i \in Slot : new[i] # nil =>
         new[i].seq = NumberAt(i, NextSlot(p), G + 1)
  BY <1>5
<1>8. G + 1 = 0 <=> new[0] = nil
  BY <1>4
<1>9. RingNumbered(new, NextSlot(p), s, G + 1, "whole")
  BY <1>6, <1>7, <1>8 DEF RingNumbered
<1>10. QED
  BY <1>9 DEF new

(* A number beyond it is written: now there is a tear, or there was one.   *)
LEMMA RingAddBeyond ==
    ASSUME NEW dq \in Ring, NEW p \in Slot, Contiguous(dq, p), NEW s,
           NEW G \in Nat, NEW t \in {"whole", "torn"}, RingNumbered(dq, p, s, G, t), G > 0,
           NEW msg \in ConnMessage, msg.type = "event", msg.seq > G
    PROVE  RingNumbered(addToDeadQueue(dq, p, msg), NextSlot(p), s, G, "torn")
<1> DEFINE new == addToDeadQueue(dq, p, msg)
<1> USE DeadQueueSizeAssumption
<1>0. msg.seq \in Nat
  BY DEF ConnMessage, Message
<1>1. new[p] = msg /\ \A i \in Slot : i # p => new[i] = dq[i]
  BY DEF addToDeadQueue, Ring
<1>2. /\ NextSlot(p) = IF p = deadQueueSize - 1 THEN 0 ELSE p + 1
      /\ NextSlot(p) \in Slot
      /\ LastSlot(NextSlot(p)) = p
      /\ LastSlot(p) \in Slot
      /\ \A i \in Slot : NextSlot(i) = p <=> i = LastSlot(p)
      /\ \A i \in Slot : NextSlot(i) \in Slot
      /\ \A i \in Slot : NextSlot(i) = NextSlot(p) => i = p
  <2>1. NextSlot(p) \in Slot
    BY NextSlotType
  <2>2. LastSlot(NextSlot(p)) = p /\ \A i \in Slot : NextSlot(i) = NextSlot(p) => i = p
    BY <2>1, LastSlotStep
  <2>3. QED
    BY <2>1, <2>2, NextSlotStep, NextSlotType, LastSlotStep
<1>3. ASSUME NEW i \in Slot, new[i] # nil PROVE Numbered(new[i], s, G, "torn")
  <2>1. CASE i = p
    BY <1>0, <1>1, <2>1 DEF Numbered
  <2>2. CASE i # p
    BY <1>1, <1>3, <2>2, RingFacts DEF RingNumbered, Numbered
  <2>3. QED
    BY <2>1, <2>2
<1>4. new[0] # nil
  <2>1. CASE p = 0
    BY <1>1, <2>1, NilIsNoMessage
  <2>2. CASE p # 0
    BY <1>1, <2>2 DEF Contiguous, Slot
  <2>3. QED
    BY <2>1, <2>2
<1>5. ASSUME NEW i \in Slot, new[i] # nil, NextSlot(i) # NextSlot(p)
      PROVE  \/ new[NextSlot(i)].seq = new[i].seq + 1 /\ new[i].seq < G - 1
             \/ new[NextSlot(i)].seq > G /\ new[i].seq >= G - 1
  <2>1. i # p /\ new[i] = dq[i] /\ dq[i] # nil
    BY <1>1, <1>5
  <2>2. CASE NextSlot(i) = p
    <3>1. i = LastSlot(p) /\ dq[0] # nil
      BY <1>2, <2>1, <2>2 DEF Contiguous, Slot
    <3>2. dq[i].seq >= G - 1
      BY <3>1, NewestNumber, RingFacts, <2>1
    <3>3. QED
      BY <1>1, <2>1, <2>2, <3>2
  <2>3. CASE NextSlot(i) # p
    <3>1. new[NextSlot(i)] = dq[NextSlot(i)]
      BY <1>1, <1>2, <2>3
    <3>2. \/ dq[NextSlot(i)].seq = dq[i].seq + 1 /\ dq[i].seq < G - 1
          \/ dq[NextSlot(i)].seq > G /\ dq[i].seq >= G - 1 /\ t = "torn"
      BY <2>1, <2>3, SuccessorTorn
    <3>3. QED
      BY <2>1, <3>1, <3>2
  <2>4. QED
    BY <2>2, <2>3
<1>6. new[LastSlot(NextSlot(p))].seq > G
  BY <1>1, <1>2
<1> HIDE DEF new
<1>7. \A i \in Slot : new[i] # nil => Numbered(new[i], s, G, "torn")
  BY <1>3
<1>8. \A i \in Slot : new[i] # nil /\ NextSlot(i) # NextSlot(p) =>
         \/ new[NextSlot(i)].seq = new[i].seq + 1 /\ new[i].seq < G - 1
         \/ new[NextSlot(i)].seq > G /\ new[i].seq >= G - 1
  BY <1>5
<1>9. G = 0 <=> new[0] = nil
  BY <1>4
<1>10. RingNumbered(new, NextSlot(p), s, G, "torn")
  BY <1>6, <1>7, <1>8, <1>9 DEF RingNumbered
<1>11. QED
  BY <1>10 DEF new

LEMMA RingEmpty ==
    ASSUME NEW s PROVE RingNumbered(NewDeadQueue, 0, s, 0, "whole")
BY NewIsContiguous DEF RingNumbered, NewDeadQueue

(* A ring with a hello in it.                                              *)
LEMMA RingHello ==
    ASSUME NEW s, NEW k \in Ids
    PROVE  /\ Hello(k) \in ConnMessage
           /\ RingNumbered(addToDeadQueue(NewDeadQueue, 0, Hello(k)), NextSlot(0), s, 1, "whole")
<1>1. Hello(k) \in ConnMessage
  BY WebConnAssumption DEF Hello, ConnMessage, Message, Ids
<1>2. Hello(k).seq = 0 /\ Numbered(Hello(k), s, 1, "whole")
  BY DEF Hello, Numbered
<1>3. ASSUME NEW G \in Nat, G = 0
      PROVE  RingNumbered(addToDeadQueue(NewDeadQueue, 0, Hello(k)), NextSlot(0), s, G + 1, "whole")
  <2>1. Hello(k).seq = G /\ Numbered(Hello(k), s, G + 1, "whole") /\ G + 1 = 1
    BY <1>2, <1>3
  <2>2. RingNumbered(NewDeadQueue, 0, s, G, "whole")
    BY <1>3, RingEmpty
  <2>3. QED
    BY <1>1, <2>1, <2>2, RingAddNext, NewIsContiguous
<1>4. PICK G \in Nat : G = 0 /\ G + 1 = 1
  OBVIOUS
<1>5. QED
  BY <1>1, <1>3, <1>4

-----------------------------------------------------------------------------
(* Queues and streams.                                                     *)

Increasing(s) == \A i, j \in 1 .. Len(s) : i < j => s[i] < s[j]

LEMMA ShownMember ==
    ASSUME NEW q \in Seq(ConnMessage)
    PROVE  \A n : n \in ShownSet(q) <=> \E i \in 1 .. Len(q) : IsShown(q[i]) /\ q[i].val = n
<1>1. DOMAIN q = 1 .. Len(q)
  OBVIOUS
<1>2. QED
  BY <1>1 DEF ShownSet

LEMMA QueueFacts ==
    ASSUME NEW q \in Seq(ConnMessage)
    PROVE  /\ Len(q) \in Nat
           /\ \A i \in 1 .. Len(q) : q[i] \in ConnMessage /\ q[i].val \in Nat
           /\ q # <<>> <=> Len(q) > 0
           /\ q # <<>> => /\ Head(q) = q[1] /\ Head(q) \in ConnMessage
                          /\ Tail(q) \in Seq(ConnMessage)
                          /\ Len(Tail(q)) = Len(q) - 1
                          /\ \A i \in 1 .. Len(q) - 1 : Tail(q)[i] = q[i + 1]
<1>1. \A i \in 1 .. Len(q) : q[i] \in ConnMessage
  OBVIOUS
<1>2. \A i \in 1 .. Len(q) : q[i].val \in Nat
  BY <1>1 DEF ConnMessage, Message
<1>3. QED
  BY <1>1, <1>2

LEMMA AppendFacts ==
    ASSUME NEW S, NEW q \in Seq(S), NEW m \in S
    PROVE  /\ Append(q, m) \in Seq(S)
           /\ Len(Append(q, m)) = Len(q) + 1 /\ Len(q) \in Nat
           /\ \A i \in 1 .. Len(q) : Append(q, m)[i] = q[i]
           /\ Append(q, m)[Len(q) + 1] = m
           /\ Append(q, m) # <<>>
OBVIOUS

LEMMA ShownAppend ==
    ASSUME NEW q \in Seq(ConnMessage), NEW m \in ConnMessage
    PROVE  ShownSet(Append(q, m)) = ShownSet(q) \cup (IF IsShown(m) THEN {m.val} ELSE {})
<1> DEFINE a == Append(q, m)
<1>1. /\ a \in Seq(ConnMessage) /\ Len(a) = Len(q) + 1 /\ Len(q) \in Nat
      /\ \A i \in 1 .. Len(q) : a[i] = q[i]
      /\ a[Len(q) + 1] = m
  BY AppendFacts
<1> HIDE DEF a
<1>2. ASSUME NEW n
      PROVE  n \in ShownSet(a) <=> n \in ShownSet(q) \/ (IsShown(m) /\ m.val = n)
  <2>1. n \in ShownSet(a) <=> \E i \in 1 .. Len(q) + 1 : IsShown(a[i]) /\ a[i].val = n
    BY <1>1, ShownMember
  <2>2. n \in ShownSet(q) <=> \E i \in 1 .. Len(q) : IsShown(a[i]) /\ a[i].val = n
    BY <1>1, ShownMember
  <2>3. 1 .. Len(q) + 1 = (1 .. Len(q)) \cup {Len(q) + 1}
    BY <1>1
  <2>4. QED
    BY <1>1, <2>1, <2>2, <2>3
<1>3. QED
  BY <1>2 DEF a

LEMMA ShownTail ==
    ASSUME NEW q \in Seq(ConnMessage), q # <<>>
    PROVE  ShownSet(q) = ShownSet(Tail(q)) \cup (IF IsShown(q[1]) THEN {q[1].val} ELSE {})
<1> DEFINE a == Tail(q)
<1>1. /\ a \in Seq(ConnMessage) /\ Len(a) = Len(q) - 1 /\ Len(q) \in Nat /\ Len(q) > 0
      /\ \A i \in 1 .. Len(q) - 1 : a[i] = q[i + 1]
  BY QueueFacts
<1> HIDE DEF a
<1>2. ASSUME NEW n
      PROVE  n \in ShownSet(q) <=> n \in ShownSet(a) \/ (IsShown(q[1]) /\ q[1].val = n)
  <2>1. n \in ShownSet(q) <=> \E i \in 1 .. Len(q) : IsShown(q[i]) /\ q[i].val = n
    BY ShownMember
  <2>2. n \in ShownSet(a) <=> \E i \in 1 .. Len(q) - 1 : IsShown(q[i + 1]) /\ q[i + 1].val = n
    BY <1>1, ShownMember
  <2>3. ASSUME NEW i \in 1 .. Len(q), i # 1 PROVE i - 1 \in 1 .. Len(q) - 1 /\ (i - 1) + 1 = i
    BY <1>1, <2>3
  <2>4. \A i \in 1 .. Len(q) - 1 : i + 1 \in 1 .. Len(q)
    BY <1>1
  <2>5. 1 \in 1 .. Len(q)
    BY <1>1
  <2>6. QED
    BY <2>1, <2>2, <2>3, <2>4, <2>5
<1>3. QED
  BY <1>2 DEF a

LEMMA RestFromIs ==
    ASSUME NEW q, NEW s, NEW o,
           \A n : n \in ShownSet(q) <=> \E j \in o .. Len(s) : s[j] = n
    PROVE  RestFrom(q, s, o)
BY DEF RestFrom

(* The first shown event of a queue is the next of the stream.             *)
LEMMA HeadIsNext ==
    ASSUME NEW q \in Seq(ConnMessage), q # <<>>, IsShown(q[1]),
           \A i, j \in 1 .. Len(q) :
              i < j /\ q[i].type = "event" /\ q[j].type = "event" => q[i].val < q[j].val,
           NEW s \in Seq(Nat), Increasing(s), NEW o \in 1 .. Len(s) + 1, RestFrom(q, s, o)
    PROVE  o <= Len(s) /\ s[o] = q[1].val /\ RestFrom(Tail(q), s, o + 1)
<1>0. Len(s) \in Nat /\ Len(q) \in Nat /\ \A i \in 1 .. Len(s) : s[i] \in Nat
  OBVIOUS
<1>1. 1 \in 1 .. Len(q) /\ \A i \in 1 .. Len(q) : q[i].val \in Nat
  BY QueueFacts
<1>2. q[1].val \in ShownSet(q)
  BY <1>1, ShownMember
<1>3. PICK j \in o .. Len(s) : s[j] = q[1].val
  BY <1>2 DEF RestFrom
<1>4. o \in 1 .. Len(s) /\ s[o] \in ShownSet(q) /\ o <= Len(s)
  BY <1>0, <1>3 DEF RestFrom
<1>5. PICK i \in 1 .. Len(q) : IsShown(q[i]) /\ q[i].val = s[o]
  BY <1>4, ShownMember
<1>6. s[o] <= s[j]
  <2>1. CASE o = j
    BY <1>0, <1>4, <2>1
  <2>2. CASE o # j
    BY <1>0, <1>3, <1>4, <2>2 DEF Increasing
  <2>3. QED
    BY <2>1, <2>2
<1>7. s[o] = q[1].val
  <2>1. CASE i = 1
    BY <1>5, <2>1
  <2>2. CASE i # 1
    <3>1. q[1].val < q[i].val
      BY SMTT(30), <1>1, <1>5, <2>2 DEF IsShown
    <3>2. QED
      BY <1>0, <1>1, <1>3, <1>4, <1>5, <1>6, <3>1
  <2>3. QED
    BY <2>1, <2>2
<1>8. \A n \in ShownSet(Tail(q)) : n > q[1].val
  <2> TAKE n \in ShownSet(Tail(q))
  <2>1. PICK k \in 1 .. Len(Tail(q)) : IsShown(Tail(q)[k]) /\ Tail(q)[k].val = n
    <3>1. Tail(q) \in Seq(ConnMessage)
      BY QueueFacts
    <3>2. QED
      BY <3>1, ShownMember
  <2>2. k + 1 \in 1 .. Len(q) /\ Tail(q)[k] = q[k + 1]
    BY QueueFacts, <2>1
  <2>3. q[1].val < q[k + 1].val
    <3>1. 1 < k + 1
      BY QueueFacts, <2>1
    <3>2. QED
      BY <1>1, <2>1, <2>2, <3>1 DEF IsShown
  <2>4. QED
    BY <1>1, <2>1, <2>2, <2>3
<1>9. ShownSet(q) = ShownSet(Tail(q)) \cup {q[1].val} /\ q[1].val \notin ShownSet(Tail(q))
  BY <1>1, <1>8, ShownTail
<1>10. \A m \in o + 1 .. Len(s) : m \in 1 .. Len(s) /\ m \in o .. Len(s) /\ s[m] # s[o]
  <2> TAKE m \in o + 1 .. Len(s)
  <2>1. m \in 1 .. Len(s) /\ m \in o .. Len(s) /\ o < m
    BY <1>0, <1>4
  <2>2. s[o] < s[m]
    BY <1>4, <2>1 DEF Increasing
  <2>3. QED
    BY <1>0, <1>4, <2>1, <2>2
<1>11. \A m \in o .. Len(s) : m = o \/ m \in o + 1 .. Len(s)
  BY <1>0, <1>4
<1>12. RestFrom(Tail(q), s, o + 1)
  <2>1. \A n : n \in ShownSet(Tail(q)) <=> n \in ShownSet(q) /\ n # s[o]
    BY <1>7, <1>9
  <2>2. \A n : n \in ShownSet(q) <=> \E m \in o .. Len(s) : s[m] = n
    BY DEF RestFrom
  <2>3. \A n : n \in ShownSet(Tail(q)) <=> \E m \in o + 1 .. Len(s) : s[m] = n
    BY <1>10, <1>11, <2>1, <2>2
  <2>4. QED
    BY <2>3, RestFromIs
<1>13. QED
  BY <1>4, <1>7, <1>12

(* Shown lists what it has to.                                             *)
LEMMA ShownLists ==
    ASSUME NEW q \in Seq(ConnMessage), NEW s \in Seq(Broadcasts), Increasing(s),
           NEW o \in 1 .. Len(s) + 1, RestFrom(q, s, o)
    PROVE  /\ Shown(q) \in Seq(Broadcasts)
           /\ Increasing(Shown(q))
           /\ RestFrom(q, Shown(q), 1)
           /\ \A i \in 1 .. Len(Shown(q)) : Shown(q)[i] \in ShownSet(q)
<1> DEFINE N == Len(s) + 1 - o
           S == ShownSet(q)
           w == [i \in 1 .. N |-> s[o - 1 + i]]
<1>0. Len(s) \in Nat /\ N \in Nat /\ \A i \in 1 .. Len(s) : s[i] \in Broadcasts /\ s[i] \in Nat
  <2>1. Len(s) \in Nat /\ N \in Nat /\ \A i \in 1 .. Len(s) : s[i] \in Broadcasts
    OBVIOUS
  <2>2. Broadcasts \subseteq Nat
    BY WebConnAssumption DEF Broadcasts
  <2>3. QED
    BY <2>1, <2>2
<1>1. \A i \in 1 .. N : o - 1 + i \in o .. Len(s) /\ o - 1 + i \in 1 .. Len(s)
  BY <1>0
<1>2. w \in [1 .. N -> S]
  BY <1>1 DEF RestFrom
<1>3. \A i, j \in 1 .. N : i < j => w[i] < w[j]
  <2> SUFFICES ASSUME NEW i \in 1 .. N, NEW j \in 1 .. N, i < j PROVE w[i] < w[j]
    OBVIOUS
  <2>1. o - 1 + i < o - 1 + j
    BY <1>0
  <2>2. s[o - 1 + i] < s[o - 1 + j]
    BY <1>1, <2>1 DEF Increasing
  <2>3. QED
    BY <2>2
<1>4. S \subseteq Broadcasts /\ S \subseteq Nat
  BY <1>0 DEF RestFrom
<1>5. ASSUME NEW v \in [1 .. N -> S], \A i, j \in 1 .. N : i < j => v[i] < v[j]
      PROVE  v \in Injection(1 .. N, S)
  <2>1. ASSUME NEW i \in 1 .. N, NEW j \in 1 .. N, i # j PROVE v[i] # v[j]
    <3>1. i < j \/ j < i
      BY <2>1
    <3>2. v[i] \in Nat /\ v[j] \in Nat
      BY <1>4, <1>5
    <3>3. QED
      BY <1>5, <3>1, <3>2
  <2>2. QED
    BY <1>5, <2>1, Fun_IsInj
<1>6. w \in Surjection(1 .. N, S)
  <2>1. ASSUME NEW n \in S PROVE \E i \in 1 .. N : w[i] = n
    <3>1. PICK j \in o .. Len(s) : s[j] = n
      BY <2>1 DEF RestFrom
    <3>2. j + 1 - o \in 1 .. N /\ o - 1 + (j + 1 - o) = j
      BY <1>0, <3>1
    <3>3. QED
      BY <3>1, <3>2
  <2>2. QED
    BY <1>2, <2>1, Fun_IsSurj
<1>7. ExistsBijection(1 .. N, S)
  <2>1. w \in Bijection(1 .. N, S)
    <3>1. w \in Injection(1 .. N, S)
      BY <1>2, <1>3, <1>5
    <3>2. QED
      BY <1>6, <3>1 DEF Bijection
  <2>2. QED
    BY <2>1 DEF ExistsBijection
<1>8. Cardinality(S) = N /\ IsFiniteSet(S)
  BY <1>0, <1>7, FS_CountingElements, FS_NatBijection
<1> DEFINE v == Shown(q)
<1>9. v \in [1 .. N -> S] /\ \A i, j \in 1 .. N : i < j => v[i] < v[j]
  <2>1. \E f \in [1 .. N -> S] : \A i, j \in DOMAIN f : i < j => f[i] < f[j]
    BY <1>2, <1>3
  <2>2. v = CHOOSE f \in [1 .. N -> S] : \A i, j \in DOMAIN f : i < j => f[i] < f[j]
    BY <1>8 DEF Shown
  <2>3. QED
    BY <2>1, <2>2
<1> HIDE DEF v, w
<1>10. v \in Seq(Broadcasts) /\ Len(v) = N
  <2>1. v \in [1 .. N -> Broadcasts]
    BY <1>4, <1>9
  <2>2. v \in Seq(Broadcasts)
    BY <1>0, <2>1, SeqDef
  <2>3. DOMAIN v = 1 .. N /\ DOMAIN v = 1 .. Len(v) /\ Len(v) \in Nat
    BY <2>1, <2>2, LenProperties
  <2>4. Len(v) = N
    <3> HIDE DEF N
    <3>1. 1 .. N = 1 .. Len(v)
      BY <2>3
    <3>2. N > 0 => N \in 1 .. Len(v)
      BY <1>0, <3>1
    <3>3. Len(v) > 0 => Len(v) \in 1 .. N
      <4>1. Len(v) \in Nat
        BY <2>3
      <4>2. Len(v) > 0 => Len(v) \in 1 .. Len(v)
        BY <4>1
      <4>3. QED
        BY <3>1, <4>2, Zenon
    <3>4. QED
      BY <1>0, <2>3, <3>2, <3>3
  <2>5. QED
    BY <2>2, <2>4
<1>11. v \in Surjection(1 .. N, S)
  <2>1. v \in Injection(1 .. N, S)
    BY <1>5, <1>9
  <2>2. Cardinality(1 .. N) = N /\ IsFiniteSet(1 .. N)
    <3>1. N \in Int /\ 1 \in Int /\ (IF 1 > N THEN 0 ELSE N - 1 + 1) = N
      BY <1>0
    <3> HIDE DEF N
    <3>2. QED
      BY <3>1, FS_Interval
  <2>3. QED
    BY <1>8, <2>1, <2>2, FS_Injection
<1>12. RestFrom(q, v, 1)
  <2>1. \A n \in S : \E i \in 1 .. N : v[i] = n
    BY <1>11 DEF Surjection
  <2>2. QED
    BY <1>9, <1>10, <2>1 DEF RestFrom
<1>13. QED
  BY <1>9, <1>10, <1>12 DEF Increasing, v

-----------------------------------------------------------------------------
(* One connection, step by step.                                           *)

LEMMA ConnFields ==
    ASSUME NEW wc \in Conn
    PROVE  /\ wc.phase \in Phase /\ wc.id \in Nat /\ wc.Sequence \in Nat /\ wc.reqSeq \in Nat
           /\ wc.reqId \in Nat /\ wc.reuse \in BOOLEAN
           /\ wc.send \in Seq(ConnMessage)
           /\ wc.deadQueue \in Ring /\ wc.deadQueuePointer \in Slot /\ wc.currPtr \in Slot
BY WebConnAssumption DEF Conn, Ring

(* Nothing that counts has changed.                                        *)
LEMMA ConnSame ==
    ASSUME NEW wc, NEW new, NEW s, NEW G, NEW t, NEW n, ConnNumbered(wc, s, G, t, n),
           new.phase = wc.phase, new.id = wc.id, new.Sequence = wc.Sequence,
           new.reuse = wc.reuse, new.send = wc.send, new.deadQueue = wc.deadQueue,
           new.deadQueuePointer = wc.deadQueuePointer, new.currPtr = wc.currPtr
    PROVE  ConnNumbered(new, s, G, t, n)
<1>1. QueueNumbered(new, s, G, t, n) /\ PumpNumbered(new, G, t)
  BY DEF ConnNumbered, QueueNumbered, PumpNumbered
<1>2. QED
  BY <1>1 DEF ConnNumbered

(* Only the pumps and their places have.                                   *)
LEMMA QueueSame ==
    ASSUME NEW wc, NEW new, NEW s, NEW G, NEW t, NEW n, QueueNumbered(wc, s, G, t, n),
           wc.phase # "checked", new.phase # "checked",
           new.id = wc.id, new.send = wc.send
    PROVE  QueueNumbered(new, s, G, t, n)
BY DEF QueueNumbered

(* The pumps have ended.                                                   *)
LEMMA ConnEnds ==
    ASSUME NEW wc, NEW new, NEW s, NEW G, NEW t, NEW n, ConnNumbered(wc, s, G, t, n),
           wc.phase # "checked", new.phase \in {"ended", "parked"}, new.id = wc.id,
           new.send = wc.send, new.deadQueue = wc.deadQueue,
           new.deadQueuePointer = wc.deadQueuePointer
    PROVE  ConnNumbered(new, s, G, t, n)
<1>1. QueueNumbered(new, s, G, t, n)
  BY QueueSame DEF ConnNumbered
<1>2. PumpNumbered(new, G, t)
  BY DEF PumpNumbered
<1>3. QED
  BY <1>1, <1>2 DEF ConnNumbered

(* writePump begins with nothing to resume, or the client has everything.  *)
LEMMA StartsLoop ==
    ASSUME NEW wc \in Conn, NEW new, NEW s, NEW G \in Nat, NEW t \in Tears, NEW n,
           ConnNumbered(wc, s, G, t, n), t = "torn" => G > 0,
           Contiguous(wc.deadQueue, wc.deadQueuePointer),
           wc.phase = "start", new.phase = "loop", new.id = wc.id, new.send = wc.send,
           new.deadQueue = wc.deadQueue, new.deadQueuePointer = wc.deadQueuePointer,
           new.Sequence = wc.Sequence,
           wc.Sequence # 0 => ~hasMsgLoss(wc.deadQueue, wc.deadQueuePointer, wc.Sequence)
    PROVE  ConnNumbered(new, s, G, t, n)
<1>1. QueueNumbered(new, s, G, t, n)
  BY QueueSame DEF ConnNumbered
<1>2. wc.Sequence \in Nat /\ wc.Sequence <= G /\ (wc.Sequence = 0 => G = 0)
  BY ConnFields DEF ConnNumbered, PumpNumbered
<1>3. CASE wc.Sequence = 0
  BY <1>1, <1>2, <1>3 DEF ConnNumbered, PumpNumbered, Tears
<1>4. CASE wc.Sequence # 0
  <2> DEFINE dq == wc.deadQueue
             p == wc.deadQueuePointer
  <2>1. dq \in Ring /\ p \in Slot /\ RingNumbered(dq, p, s, G, t) /\ G > 0
    BY <1>2, <1>4, ConnFields DEF ConnNumbered
  <2>2. dq[0] # nil
    BY <2>1 DEF RingNumbered
  <2>3. dq[LastSlot(p)].seq = wc.Sequence - 1
    BY <1>4, <2>2 DEF hasMsgLoss
  <2>4. IF t = "torn" THEN dq[LastSlot(p)].seq > G ELSE dq[LastSlot(p)].seq = G - 1
    <3> HIDE DEF dq, p
    <3>1. QED
      BY <2>1, <2>2, NewestNumber DEF Tears, dq, p
  <2>5. t # "torn" /\ wc.Sequence = G
    BY <1>2, <2>1, <2>3, <2>4
  <2>6. PumpNumbered(new, G, t)
    BY <2>1, <2>5 DEF PumpNumbered
  <2>7. QED
    BY <1>1, <2>6 DEF ConnNumbered
<1>5. QED
  BY <1>3, <1>4

(* writePump begins with a replay.                                         *)
LEMMA StartsDrain ==
    ASSUME NEW wc \in Conn, NEW new, NEW s, NEW G \in Nat, NEW t \in Tears, NEW n,
           ConnNumbered(wc, s, G, t, n),
           wc.phase = "start", new.phase = "drain", new.id = wc.id, new.send = wc.send,
           new.deadQueue = wc.deadQueue, new.deadQueuePointer = wc.deadQueuePointer,
           new.Sequence = wc.Sequence, wc.Sequence # 0,
           isInDeadQueue(wc.deadQueue, wc.Sequence),
           new.currPtr = IndexInDeadQueue(wc.deadQueue, wc.Sequence)
    PROVE  ConnNumbered(new, s, G, t, n)
<1>1. QueueNumbered(new, s, G, t, n)
  BY QueueSame DEF ConnNumbered
<1>2. wc.Sequence \in Nat /\ wc.Sequence <= G
  BY ConnFields DEF ConnNumbered, PumpNumbered
<1>3. new.currPtr \in Slot /\ wc.deadQueue[new.currPtr] # nil
      /\ wc.deadQueue[new.currPtr].seq = wc.Sequence
  BY IndexFound
<1>4. Numbered(wc.deadQueue[new.currPtr], s, G, t)
  BY <1>3 DEF ConnNumbered, RingNumbered
<1>5. PumpNumbered(new, G, t)
  BY <1>2, <1>3 DEF PumpNumbered
<1>6. QED
  BY <1>1, <1>5 DEF ConnNumbered

(* One message is replayed: the next one has the next number, or the tear  *)
(* has been passed; at the end Sequence is where it has to be.             *)
LEMMA DrainNumbered ==
    ASSUME NEW wc \in Conn, NEW new, NEW s, NEW G \in Nat, NEW t \in Tears, NEW n,
           ConnNumbered(wc, s, G, t, n),
           Contiguous(wc.deadQueue, wc.deadQueuePointer),
           wc.phase = "drain", wc.deadQueue[wc.currPtr] # nil,
           new.id = wc.id, new.send = wc.send,
           new.deadQueue = wc.deadQueue, new.deadQueuePointer = wc.deadQueuePointer,
           new.Sequence = wc.Sequence + 1,
           IF DrainedTo(wc.deadQueue, wc.deadQueuePointer, wc.currPtr)
             THEN new.phase = "loop"
             ELSE new.phase = "drain" /\ new.currPtr = NextSlot(wc.currPtr)
    PROVE  ConnNumbered(new, s, G, t, n)
<1> DEFINE dq == wc.deadQueue
           p == wc.deadQueuePointer
           cur == wc.currPtr
           S == wc.Sequence
<1>1. QueueNumbered(new, s, G, t, n)
  BY QueueSame DEF ConnNumbered
<1>2. /\ dq \in Ring /\ p \in Slot /\ cur \in Slot /\ S \in Nat
      /\ Contiguous(dq, p) /\ RingNumbered(dq, p, s, G, t) /\ dq[cur] # nil
  BY ConnFields DEF ConnNumbered
<1>3. /\ dq[cur].seq > 0 /\ dq[cur].seq \in Nat
      /\ dq[cur].seq < G => S = dq[cur].seq
      /\ dq[cur].seq > G => S >= G
  BY <1>2, RingFacts DEF ConnNumbered, PumpNumbered
<1>4. dq[cur].seq < G \/ (t = "torn" /\ dq[cur].seq > G)
  BY <1>2 DEF RingNumbered, Numbered
<1>5. DrainedTo(dq, p, cur) <=> IF dq[p] = nil THEN cur + 1 >= p
                                               ELSE dq[cur].seq > dq[NextSlot(cur)].seq
  BY DEF DrainedTo
<1>6. NextSlot(cur) = (IF cur = deadQueueSize - 1 THEN 0 ELSE cur + 1) /\ NextSlot(cur) \in Slot
  BY <1>2, NextSlotStep, NextSlotType
<1>7. dq[0] # nil /\ G > 0
  BY <1>2, DeadQueueSizeAssumption DEF Contiguous, Slot, RingNumbered
<1>8. /\ LastSlot(p) \in Slot /\ dq[LastSlot(p)] # nil
      /\ NextSlot(cur) = p <=> cur = LastSlot(p)
      /\ IF t = "torn" THEN dq[LastSlot(p)].seq > G ELSE dq[LastSlot(p)].seq = G - 1
      /\ dq[LastSlot(p)].seq \in Nat
  <2>1. LastSlot(p) \in Slot /\ dq[LastSlot(p)] # nil
    BY <1>2, <1>7, NewestSlot
  <2>2. NextSlot(cur) = p <=> cur = LastSlot(p)
    BY <1>2, LastSlotStep
  <2>3. dq[LastSlot(p)].seq \in Nat
    BY <1>2, <2>1, RingFacts
  <2>4. IF t = "torn" THEN dq[LastSlot(p)].seq > G ELSE dq[LastSlot(p)].seq = G - 1
    <3> HIDE DEF dq, p
    <3>1. QED
      BY <1>2, <1>7, NewestNumber DEF Tears, dq, p
  <2>5. QED
    BY <2>1, <2>2, <2>3, <2>4
<1>9. dq[NextSlot(cur)] # nil => dq[NextSlot(cur)].seq \in Nat
  BY <1>2, <1>6, RingFacts
<1> DEFINE m == dq[NextSlot(cur)]
<1>10. IF DrainedTo(dq, p, cur)
         THEN S + 1 >= G /\ (t = "torn" => S + 1 > G)
         ELSE m.seq > 0 /\ (m.seq < G => S + 1 = m.seq) /\ (m.seq > G => S + 1 >= G)
  <2>1. CASE NextSlot(cur) # p
    <3>1. m # nil
      BY <1>2, <1>6, <2>1, SuccessorSlot
    <3>2. \/ m.seq = dq[cur].seq + 1 /\ dq[cur].seq < G - 1
          \/ m.seq > G /\ dq[cur].seq >= G - 1 /\ t = "torn"
      <4> HIDE DEF dq, p, cur
      <4>1. QED
        BY <1>2, <2>1, SuccessorTorn DEF Tears, m, dq, p, cur
    <3>3. dq[p] = nil => ~(cur + 1 >= p)
      <4>1. dq[p] = nil => NextSlot(cur) < p
        BY <1>2, <1>6, <3>1 DEF Contiguous, Slot
      <4>2. QED
        BY <1>2, <1>6, <4>1, DeadQueueSizeAssumption DEF Slot, Contiguous
    <3>4. m.seq \in Nat
      BY <1>9, <3>1
    <3> HIDE DEF dq, p, cur, m, S
    <3>5. QED
      BY <1>2, <1>3, <1>4, <1>5, <3>2, <3>3, <3>4 DEF m
  <2>2. CASE NextSlot(cur) = p
    <3>1. cur = LastSlot(p)
      BY <1>8, <2>2
    <3>2. CASE DrainedTo(dq, p, cur)
      BY <1>2, <1>3, <1>4, <1>8, <3>1, <3>2
    <3>3. CASE ~DrainedTo(dq, p, cur)
      <4>1. dq[p] # nil
        BY <1>2, <1>5, <1>6, <2>2, <3>3, <1>7, DeadQueueSizeAssumption DEF Slot, Contiguous
      <4>2. dq[cur].seq <= m.seq /\ m # nil /\ m.seq \in Nat
        BY <1>3, <1>5, <1>9, <2>2, <3>3, <4>1
      <4>3. t = "torn"
        <5>1. ASSUME t = "whole" PROVE FALSE
          <6>1. m.seq = NumberAt(p, p, G) /\ dq[cur].seq = G - 1
            BY <1>2, <1>8, <2>2, <3>1, <4>1, <5>1 DEF RingNumbered
          <6>2. QED
            BY <1>2, <4>2, <6>1, DeadQueueSizeAssumption DEF NumberAt, Slot
        <5>2. QED
          BY <5>1 DEF Tears
      <4>4. QED
        BY <1>2, <1>3, <1>8, <3>1, <3>3, <4>2, <4>3
    <3>4. QED
      BY <3>2, <3>3
  <2>3. QED
    BY <2>1, <2>2
<1>11. PumpNumbered(new, G, t)
  BY <1>2, <1>7, <1>10 DEF PumpNumbered
<1>12. QED
  BY <1>1, <1>11 DEF ConnNumbered

LEMMA StreamType ==
    ASSUME NEW s \in Seq(Broadcasts)
    PROVE  /\ s \in Seq(Nat) /\ Len(s) \in Nat
           /\ \A i \in 1 .. Len(s) : s[i] \in Broadcasts /\ s[i] \in Nat
<1>1. Broadcasts \subseteq Nat
  BY WebConnAssumption DEF Broadcasts
<1>2. \A i \in 1 .. Len(s) : s[i] \in Broadcasts
  OBVIOUS
<1>3. s \in Seq(Nat)
  <2>1. PICK n \in Nat : s \in [1 .. n -> Broadcasts]
    BY SeqDef
  <2>2. s \in [1 .. n -> Nat]
    BY <1>1, <2>1
  <2>3. QED
    BY <2>2, SeqDef
<1>4. QED
  BY <1>1, <1>2, <1>3

(* s2 continues s.                                                         *)
Continues(s, s2) == Len(s) <= Len(s2) /\ \A i \in 1 .. Len(s) : s2[i] = s[i]

(* A message stays numbered when its stream goes on.                       *)
LEMMA NumberedKept ==
    ASSUME NEW m \in ConnMessage, NEW s \in Seq(Broadcasts), NEW s2 \in Seq(Broadcasts), Continues(s, s2),
           NEW G \in Nat, NEW t \in Tears, NEW G2 \in Nat, NEW t2 \in Tears,
           (G2 = G /\ (t2 = t \/ t2 = "torn")) \/ (G2 = G + 1 /\ t = "whole"),
           Numbered(m, s, G, t)
    PROVE  Numbered(m, s2, G2, t2)
<1>1. m.seq \in Nat
  BY DEF ConnMessage, Message
<1>2. Len(s) \in Nat /\ Len(s2) \in Nat
  BY StreamType
<1>3. m.seq < G2 \/ (t2 = "torn" /\ m.seq > G2)
  BY <1>1 DEF Numbered, Tears
<1>4. ASSUME m.type = "event", m.seq < G2 PROVE m.seq \in 1 .. Len(s2) /\ m.val = s2[m.seq]
  <2>1. m.seq < G
    BY <1>1, <1>4 DEF Numbered
  <2>2. m.seq \in 1 .. Len(s) /\ m.val = s[m.seq]
    BY <1>4, <2>1 DEF Numbered
  <2>3. QED
    BY <1>2, <2>2 DEF Continues
<1>5. m.type # "response" /\ (m.type = "hello" <=> m.seq = 0)
  BY DEF Numbered
<1>6. QED
  BY <1>3, <1>4, <1>5 DEF Numbered

LEMMA RingKept ==
    ASSUME NEW dq \in Ring, NEW p, NEW s \in Seq(Broadcasts), NEW s2 \in Seq(Broadcasts), Continues(s, s2),
           NEW G \in Nat, NEW t \in Tears, RingNumbered(dq, p, s, G, t)
    PROVE  RingNumbered(dq, p, s2, G, t)
<1>1. ASSUME NEW i \in Slot, dq[i] # nil PROVE Numbered(dq[i], s2, G, t)
  <2>1. dq[i] \in ConnMessage /\ Numbered(dq[i], s, G, t)
    BY <1>1, RingFacts DEF RingNumbered
  <2>2. QED
    BY <2>1, NumberedKept, Zenon
<1>2. \A i \in Slot : dq[i] # nil => Numbered(dq[i], s2, G, t)
  BY <1>1
<1>3. QED
  BY <1>2 DEF RingNumbered

(* More broadcasts, and none for this connection.                          *)
LEMMA ConnLater ==
    ASSUME NEW wc \in Conn, NEW s, NEW G, NEW t, NEW n \in Nat, ConnNumbered(wc, s, G, t, n)
    PROVE  ConnNumbered(wc, s, G, t, n + 1)
<1>1. \A i \in 1 .. Len(wc.send) : wc.send[i].val \in 1 .. n => wc.send[i].val \in 1 .. n + 1
  OBVIOUS
<1>2. QueueNumbered(wc, s, G, t, n + 1)
  BY <1>1 DEF ConnNumbered, QueueNumbered
<1>3. QED
  BY <1>2 DEF ConnNumbered

(* What is left of a queue when its first message is taken.                *)
LEMMA TailNumbered ==
    ASSUME NEW wc \in Conn, NEW s, NEW G, NEW t, NEW n, QueueNumbered(wc, s, G, t, n),
           wc.send # <<>>
    PROVE  LET r == Tail(wc.send)
           IN  /\ \A i \in 1 .. Len(r) : r[i].type # "hello"
               /\ \A i, j \in 1 .. Len(r) :
                     i < j /\ r[i].type = "event" /\ r[j].type = "event" => r[i].val < r[j].val
               /\ \A i \in 1 .. Len(r) : r[i].type = "event" => r[i].val \in 1 .. n
<1> DEFINE q == wc.send
           r == Tail(q)
<1>1. /\ q \in Seq(ConnMessage) /\ Len(q) \in Nat /\ Len(q) > 0
      /\ Len(r) = Len(q) - 1 /\ \A i \in 1 .. Len(q) - 1 : r[i] = q[i + 1]
  BY ConnFields, QueueFacts
<1> HIDE DEF r
<1>2. \A i \in 1 .. Len(r) : i + 1 \in 1 .. Len(q) /\ r[i] = q[i + 1] /\ i + 1 # 1
  BY <1>1
<1>3. \A i \in 1 .. Len(r) : r[i].type # "hello"
  BY <1>2 DEF QueueNumbered
<1>4. ASSUME NEW i \in 1 .. Len(r), NEW j \in 1 .. Len(r), i < j,
             r[i].type = "event", r[j].type = "event"
      PROVE  r[i].val < r[j].val
  <2>1. i + 1 < j + 1
    BY <1>4
  <2>2. \A a, b \in 1 .. Len(q) :
            a < b /\ q[a].type = "event" /\ q[b].type = "event" => q[a].val < q[b].val
    BY DEF QueueNumbered
  <2>3. q[i + 1].val < q[j + 1].val
    BY <1>2, <1>4, <2>1, <2>2
  <2>4. QED
    BY <1>2, <2>3
<1>5. \A i \in 1 .. Len(r) : r[i].type = "event" => r[i].val \in 1 .. n
  BY <1>2 DEF QueueNumbered
<1>6. QED
  BY <1>3, <1>4, <1>5 DEF r

LEMMA QueueBegun ==
    ASSUME NEW wc, NEW s, NEW G \in Nat, G > 0, NEW t, NEW n, wc.phase # "checked",
           \A i \in 1 .. Len(wc.send) : wc.send[i].type # "hello",
           \A i, j \in 1 .. Len(wc.send) :
              i < j /\ wc.send[i].type = "event" /\ wc.send[j].type = "event" =>
                  wc.send[i].val < wc.send[j].val,
           \A i \in 1 .. Len(wc.send) : wc.send[i].type = "event" => wc.send[i].val \in 1 .. n,
           NEW o \in 1 .. Len(s) + 1, RestFrom(wc.send, s, o), o >= G, t = "whole" => o = G
    PROVE  QueueNumbered(wc, s, G, t, n)
BY DEF QueueNumbered

(* writePump takes a message that the user is not shown.                   *)
LEMMA SkipNumbered ==
    ASSUME NEW wc \in Conn, NEW new, NEW s \in Seq(Broadcasts), NEW G \in Nat, NEW t \in Tears,
           NEW n, ConnNumbered(wc, s, G, t, n),
           wc.phase = "loop", wc.send # <<>>,
           wc.send[1].type # "hello", ~IsShown(wc.send[1]),
           new.phase = "loop", new.id = wc.id, new.send = Tail(wc.send),
           new.deadQueue = wc.deadQueue, new.deadQueuePointer = wc.deadQueuePointer,
           new.Sequence = wc.Sequence \/ new.Sequence = wc.Sequence + 1
    PROVE  ConnNumbered(new, s, G, t, n)
<1> DEFINE q == wc.send
           r == new.send
<1>1. /\ q \in Seq(ConnMessage) /\ Len(q) \in Nat /\ Len(q) > 0
      /\ Len(r) = Len(q) - 1 /\ \A i \in 1 .. Len(q) - 1 : r[i] = q[i + 1]
      /\ wc.Sequence \in Nat
  BY ConnFields, QueueFacts
<1>2. ShownSet(r) = ShownSet(q)
  BY <1>1, ShownTail
<1>3. G > 0
  BY DEF ConnNumbered, QueueNumbered
<1>4. QueueNumbered(new, s, G, t, n)
  <2>1. /\ \A i \in 1 .. Len(r) : r[i].type # "hello"
        /\ \A i, j \in 1 .. Len(r) :
              i < j /\ r[i].type = "event" /\ r[j].type = "event" => r[i].val < r[j].val
        /\ \A i \in 1 .. Len(r) : r[i].type = "event" => r[i].val \in 1 .. n
    BY TailNumbered DEF ConnNumbered
  <2>2. PICK o \in 1 .. Len(s) + 1 : RestFrom(q, s, o) /\ o >= G /\ (t = "whole" => o = G)
    BY <1>3 DEF ConnNumbered, QueueNumbered
  <2>3. RestFrom(r, s, o)
    BY <1>2, <2>2 DEF RestFrom
  <2>4. QED
    BY <1>3, <2>1, <2>2, <2>3, QueueBegun
<1>5. PumpNumbered(new, G, t)
  BY <1>1, <1>3 DEF ConnNumbered, PumpNumbered
<1>6. QED
  BY <1>4, <1>5 DEF ConnNumbered

(* The hello is written: it is number 0.                                   *)
LEMMA HelloNumbered ==
    ASSUME NEW wc \in Conn, NEW new, NEW s \in Seq(Broadcasts), NEW G \in Nat, NEW t \in Tears,
           NEW n, ConnNumbered(wc, s, G, t, n), t = "torn" => G > 0,
           Contiguous(wc.deadQueue, wc.deadQueuePointer),
           wc.phase = "loop", wc.send # <<>>, wc.send[1].type = "hello",
           NEW msg \in ConnMessage, msg.type = "hello", msg.seq = wc.Sequence,
           new.phase = "loop", new.id = wc.id, new.send = Tail(wc.send),
           new.deadQueue = addToDeadQueue(wc.deadQueue, wc.deadQueuePointer, msg),
           new.deadQueuePointer = NextSlot(wc.deadQueuePointer),
           new.Sequence = wc.Sequence + 1
    PROVE  /\ G = 0 /\ t = "whole" /\ wc.Sequence = 0
           /\ wc.send[1].val = wc.id
           /\ ConnNumbered(new, s, 1, "whole", n)
           /\ Numbered(msg, s, 1, "whole")
<1> DEFINE q == wc.send
           r == new.send
<1>1. /\ q \in Seq(ConnMessage) /\ Len(q) \in Nat /\ Len(q) > 0
      /\ Len(r) = Len(q) - 1 /\ \A i \in 1 .. Len(q) - 1 : r[i] = q[i + 1]
      /\ wc.deadQueue \in Ring /\ wc.deadQueuePointer \in Slot
      /\ Len(s) \in Nat
  BY ConnFields, QueueFacts, StreamType
<1>2. 1 \in 1 .. Len(q)
  BY <1>1
<1>3. G = 0 /\ t = "whole" /\ wc.send[1].val = wc.id /\ wc.Sequence = 0
  BY <1>2 DEF ConnNumbered, QueueNumbered, PumpNumbered, Tears
<1>4. ShownSet(r) = ShownSet(q)
  BY <1>1, ShownTail DEF IsShown
<1>5. QueueNumbered(new, s, 1, "whole", n)
  <2>1. /\ \A i \in 1 .. Len(r) : r[i].type # "hello"
        /\ \A i, j \in 1 .. Len(r) :
              i < j /\ r[i].type = "event" /\ r[j].type = "event" => r[i].val < r[j].val
        /\ \A i \in 1 .. Len(r) : r[i].type = "event" => r[i].val \in 1 .. n
    BY TailNumbered DEF ConnNumbered
  <2>2. PICK o \in 1 .. Len(s) + 1 : RestFrom(q, s, o) /\ (o = G \/ (G = 0 /\ o = 1))
    BY <1>3 DEF ConnNumbered, QueueNumbered
  <2>3. RestFrom(r, s, 1) /\ 1 \in 1 .. Len(s) + 1 /\ 1 \in Nat /\ 1 > 0 /\ 1 >= 1
    BY <1>1, <1>3, <1>4, <2>2 DEF RestFrom
  <2>4. QED
    BY <2>1, <2>3, QueueBegun
<1>6. Numbered(msg, s, 1, "whole")
  BY <1>3 DEF Numbered
<1>7. RingNumbered(new.deadQueue, new.deadQueuePointer, s, 1, "whole")
  <2>1. RingNumbered(wc.deadQueue, wc.deadQueuePointer, s, G, "whole") /\ G + 1 = 1
    BY <1>3 DEF ConnNumbered
  <2>2. RingNumbered(addToDeadQueue(wc.deadQueue, wc.deadQueuePointer, msg),
                     NextSlot(wc.deadQueuePointer), s, G + 1, "whole")
    BY <1>1, <1>3, <1>6, <2>1, RingAddNext
  <2>3. QED
    BY <2>1, <2>2
<1>8. PumpNumbered(new, 1, "whole")
  BY <1>3 DEF PumpNumbered
<1>9. QED
  BY <1>3, <1>5, <1>6, <1>7, <1>8 DEF ConnNumbered

(* A shown event is written: with the next number, which it then has in    *)
(* the stream, or beyond it.                                               *)
LEMMA EventNumbered ==
    ASSUME NEW wc \in Conn, NEW new, NEW s \in Seq(Broadcasts), Increasing(s),
           NEW G \in Nat, NEW t \in Tears, NEW n, ConnNumbered(wc, s, G, t, n),
           Contiguous(wc.deadQueue, wc.deadQueuePointer), G <= Len(s) + 1,
           wc.phase = "loop", wc.send # <<>>, IsShown(wc.send[1]),
           NEW msg \in ConnMessage, msg.type = "event", msg.val = wc.send[1].val,
           msg.seq = wc.Sequence,
           new.phase = "loop", new.id = wc.id, new.send = Tail(wc.send),
           new.deadQueue = addToDeadQueue(wc.deadQueue, wc.deadQueuePointer, msg),
           new.deadQueuePointer = NextSlot(wc.deadQueuePointer),
           new.Sequence = wc.Sequence + 1
    PROVE  /\ G > 0 /\ wc.Sequence > 0
           /\ \E G2 \in Nat, t2 \in Tears :
                /\ (G2 = G /\ t2 = "torn") \/ (G2 = G + 1 /\ t = "whole" /\ t2 = "whole")
                /\ G2 <= Len(s) + 1
                /\ ConnNumbered(new, s, G2, t2, n)
                /\ Numbered(msg, s, G2, t2)
<1> DEFINE q == wc.send
           r == new.send
<1>1. /\ q \in Seq(ConnMessage) /\ Len(q) \in Nat /\ Len(q) > 0
      /\ Len(r) = Len(q) - 1 /\ \A i \in 1 .. Len(q) - 1 : r[i] = q[i + 1]
      /\ wc.deadQueue \in Ring /\ wc.deadQueuePointer \in Slot
      /\ Len(s) \in Nat /\ s \in Seq(Nat) /\ wc.Sequence \in Nat
  BY ConnFields, QueueFacts, StreamType
<1>2. G > 0 /\ wc.Sequence >= G /\ (t = "torn" => wc.Sequence > G)
  BY DEF ConnNumbered, QueueNumbered, PumpNumbered, IsShown
<1>3. PICK o \in 1 .. Len(s) + 1 : RestFrom(q, s, o) /\ o >= G /\ (t = "whole" => o = G)
  BY <1>2 DEF ConnNumbered, QueueNumbered
<1>4. o <= Len(s) /\ s[o] = q[1].val /\ RestFrom(r, s, o + 1) /\ o + 1 \in 1 .. Len(s) + 1
  <2>1. \A i, j \in 1 .. Len(q) :
            i < j /\ q[i].type = "event" /\ q[j].type = "event" => q[i].val < q[j].val
    BY DEF ConnNumbered, QueueNumbered
  <2>2. o <= Len(s) /\ s[o] = q[1].val /\ RestFrom(r, s, o + 1)
    BY <1>1, <1>3, <2>1, HeadIsNext
  <2>3. QED
    BY <1>1, <2>2
<1>5. ASSUME NEW G2 \in Nat, NEW t2 \in Tears, G2 > 0, o + 1 >= G2, t2 = "whole" => o + 1 = G2
      PROVE  QueueNumbered(new, s, G2, t2, n)
  <2>1. /\ \A i \in 1 .. Len(r) : r[i].type # "hello"
        /\ \A i, j \in 1 .. Len(r) :
              i < j /\ r[i].type = "event" /\ r[j].type = "event" => r[i].val < r[j].val
        /\ \A i \in 1 .. Len(r) : r[i].type = "event" => r[i].val \in 1 .. n
    BY TailNumbered DEF ConnNumbered
  <2>2. QED
    BY <1>4, <1>5, <2>1, QueueBegun
<1>6. CASE t = "whole" /\ wc.Sequence = G
  <2>1. G + 1 \in Nat /\ "whole" \in Tears /\ G + 1 <= Len(s) + 1
    BY <1>1, <1>3, <1>4, <1>6 DEF Tears
  <2>2. Numbered(msg, s, G + 1, "whole")
    BY <1>1, <1>2, <1>3, <1>4, <1>6 DEF Numbered
  <2>3. RingNumbered(new.deadQueue, new.deadQueuePointer, s, G + 1, "whole")
    <3>1. RingNumbered(wc.deadQueue, wc.deadQueuePointer, s, G, "whole")
      BY <1>6 DEF ConnNumbered
    <3>2. QED
      BY <1>1, <1>6, <2>2, <3>1, RingAddNext
  <2>4. QueueNumbered(new, s, G + 1, "whole", n)
    BY <1>2, <1>3, <1>5, <1>6, <2>1
  <2>5. PumpNumbered(new, G + 1, "whole")
    BY <1>2, <1>6 DEF PumpNumbered
  <2>6. ConnNumbered(new, s, G + 1, "whole", n)
    BY <2>3, <2>4, <2>5 DEF ConnNumbered
  <2>7. QED
    BY <1>2, <1>6, <2>1, <2>2, <2>6
<1>7. CASE wc.Sequence > G
  <2>1. G \in Nat /\ "torn" \in Tears /\ G <= Len(s) + 1
    BY DEF Tears
  <2>2. Numbered(msg, s, G, "torn")
    BY <1>1, <1>7 DEF Numbered
  <2>3. RingNumbered(new.deadQueue, new.deadQueuePointer, s, G, "torn")
    <3>1. RingNumbered(wc.deadQueue, wc.deadQueuePointer, s, G, t)
      BY DEF ConnNumbered
    <3>2. QED
      BY <1>1, <1>2, <1>7, <3>1, RingAddBeyond DEF Tears
  <2>4. QueueNumbered(new, s, G, "torn", n)
    <3>1. o + 1 >= G
      BY <1>3
    <3>2. QED
      BY <1>2, <1>5, <2>1, <3>1
  <2>5. PumpNumbered(new, G, "torn")
    BY <1>1, <1>2, <1>7 DEF PumpNumbered
  <2>6. ConnNumbered(new, s, G, "torn", n)
    BY <2>3, <2>4, <2>5 DEF ConnNumbered
  <2>7. wc.Sequence > 0
    BY <1>1, <1>2
  <2>8. QED
    BY <1>2, <2>1, <2>2, <2>6, <2>7, Zenon
<1>8. QED
  BY <1>1, <1>2, <1>6, <1>7 DEF Tears

(* The hub puts another broadcast into the queue.                          *)
LEMMA TakesEvent ==
    ASSUME NEW wc \in Conn, NEW new, NEW s \in Seq(Broadcasts), NEW s2 \in Seq(Broadcasts),
           NEW G \in Nat, NEW t \in Tears, NEW n \in Nat, ConnNumbered(wc, s, G, t, n),
           G <= Len(s) + 1, n + 1 \in Broadcasts,
           s2 = IF Deliverable(n + 1) THEN Append(s, n + 1) ELSE s,
           wc.phase # "checked", new.phase = wc.phase, new.id = wc.id,
           new.Sequence = wc.Sequence, new.reuse = wc.reuse,
           new.send = Append(wc.send, Event(n + 1)),
           new.deadQueue = wc.deadQueue, new.deadQueuePointer = wc.deadQueuePointer,
           new.currPtr = wc.currPtr
    PROVE  ConnNumbered(new, s2, G, t, n + 1) /\ Continues(s, s2)
<1> DEFINE q == wc.send
           r == new.send
           m == Event(n + 1)
<1>1. m \in ConnMessage /\ m.type = "event" /\ m.val = n + 1
  BY DEF Event, ConnMessage, Message
<1>2. q \in Seq(ConnMessage) /\ Len(s) \in Nat
  BY ConnFields, StreamType
<1> HIDE DEF m
<1>3. /\ Len(q) \in Nat /\ Len(r) = Len(q) + 1
      /\ \A i \in 1 .. Len(q) : r[i] = q[i]
      /\ r[Len(q) + 1] = m
      /\ r # <<>>
  <2>1. r = Append(q, m)
    BY DEF m
  <2> HIDE DEF q, r
  <2>2. QED
    BY <1>1, <1>2, <2>1, AppendFacts
<1>4. /\ Continues(s, s2) /\ Len(s2) \in Nat
      /\ Deliverable(n + 1) => Len(s2) = Len(s) + 1 /\ s2[Len(s) + 1] = n + 1
      /\ ~Deliverable(n + 1) => s2 = s
  <2>1. CASE Deliverable(n + 1)
    BY <1>2, <2>1, AppendFacts DEF Continues
  <2>2. CASE ~Deliverable(n + 1)
    BY <1>2, <2>2 DEF Continues
  <2>3. QED
    BY <2>1, <2>2
<1>5. \A i \in 1 .. Len(r) : i \in 1 .. Len(q) \/ i = Len(q) + 1
  BY <1>3
<1>6. RingNumbered(wc.deadQueue, wc.deadQueuePointer, s2, G, t)
  <2>1. wc.deadQueue \in Ring /\ RingNumbered(wc.deadQueue, wc.deadQueuePointer, s, G, t)
    BY ConnFields DEF ConnNumbered
  <2>2. QED
    BY <1>4, <2>1, RingKept
<1>7. PumpNumbered(new, G, t)
  BY DEF ConnNumbered, PumpNumbered
<1>8. QueueNumbered(new, s2, G, t, n + 1)
  <2>1. \A i \in 1 .. Len(r) : r[i].type = "hello" => i = 1 /\ G = 0 /\ r[i].val = new.id
    BY <1>1, <1>3, <1>5 DEF ConnNumbered, QueueNumbered
  <2>2. \A i \in 1 .. Len(q) : q[i].type = "event" => q[i].val \in 1 .. n
    BY DEF ConnNumbered, QueueNumbered
  <2>3. ASSUME NEW i \in 1 .. Len(r), NEW j \in 1 .. Len(r), i < j,
               r[i].type = "event", r[j].type = "event"
        PROVE  r[i].val < r[j].val
    <3>1. i \in 1 .. Len(q) /\ r[i] = q[i]
      BY <1>3, <1>5, <2>3
    <3>2. CASE j \in 1 .. Len(q)
      <4>1. r[j] = q[j]
        BY <1>3, <3>2
      <4>2. QED
        BY <2>3, <3>1, <3>2, <4>1 DEF ConnNumbered, QueueNumbered
    <3>3. CASE j = Len(q) + 1
      BY <1>1, <1>3, <2>2, <2>3, <3>1, <3>3
    <3>4. QED
      BY <1>5, <3>2, <3>3
  <2>4. ASSUME NEW i \in 1 .. Len(r), r[i].type = "event" PROVE r[i].val \in 1 .. n + 1
    <3>1. CASE i \in 1 .. Len(q)
      <4>1. r[i].val \in 1 .. n
        BY <1>3, <2>2, <2>4, <3>1
      <4>2. QED
        BY <4>1
    <3>2. CASE i = Len(q) + 1
      BY <1>1, <1>3, <3>2
    <3>3. QED
      BY <1>5, <3>1, <3>2
  <2>5. G = 0 => r # <<>> /\ r[1].type = "hello"
    <3>1. ASSUME G = 0 PROVE q # <<>> /\ q[1].type = "hello"
      BY <3>1 DEF ConnNumbered, QueueNumbered
    <3>2. ASSUME G = 0 PROVE 1 \in 1 .. Len(q)
      BY <1>2, <1>3, <3>1, <3>2, QueueFacts
    <3>3. QED
      BY <1>3, <3>1, <3>2
  <2>6. PICK o \in 1 .. Len(s) + 1 :
            RestFrom(q, s, o) /\ o >= G /\ (t = "whole" => o = G \/ (G = 0 /\ o = 1))
    BY DEF ConnNumbered, QueueNumbered
  <2>7. o \in 1 .. Len(s2) + 1 /\ RestFrom(r, s2, o)
    <3>1. ShownSet(r) = ShownSet(q) \cup (IF IsShown(m) THEN {n + 1} ELSE {})
      BY <1>1, <1>2, ShownAppend DEF m
    <3>2. IsShown(m) <=> Deliverable(n + 1)
      BY <1>1 DEF IsShown
    <3>3. CASE Deliverable(n + 1)
      <4>1. \A j \in o .. Len(s2) : (j \in o .. Len(s) /\ s2[j] = s[j]) \/ (j = Len(s) + 1 /\ s2[j] = n + 1)
        BY <1>2, <1>4, <3>3 DEF Continues
      <4>2. /\ \A j \in o .. Len(s) : j \in o .. Len(s2) /\ s2[j] = s[j]
            /\ Len(s) + 1 \in o .. Len(s2) /\ o \in 1 .. Len(s2) + 1
        BY <1>2, <1>4, <3>3 DEF Continues
      <4>3. \A x : x \in ShownSet(r) <=> x \in ShownSet(q) \/ x = n + 1
        BY <3>1, <3>2, <3>3
      <4>4. \A x : x \in ShownSet(q) <=> \E j \in o .. Len(s) : s[j] = x
        BY <2>6 DEF RestFrom
      <4>5. s2[Len(s) + 1] = n + 1
        BY <1>4, <3>3
      <4>6. \A x : x \in ShownSet(r) <=> \E j \in o .. Len(s2) : s2[j] = x
        BY <4>1, <4>2, <4>3, <4>4, <4>5
      <4>7. RestFrom(r, s2, o)
        BY <4>6, RestFromIs, Zenon
      <4>8. Len(s) + 1 >= o
        BY <1>2
      <4>9. QED
        BY <1>4, <3>3, <4>7
    <3>4. CASE ~Deliverable(n + 1)
      BY <1>4, <2>6, <3>1, <3>2, <3>4 DEF RestFrom
    <3>5. QED
      BY <3>3, <3>4
  <2>8. \E u \in 1 .. Len(s2) + 1 :
            RestFrom(r, s2, u) /\ u >= G /\ (t = "whole" => u = G \/ (G = 0 /\ u = 1))
    BY <2>6, <2>7
  <2>9. new.phase # "checked"
    OBVIOUS
  <2>10. QED
    BY <2>1, <2>3, <2>4, <2>5, <2>8, <2>9 DEF QueueNumbered
<1>9. QED
  BY <1>4, <1>6, <1>7, <1>8 DEF ConnNumbered

(* The hub puts a response into the queue.                                 *)
LEMMA TakesResponse ==
    ASSUME NEW wc \in Conn, NEW new, NEW s \in Seq(Broadcasts),
           NEW G \in Nat, NEW t \in Tears, NEW n \in Nat, ConnNumbered(wc, s, G, t, n),
           wc.phase # "checked", new.phase = wc.phase, new.id = wc.id,
           new.Sequence = wc.Sequence, new.reuse = wc.reuse,
           new.send = Append(wc.send, Response),
           new.deadQueue = wc.deadQueue, new.deadQueuePointer = wc.deadQueuePointer,
           new.currPtr = wc.currPtr
    PROVE  ConnNumbered(new, s, G, t, n)
<1> DEFINE q == wc.send
           r == new.send
           m == Response
<1>1. m \in ConnMessage /\ m.type = "response"
  BY DEF Response, ConnMessage, Message
<1>2. q \in Seq(ConnMessage) /\ Len(s) \in Nat
  BY ConnFields, StreamType
<1> HIDE DEF m
<1>3. /\ Len(q) \in Nat /\ Len(r) = Len(q) + 1
      /\ \A i \in 1 .. Len(q) : r[i] = q[i]
      /\ r[Len(q) + 1] = m
      /\ r # <<>>
  <2>1. r = Append(q, m)
    BY DEF m
  <2>2. QED
    BY <1>1, <1>2, <2>1, AppendFacts
<1>4. \A i \in 1 .. Len(r) : r[i].type # "response" => i \in 1 .. Len(q) /\ r[i] = q[i]
  BY <1>1, <1>3
<1>5. QueueNumbered(new, s, G, t, n)
  <2>1. \A i \in 1 .. Len(r) : r[i].type = "hello" => i = 1 /\ G = 0 /\ r[i].val = new.id
    BY <1>4 DEF ConnNumbered, QueueNumbered
  <2>2. ASSUME NEW i \in 1 .. Len(r), NEW j \in 1 .. Len(r), i < j,
               r[i].type = "event", r[j].type = "event"
        PROVE  r[i].val < r[j].val
    BY <1>4, <2>2 DEF ConnNumbered, QueueNumbered
  <2>3. \A i \in 1 .. Len(r) : r[i].type = "event" => r[i].val \in 1 .. n
    BY <1>4 DEF ConnNumbered, QueueNumbered
  <2>4. G = 0 => r # <<>> /\ r[1].type = "hello"
    <3>1. ASSUME G = 0 PROVE q # <<>> /\ q[1].type = "hello"
      BY <3>1 DEF ConnNumbered, QueueNumbered
    <3>2. ASSUME G = 0 PROVE 1 \in 1 .. Len(q)
      BY <1>2, <1>3, <3>1, <3>2, QueueFacts
    <3>3. QED
      BY <1>3, <3>1, <3>2
  <2>5. ShownSet(r) = ShownSet(q)
    BY <1>1, <1>2, ShownAppend DEF m, IsShown
  <2>6. \E u \in 1 .. Len(s) + 1 :
            RestFrom(r, s, u) /\ u >= G /\ (t = "whole" => u = G \/ (G = 0 /\ u = 1))
    BY <2>5 DEF ConnNumbered, QueueNumbered, RestFrom
  <2>7. new.phase # "checked"
    OBVIOUS
  <2>8. QED
    BY <2>1, <2>2, <2>3, <2>4, <2>6, <2>7 DEF QueueNumbered
<1>6. PumpNumbered(new, G, t)
  BY DEF ConnNumbered, PumpNumbered
<1>7. QED
  BY <1>5, <1>6 DEF ConnNumbered

(* A connection that is made anew.                                         *)
LEMMA CheckedNew ==
    ASSUME NEW new, NEW n, new.phase = "checked", ~new.reuse, new.send = <<>>,
           new.deadQueue = NewDeadQueue, new.deadQueuePointer = 0, new.Sequence = 0
    PROVE  ConnNumbered(new, <<>>, 0, "whole", n)
<1>1. RingNumbered(new.deadQueue, new.deadQueuePointer, <<>>, 0, "whole")
  BY RingEmpty
<1>2. PumpNumbered(new, 0, "whole")
  BY DEF PumpNumbered
<1>3. RestFrom(<<>>, <<>>, 1)
  BY DEF RestFrom, ShownSet
<1>4. \E u \in 1 .. Len(<<>>) + 1 :
          RestFrom(<<>>, <<>>, u) /\ u >= 0 /\ ("whole" = "whole" => u = 0 \/ (0 = 0 /\ u = 1))
  BY <1>3
<1>5. QueueNumbered(new, <<>>, 0, "whole", n)
  BY <1>4 DEF QueueNumbered
<1>6. QED
  BY <1>1, <1>2, <1>5 DEF ConnNumbered

(* One that takes over the queues of a connection that waits.              *)
LEMMA CheckedFound ==
    ASSUME NEW wc \in Conn, NEW new, NEW s, NEW G \in Nat, NEW t, NEW n,
           ConnNumbered(wc, s, G, t, n), wc.phase = "parked",
           new.phase = "checked", new.reuse, new.id = wc.id, new.send = wc.send,
           new.deadQueue = wc.deadQueue, new.deadQueuePointer = wc.deadQueuePointer,
           new.Sequence \in 1 .. G
    PROVE  ConnNumbered(new, s, G, t, n)
<1>1. G > 0
  OBVIOUS
<1>2. QueueNumbered(new, s, G, t, n)
  BY <1>1 DEF ConnNumbered, QueueNumbered
<1>3. PumpNumbered(new, G, t)
  BY <1>1 DEF PumpNumbered
<1>4. QED
  BY <1>2, <1>3 DEF ConnNumbered

(* It registers; without a stream to go on with it gets its hello.         *)
LEMMA Registers ==
    ASSUME NEW wc \in Conn, NEW new, NEW s \in Seq(Broadcasts), NEW G \in Nat, NEW t \in Tears, NEW n,
           ConnNumbered(wc, s, G, t, n), wc.phase = "checked", wc.id \in Ids,
           new.phase = "start", new.reuse = wc.reuse, new.id = wc.id,
           new.Sequence = wc.Sequence,
           new.send = IF wc.reuse THEN wc.send ELSE Append(wc.send, Hello(wc.id)),
           new.deadQueue = wc.deadQueue, new.deadQueuePointer = wc.deadQueuePointer
    PROVE  ConnNumbered(new, s, G, t, n)
<1>1. PumpNumbered(new, G, t)
  BY DEF ConnNumbered, PumpNumbered
<1>2. G = 0 => wc.send = <<>> /\ ~wc.reuse
  BY DEF ConnNumbered, QueueNumbered
<1>3. G > 0 => wc.reuse
  BY DEF ConnNumbered, QueueNumbered
<1>4. CASE G > 0
  <2>1. QueueNumbered(new, s, G, t, n)
    BY <1>3, <1>4 DEF ConnNumbered, QueueNumbered
  <2>2. QED
    BY <1>1, <2>1 DEF ConnNumbered
<1>5. CASE G = 0
  <2> DEFINE m == Hello(wc.id)
             r == new.send
  <2>1. m \in ConnMessage /\ m.type = "hello" /\ m.val = wc.id
    BY RingHello DEF Hello
  <2>2. wc.send = <<>> /\ wc.send \in Seq(ConnMessage) /\ Len(wc.send) = 0
    BY <1>2, <1>5, ConnFields
  <2>3. r = Append(wc.send, m)
    BY <1>2, <1>5
  <2> HIDE DEF m
  <2>4. Len(r) = 1 /\ r[1] = m /\ r # <<>> /\ ShownSet(r) = ShownSet(wc.send)
    <3>1. Len(r) = Len(wc.send) + 1 /\ r[Len(wc.send) + 1] = m /\ r # <<>>
      <4> HIDE DEF r
      <4>1. QED
        BY <2>1, <2>2, <2>3, AppendFacts
    <3>2. ShownSet(r) = ShownSet(wc.send)
      BY <2>1, <2>2, <2>3, ShownAppend DEF IsShown
    <3>3. QED
      BY <2>2, <3>1, <3>2
  <2>5. \A i \in 1 .. Len(r) : i = 1
    <3>1. \A i \in 1 .. 1 : i = 1
      OBVIOUS
    <3>2. QED
      BY <2>4, <3>1
  <2>6. \A i \in 1 .. Len(r) : r[i].type = "hello" /\ r[i].val = new.id
    BY <2>1, <2>4, <2>5
  <2>7. \E u \in 1 .. Len(s) + 1 :
            RestFrom(r, s, u) /\ u >= G /\ (t = "whole" => u = G \/ (G = 0 /\ u = 1))
    BY <2>4 DEF ConnNumbered, QueueNumbered, RestFrom
  <2>8. r # <<>> /\ r[1].type = "hello"
    BY <2>1, <2>4
  <2>9. QueueNumbered(new, s, G, t, n)
    BY <1>5, <2>5, <2>6, <2>7, <2>8 DEF QueueNumbered
  <2>10. QED
    BY <1>1, <2>9 DEF ConnNumbered
<1>6. QED
  BY <1>4, <1>5

(* The stream is given up, and what waits belongs to the new one.          *)
LEMMA StartsOver ==
    ASSUME NEW wc \in Conn, NEW new, NEW k \in Ids,
           NEW s \in Seq(Broadcasts), Increasing(s), NEW G \in Nat, NEW t \in Tears, NEW n,
           ConnNumbered(wc, s, G, t, n),
           Contiguous(wc.deadQueue, wc.deadQueuePointer),
           wc.phase = "start", wc.Sequence # 0,
           new.phase = "loop", new.id = k, new.send = wc.send,
           new.deadQueue = addToDeadQueue(clearDeadQueue(wc.deadQueue), 0, Hello(k)),
           new.deadQueuePointer = NextSlot(0), new.Sequence = 1
    PROVE  LET v == Shown(wc.send)
           IN  /\ v \in Seq(Broadcasts) /\ Increasing(v)
               /\ \A i \in 1 .. Len(v) : \E j \in 1 .. Len(s) : j >= G /\ v[i] = s[j]
               /\ ConnNumbered(new, v, 1, "whole", n)
               /\ G > 0
<1> DEFINE q == wc.send
           v == Shown(q)
<1>1. q \in Seq(ConnMessage) /\ Len(s) \in Nat /\ wc.Sequence \in Nat
      /\ wc.deadQueue \in Ring /\ wc.deadQueuePointer \in Slot
  BY ConnFields, StreamType
<1>2. G > 0
  BY <1>1 DEF ConnNumbered, PumpNumbered
<1>3. PICK o \in 1 .. Len(s) + 1 : RestFrom(q, s, o) /\ o >= G
  BY DEF ConnNumbered, QueueNumbered
<1>4. /\ v \in Seq(Broadcasts) /\ Increasing(v) /\ RestFrom(q, v, 1)
      /\ \A i \in 1 .. Len(v) : v[i] \in ShownSet(q)
  BY <1>1, <1>3, ShownLists
<1>5. ASSUME NEW i \in 1 .. Len(v) PROVE \E j \in 1 .. Len(s) : j >= G /\ v[i] = s[j]
  <2>1. PICK j \in o .. Len(s) : s[j] = v[i]
    BY <1>3, <1>4 DEF RestFrom
  <2>2. j \in 1 .. Len(s) /\ j >= G
    BY <1>1, <1>3
  <2>3. QED
    BY <2>1, <2>2
<1> HIDE DEF v
<1>6. RingNumbered(new.deadQueue, new.deadQueuePointer, v, 1, "whole")
  BY <1>1, ClearEmpties, RingHello
<1>7. PumpNumbered(new, 1, "whole")
  BY DEF PumpNumbered
<1>8. QueueNumbered(new, v, 1, "whole", n)
  <2>1. \A i \in 1 .. Len(q) : q[i].type # "hello"
    BY <1>2 DEF ConnNumbered, QueueNumbered
  <2>2. \A i, j \in 1 .. Len(q) :
            i < j /\ q[i].type = "event" /\ q[j].type = "event" => q[i].val < q[j].val
    BY DEF ConnNumbered, QueueNumbered
  <2>3. \A i \in 1 .. Len(q) : q[i].type = "event" => q[i].val \in 1 .. n
    BY DEF ConnNumbered, QueueNumbered
  <2>4. 1 \in 1 .. Len(v) + 1
    BY <1>4, StreamType
  <2>5. \E u \in 1 .. Len(v) + 1 :
            RestFrom(q, v, u) /\ u >= 1 /\ ("whole" = "whole" => u = 1 \/ (1 = 0 /\ u = 1))
    BY <1>4, <2>4
  <2>6. QED
    BY <2>1, <2>2, <2>3, <2>5 DEF QueueNumbered
<1>9. ConnNumbered(new, v, 1, "whole", n)
  BY <1>6, <1>7, <1>8 DEF ConnNumbered
<1>10. QED
  BY <1>2, <1>4, <1>5, <1>9 DEF v

-----------------------------------------------------------------------------
(* The socket of the client.                                               *)

Grows(G, t, G2, t2) == (G2 = G /\ (t2 = t \/ t2 = "torn")) \/ (G2 = G + 1 /\ t = "whole" /\ t2 = "whole")

LEMMA WireEmpty ==
    ASSUME NEW cid, NEW l, NEW k, NEW s, NEW G, NEW t
    PROVE  Wire(<<>>, cid, l, k, s, G, t)
BY DEF Wire, HeardId

(* What is on its way stays numbered when the stream goes on.              *)
LEMMA WireKept ==
    ASSUME NEW p \in Seq(ConnMessage), NEW cid, NEW l, NEW k,
           NEW s \in Seq(Broadcasts), NEW s2 \in Seq(Broadcasts), Continues(s, s2),
           NEW G \in Nat, NEW t \in Tears, NEW G2 \in Nat, NEW t2 \in Tears,
           Grows(G, t, G2, t2), After(l, s, 1) => After(l, s2, 1),
           Wire(p, cid, l, k, s, G, t)
    PROVE  Wire(p, cid, l, k, s2, G2, t2)
<1>1. ASSUME NEW i \in 1 .. Len(p), Numbered(p[i], s, G, t) PROVE Numbered(p[i], s2, G2, t2)
  <2>1. p[i] \in ConnMessage
    BY QueueFacts
  <2>2. QED
    BY <1>1, <2>1, NumberedKept DEF Grows
<1>2. G > 0 => G2 > 0
  BY DEF Grows
<1>3. QED
  BY <1>1, <1>2 DEF Wire

(* Another message is written. Only a hello that is the first changes what *)
(* the client hears.                                                       *)
LEMMA HeardAppend ==
    ASSUME NEW p \in Seq(ConnMessage), NEW cid, NEW m \in ConnMessage
    PROVE  HeardId(Append(p, m), cid) =
             IF p = <<>> /\ m.type = "hello" THEN m.val ELSE HeardId(p, cid)
<1> DEFINE q == Append(p, m)
<1>1. /\ Len(p) \in Nat /\ q # <<>> /\ q[Len(p) + 1] = m
      /\ \A i \in 1 .. Len(p) : q[i] = p[i]
  BY AppendFacts
<1> HIDE DEF q
<1>2. CASE p = <<>>
  <2>1. q[1] = m
    BY <1>1, <1>2
  <2>2. QED
    BY <1>1, <1>2, <2>1 DEF HeardId, q
<1>3. CASE p # <<>>
  <2>1. 1 \in 1 .. Len(p)
    BY <1>1, <1>3, QueueFacts
  <2>2. q[1] = p[1]
    BY <1>1, <2>1
  <2>3. QED
    BY <1>1, <1>3, <2>2 DEF HeardId, q
<1>4. QED
  BY <1>2, <1>3

LEMMA WireAppend ==
    ASSUME NEW p \in Seq(ConnMessage), NEW cid, NEW l, NEW k, NEW s, NEW G, NEW t,
           Wire(p, cid, l, k, s, G, t), NEW m \in ConnMessage,
           HeardId(Append(p, m), cid) = k /\ m.type # "response" => Numbered(m, s, G, t),
           p = <<>> /\ m.type = "hello" /\ m.val = k => G > 0 /\ After(l, s, 1)
    PROVE  Wire(Append(p, m), cid, l, k, s, G, t)
<1> DEFINE q == Append(p, m)
<1>1. /\ Len(p) \in Nat /\ Len(q) = Len(p) + 1 /\ q[Len(p) + 1] = m
      /\ \A i \in 1 .. Len(p) : q[i] = p[i]
  BY AppendFacts
<1>2. HeardId(q, cid) = IF p = <<>> /\ m.type = "hello" THEN m.val ELSE HeardId(p, cid)
  BY HeardAppend
<1> HIDE DEF q
<1> SUFFICES ASSUME HeardId(q, cid) = k
             PROVE  /\ \A i \in 1 .. Len(q) : q[i].type # "response" => Numbered(q[i], s, G, t)
                    /\ cid # k => G > 0 /\ After(l, s, 1)
  BY DEF Wire, q
<1>3. m.type # "response" => Numbered(m, s, G, t)
  BY DEF q
<1>4. \A i \in 1 .. Len(q) : i \in 1 .. Len(p) \/ i = Len(p) + 1
  BY <1>1
<1>5. CASE p = <<>> /\ m.type = "hello"
  <2>1. m.val = k /\ G > 0 /\ After(l, s, 1)
    BY <1>2, <1>5
  <2>2. Len(p) = 0
    BY <1>5
  <2>3. \A i \in 1 .. Len(q) : i = Len(p) + 1
    BY <1>1, <2>2
  <2>4. QED
    BY <1>1, <1>3, <2>1, <2>3
<1>6. CASE ~(p = <<>> /\ m.type = "hello")
  <2>1. HeardId(p, cid) = k
    BY <1>2, <1>6
  <2>2. QED
    BY <1>1, <1>3, <1>4, <2>1 DEF Wire
<1>7. QED
  BY <1>5, <1>6

(* The client takes the first message.                                     *)
LEMMA HeardTail ==
    ASSUME NEW p \in Seq(ConnMessage), p # <<>>, NEW cid,
           \A i \in 1 .. Len(p) : p[i].type = "hello" => i = 1, NEW cid2,
           cid2 = IF p[1].type = "hello" THEN p[1].val ELSE cid
    PROVE  /\ cid2 = HeardId(p, cid)
           /\ HeardId(Tail(p), cid2) = cid2
           /\ \A i \in 1 .. Len(Tail(p)) : /\ i + 1 \in 1 .. Len(p) /\ Tail(p)[i] = p[i + 1]
                                           /\ Tail(p)[i].type # "hello"
<1> DEFINE r == Tail(p)
<1>1. /\ Len(p) \in Nat /\ r \in Seq(ConnMessage) /\ Len(r) = Len(p) - 1
      /\ \A i \in 1 .. Len(p) - 1 : r[i] = p[i + 1]
  BY QueueFacts
<1> HIDE DEF r
<1>2. \A i \in 1 .. Len(r) : i + 1 \in 1 .. Len(p) /\ i + 1 # 1 /\ r[i] = p[i + 1]
  BY <1>1
<1>3. \A i \in 1 .. Len(r) : r[i].type # "hello"
  BY <1>2
<1>4. cid2 = HeardId(p, cid)
  BY DEF HeardId
<1>5. r # <<>> => 1 \in 1 .. Len(r)
  BY <1>1, QueueFacts
<1>6. HeardId(r, cid2) = cid2
  BY <1>3, <1>5 DEF HeardId
<1>7. QED
  BY <1>2, <1>3, <1>4, <1>6 DEF r

LEMMA WireTail ==
    ASSUME NEW p \in Seq(ConnMessage), p # <<>>, NEW cid, NEW l, NEW k, NEW s, NEW G, NEW t,
           \A i \in 1 .. Len(p) : p[i].type = "hello" => i = 1,
           Wire(p, cid, l, k, s, G, t), NEW cid2, NEW l2,
           cid2 = IF p[1].type = "hello" THEN p[1].val ELSE cid
    PROVE  Wire(Tail(p), cid2, l2, k, s, G, t)
<1>1. /\ cid2 = HeardId(p, cid) /\ HeardId(Tail(p), cid2) = cid2
      /\ \A i \in 1 .. Len(Tail(p)) : i + 1 \in 1 .. Len(p) /\ Tail(p)[i] = p[i + 1]
  <2>1. /\ p \in Seq(ConnMessage) /\ p # <<>>
        /\ \A i \in 1 .. Len(p) : p[i].type = "hello" => i = 1
        /\ cid2 = IF p[1].type = "hello" THEN p[1].val ELSE cid
    OBVIOUS
  <2>2. QED
    BY ONLY <2>1, HeardTail
<1>2. QED
  BY <1>1 DEF Wire

-----------------------------------------------------------------------------
(* The steps that write no new event: every stream has the numbers it had. *)

LEMMA KeepsNumbers ==
    ASSUME WebSocketInv, StreamInv, IdsAreGiven',
           UNCHANGED <<stream, nextId, broadcasts, clientVars>>,
           \A d \in Conns, k \in Ids, G \in Nat, t \in Tears :
              IdNumbered(k, G, t) /\ conn'[d].id = k =>
                  ConnNumbered(conn'[d], stream[k], G, t, broadcasts),
           \A d \in Conns : conn'[d].reqId # 0 =>
              conn'[d].reqId = conn[d].reqId /\ conn'[d].reqSeq = conn[d].reqSeq,
           client.conn # NoConn =>
              Peer(conn'[client.conn], sock'[client.conn].up, sock'[client.conn].toClient,
                   client.connectionId, client.serverSequence),
           \A k \in Ids, G \in Nat, t \in Tears :
              client.conn # NoConn /\ IdNumbered(k, G, t) =>
                  Wire(sock'[client.conn].toClient, client.connectionId, last, k, stream[k], G, t),
           \A k \in Ids, t \in Tears :
              /\ client.conn # NoConn /\ IdNumbered(k, 0, t)
              /\ conn'[client.conn].id = k
              /\ conn'[client.conn].phase \in {"checked", "start", "loop"}
              => conn[client.conn].id = k /\ conn[client.conn].phase \in {"checked", "start", "loop"}
    PROVE  StreamInv'
<1>1. StreamsIncrease' /\ (last <= broadcasts)' /\ UnbegunInv'
  BY DEF StreamInv, StreamsIncrease, UnbegunInv, clientVars
<1>2. PeerInv'
  BY DEF PeerInv, Pending, clientVars
<1>3. ASSUME NEW k \in Ids, NEW G \in Nat, NEW t \in Tears, IdNumbered(k, G, t)
      PROVE  IdNumbered(k, G, t)'
  <2>1. /\ (k >= nextId => G = 0 /\ t = "whole" /\ stream[k] = <<>>)'
        /\ (G <= Len(stream[k]) + 1)'
        /\ t = "torn" => G > 0
    BY <1>3 DEF IdNumbered
  <2>2. \A c \in Conns : conn'[c].id = k => ConnNumbered(conn'[c], stream'[k], G, t, broadcasts')
    BY <1>3
  <2>3. \A c \in Conns : conn'[c].reqId = k => conn'[c].reqSeq \in 1 .. G
    <3>1. k # 0
      BY WebConnAssumption DEF Ids
    <3>2. QED
      BY <1>3, <3>1 DEF IdNumbered
  <2>4. ClientNumbered(k, stream[k], G)'
    BY <1>3 DEF IdNumbered, ClientNumbered, clientVars
  <2>5. PendingNumbered(k, stream[k], G, t)'
    <3>1. client' = client /\ last' = last /\ stream' = stream
      BY DEF clientVars
    <3>2. client.conn # NoConn =>
            Wire(sock'[client.conn].toClient, client.connectionId, last, k, stream[k], G, t)
      BY <1>3
    <3>3. ASSUME client.conn # NoConn, conn'[client.conn].id = k, G = 0,
                 conn'[client.conn].phase \in {"checked", "start", "loop"}
          PROVE  After(last, stream[k], 1)
      <4>1. conn[client.conn].id = k /\ conn[client.conn].phase \in {"checked", "start", "loop"}
        BY <1>3, <3>3
      <4>2. QED
        BY <1>3, <3>3, <4>1 DEF IdNumbered, PendingNumbered
    <3>4. QED
      BY <3>1, <3>2, <3>3 DEF PendingNumbered, Pending
  <2>6. QED
    BY <2>1, <2>2, <2>3, <2>4, <2>5 DEF IdNumbered
<1>4. StreamNumbered'
  BY <1>3 DEF StreamInv, StreamNumbered
<1>5. QED
  BY <1>1, <1>2, <1>4 DEF StreamInv

(* One connection changes.                                                 *)
LEMMA OneConnKeeps ==
    ASSUME WebSocketInv, StreamInv, NEW c \in Conns, NEW new,
           conn' = [conn EXCEPT ![c] = new],
           UNCHANGED <<stream, nextId, broadcasts, clientVars>>,
           new.reqId # 0 => new.reqId = conn[c].reqId /\ new.reqSeq = conn[c].reqSeq,
           new.id = 0 <=> new.phase = "free", new.phase # "upgraded",
           \A k \in Ids, G \in Nat, t \in Tears :
              IdNumbered(k, G, t) /\ new.id = k => ConnNumbered(new, stream[k], G, t, broadcasts),
           \A d \in Conns : d # c => sock'[d] = sock[d],
           client.conn = c =>
              Peer(new, sock'[c].up, sock'[c].toClient, client.connectionId, client.serverSequence),
           \A k \in Ids, G \in Nat, t \in Tears :
              client.conn = c /\ IdNumbered(k, G, t) =>
                  Wire(sock'[c].toClient, client.connectionId, last, k, stream[k], G, t),
           \A k \in Ids, t \in Tears :
              /\ client.conn = c /\ IdNumbered(k, 0, t)
              /\ new.id = k /\ new.phase \in {"checked", "start", "loop"}
              => conn[c].id = k /\ conn[c].phase \in {"checked", "start", "loop"}
    PROVE  StreamInv'
<1>1. /\ conn'[c] = new /\ \A d \in Conns : d # c => conn'[d] = conn[d]
      /\ client.conn # NoConn => client.conn \in Conns
  <2>1. conn \in [Conns -> Conn] /\ client \in Client
    BY DEF WebSocketInv, ServerTypeOK, ClientTypeOK
  <2>2. QED
    BY <2>1 DEF Client
<1>2. IdsAreGiven'
  BY <1>1 DEF StreamInv, IdsAreGiven
<1>3. ASSUME NEW d \in Conns, NEW k \in Ids, NEW G \in Nat, NEW t \in Tears,
             IdNumbered(k, G, t), conn'[d].id = k
      PROVE  ConnNumbered(conn'[d], stream[k], G, t, broadcasts)
  <2>1. CASE d = c
    BY <1>1, <1>3, <2>1
  <2>2. CASE d # c
    BY <1>1, <1>3, <2>2 DEF IdNumbered
  <2>3. QED
    BY <2>1, <2>2
<1>4. \A d \in Conns : conn'[d].reqId # 0 =>
              conn'[d].reqId = conn[d].reqId /\ conn'[d].reqSeq = conn[d].reqSeq
  BY <1>1
<1>5. ASSUME client.conn # NoConn
      PROVE  Peer(conn'[client.conn], sock'[client.conn].up, sock'[client.conn].toClient,
                  client.connectionId, client.serverSequence)
  <2>1. CASE client.conn = c
    BY <1>1, <2>1
  <2>2. CASE client.conn # c
    BY <1>1, <1>5, <2>2 DEF StreamInv, PeerInv, Pending
  <2>3. QED
    BY <2>1, <2>2
<1>6. ASSUME NEW k \in Ids, NEW G \in Nat, NEW t \in Tears,
             client.conn # NoConn, IdNumbered(k, G, t)
      PROVE  Wire(sock'[client.conn].toClient, client.connectionId, last, k, stream[k], G, t)
  <2>1. CASE client.conn = c
    BY <1>6, <2>1
  <2>2. CASE client.conn # c
    BY <1>1, <1>6, <2>2 DEF IdNumbered, PendingNumbered, Pending
  <2>3. QED
    BY <2>1, <2>2
<1>7. ASSUME NEW k \in Ids, NEW t \in Tears, client.conn # NoConn, IdNumbered(k, 0, t),
             conn'[client.conn].id = k,
             conn'[client.conn].phase \in {"checked", "start", "loop"}
      PROVE  conn[client.conn].id = k /\ conn[client.conn].phase \in {"checked", "start", "loop"}
  BY <1>1, <1>7
<1>8. QED
  BY <1>2, <1>3, <1>4, <1>5, <1>6, <1>7, KeepsNumbers

LEMMA OwnConn ==
    ASSUME WebSocketInv, StreamInv, NEW c \in Conns, conn[c].phase \notin {"free", "upgraded"}
    PROVE  LET k == conn[c].id
               wc == conn[c]
           IN  /\ wc \in Conn /\ sock[c] \in Socket /\ k \in Ids
               /\ Contiguous(wc.deadQueue, wc.deadQueuePointer)
               /\ wc.phase = "drain" => wc.deadQueue[wc.currPtr] # nil
               /\ stream[k] \in Seq(Broadcasts) /\ Increasing(stream[k])
               /\ \E G \in Nat, t \in Tears : IdNumbered(k, G, t)
               /\ \A G \in Nat, t \in Tears : IdNumbered(k, G, t) =>
                     /\ ConnNumbered(wc, stream[k], G, t, broadcasts)
                     /\ G <= Len(stream[k]) + 1
                     /\ t = "torn" => G > 0
<1>1. ServerTypeOK /\ conn[c] \in Conn /\ sock[c] \in Socket /\ conn[c].id \in 0 .. MaxIds
  BY ConnType DEF WebSocketInv
<1>2. conn[c].id \in Ids
  BY <1>1, WebConnAssumption DEF StreamInv, IdsAreGiven, Ids
<1>3. Contiguous(conn[c].deadQueue, conn[c].deadQueuePointer)
  BY DEF WebSocketInv, DeadQueueIsContiguous, Contiguous
<1>4. conn[c].phase = "drain" => conn[c].deadQueue[conn[c].currPtr] # nil
  BY DEF WebSocketInv, DrainsEvents
<1>5. stream[conn[c].id] \in Seq(Broadcasts) /\ Increasing(stream[conn[c].id])
  BY <1>2 DEF StreamInv, StreamsIncrease, Increasing
<1>6. \E G \in Nat, t \in Tears : IdNumbered(conn[c].id, G, t)
  BY <1>2 DEF StreamInv, StreamNumbered
<1>7. ASSUME NEW G \in Nat, NEW t \in Tears, IdNumbered(conn[c].id, G, t)
      PROVE  /\ ConnNumbered(conn[c], stream[conn[c].id], G, t, broadcasts)
             /\ G <= Len(stream[conn[c].id]) + 1
             /\ t = "torn" => G > 0
  BY <1>7 DEF IdNumbered
<1>8. QED
  BY <1>1, <1>2, <1>3, <1>4, <1>5, <1>6, <1>7

(* A pump does something, and writes nothing.                              *)
LEMMA QuietPump ==
    ASSUME WebSocketInv, StreamInv, NEW c \in Conns, NEW new,
           conn' = [conn EXCEPT ![c] = new],
           UNCHANGED <<stream, nextId, broadcasts, clientVars>>,
           conn[c].phase \in Pumping, new.phase \in Pumping, new.id = conn[c].id,
           new.reqId = conn[c].reqId, new.reqSeq = conn[c].reqSeq,
           sock'[c].toClient = sock[c].toClient, \A d \in Conns : d # c => sock'[d] = sock[d],
           \A G \in Nat, t \in Tears :
              IdNumbered(conn[c].id, G, t) =>
                  ConnNumbered(new, stream[conn[c].id], G, t, broadcasts),
           client.conn = c =>
              Peer(new, sock'[c].up, sock[c].toClient, client.connectionId, client.serverSequence),
           new.phase \in {"start", "loop"} => conn[c].phase \in {"start", "loop"}
    PROVE  StreamInv'
<1>1. conn[c].id # 0 /\ new.phase \notin {"free", "upgraded", "checked"}
  BY DEF StreamInv, IdsAreGiven, Pumping
<1>2. ASSUME NEW k \in Ids, NEW G \in Nat, NEW t \in Tears, client.conn = c, IdNumbered(k, G, t)
      PROVE  Wire(sock'[c].toClient, client.connectionId, last, k, stream[k], G, t)
  <2>1. client.conn # NoConn
    BY <1>2, NoConnAssumption
  <2>2. QED
    BY <1>2, <2>1 DEF IdNumbered, PendingNumbered, Pending
<1>3. ASSUME NEW k \in Ids, NEW t \in Tears, new.id = k, new.phase \in {"checked", "start", "loop"}
      PROVE  conn[c].id = k /\ conn[c].phase \in {"checked", "start", "loop"}
  BY <1>1, <1>3
<1>4. ASSUME NEW k \in Ids, NEW G \in Nat, NEW t \in Tears, IdNumbered(k, G, t), new.id = k
      PROVE  ConnNumbered(new, stream[k], G, t, broadcasts)
  BY <1>4
<1>5. /\ new.reqId # 0 => new.reqId = conn[c].reqId /\ new.reqSeq = conn[c].reqSeq
      /\ new.id = 0 <=> new.phase = "free"
      /\ new.phase # "upgraded"
      /\ client.conn = c =>
            Peer(new, sock'[c].up, sock'[c].toClient, client.connectionId, client.serverSequence)
  BY <1>1
<1>6. \A k \in Ids, G \in Nat, t \in Tears :
         IdNumbered(k, G, t) /\ new.id = k => ConnNumbered(new, stream[k], G, t, broadcasts)
  BY <1>4
<1>7. \A k \in Ids, G \in Nat, t \in Tears :
         client.conn = c /\ IdNumbered(k, G, t) =>
             Wire(sock'[c].toClient, client.connectionId, last, k, stream[k], G, t)
  BY <1>2
<1>8. \A k \in Ids, t \in Tears :
         /\ client.conn = c /\ IdNumbered(k, 0, t)
         /\ new.id = k /\ new.phase \in {"checked", "start", "loop"}
         => conn[c].id = k /\ conn[c].phase \in {"checked", "start", "loop"}
  BY <1>3
<1>9. QED
  BY <1>5, <1>6, <1>7, <1>8, OneConnKeeps

(* writePump returns.                                                      *)
LEMMA ReturnKeeps ==
    ASSUME WebSocketInv, StreamInv, NEW c \in Conns, NEW wc \in Conn, PumpReturns(c, wc),
           UNCHANGED <<stream, nextId, broadcasts, clientVars>>,
           conn[c].phase \in Pumping, wc.phase # "checked", wc.id = conn[c].id,
           wc.reqId = conn[c].reqId, wc.reqSeq = conn[c].reqSeq,
           \A G \in Nat, t \in Tears :
              IdNumbered(conn[c].id, G, t) =>
                  ConnNumbered(wc, stream[conn[c].id], G, t, broadcasts)
    PROVE  StreamInv'
<1> DEFINE new == [wc EXCEPT !.phase = "ended"]
<1>1. new.phase = "ended" /\ new.id = wc.id /\ new.reqId = wc.reqId /\ new.reqSeq = wc.reqSeq
      /\ new.send = wc.send /\ new.deadQueue = wc.deadQueue
      /\ new.deadQueuePointer = wc.deadQueuePointer
  BY DEF Conn
<1>2. /\ conn' = [conn EXCEPT ![c] = new]
      /\ sock'[c].toClient = sock[c].toClient /\ \A d \in Conns : d # c => sock'[d] = sock[d]
  <2>1. sock \in [Conns -> Socket]
    BY DEF WebSocketInv, ServerTypeOK
  <2>2. QED
    BY <2>1 DEF PumpReturns, Socket
<1> HIDE DEF new
<1>3. ASSUME NEW G \in Nat, NEW t \in Tears, IdNumbered(conn[c].id, G, t)
      PROVE  ConnNumbered(new, stream[conn[c].id], G, t, broadcasts)
  BY <1>1, <1>3, ConnEnds
<1>4. ASSUME client.conn = c
      PROVE  Peer(new, sock'[c].up, sock[c].toClient, client.connectionId, client.serverSequence)
  <2>1. Peer(conn[c], sock[c].up, sock[c].toClient, client.connectionId, client.serverSequence)
    BY <1>4, NoConnAssumption DEF StreamInv, PeerInv, Pending
  <2>2. QED
    BY <1>1, <2>1 DEF Peer
<1>5. new.phase \in Pumping /\ new.phase \notin {"start", "loop"}
  BY <1>1 DEF Pumping
<1>6. QED
  BY <1>1, <1>2, <1>3, <1>4, <1>5, QuietPump

(* A message that has been written before, or has no number, is written.   *)
LEMMA WriteKeeps ==
    ASSUME WebSocketInv, StreamInv, NEW c \in Conns, NEW wc \in Conn, NEW msg \in ConnMessage,
           WriteOrReturn(c, wc, msg),
           UNCHANGED <<stream, nextId, broadcasts, clientVars>>,
           conn[c].phase \in {"drain", "loop"}, conn[c].phase = "loop" => conn[c].Sequence # 0,
           wc.phase \in {"drain", "loop"}, wc.Sequence # 0, wc.id = conn[c].id,
           wc.reqId = conn[c].reqId, wc.reqSeq = conn[c].reqSeq, msg.type # "hello",
           \A G \in Nat, t \in Tears :
              IdNumbered(conn[c].id, G, t) =>
                  /\ G > 0
                  /\ ConnNumbered(wc, stream[conn[c].id], G, t, broadcasts)
                  /\ msg.type # "response" => Numbered(msg, stream[conn[c].id], G, t)
    PROVE  StreamInv'
<1> DEFINE p == sock[c].toClient
           r == Append(p, msg)
           cid == client.connectionId
           ss == client.serverSequence
<1>1. conn[c].id # 0 /\ conn[c].phase \in Pumping
  BY DEF StreamInv, IdsAreGiven, Pumping
<1>2. /\ sock \in [Conns -> Socket] /\ p \in Seq(ConnMessage)
      /\ sock[c].up \in BOOLEAN
  BY ConnType DEF WebSocketInv, ServerTypeOK
<1>3. CASE ~sock[c].up /\ PumpReturns(c, wc)
  BY <1>1, <1>3, ReturnKeeps
<1>4. CASE conn' = [conn EXCEPT ![c] = wc] /\ Written(c, msg)
  <2>1. /\ \A d \in Conns : d # c => sock'[d] = sock[d]
        /\ sock'[c].up = sock[c].up
        /\ sock'[c].toClient = IF sock[c].up THEN r ELSE p
    BY <1>2, <1>4 DEF Written, Socket
  <2>2. HeardId(r, cid) = HeardId(p, cid)
    BY <1>2, HeardAppend
  <2>3. /\ Len(r) = Len(p) + 1 /\ r[Len(p) + 1] = msg /\ Len(p) \in Nat
        /\ \A i \in 1 .. Len(p) : r[i] = p[i]
    BY <1>2, AppendFacts
  <2>4. ASSUME client.conn = c, sock[c].up PROVE HeardId(p, cid) = conn[c].id
    <3>1. Peer(conn[c], sock[c].up, p, cid, ss)
      BY <2>4, NoConnAssumption DEF StreamInv, PeerInv, Pending
    <3>2. QED
      BY <2>4, <3>1 DEF Peer
  <2>5. ASSUME client.conn = c
        PROVE  Peer(wc, sock'[c].up, sock'[c].toClient, cid, ss)
    <3>1. Peer(conn[c], sock[c].up, p, cid, ss)
      BY <2>5, NoConnAssumption DEF StreamInv, PeerInv, Pending
    <3>2. CASE ~sock[c].up
      BY <2>1, <3>1, <3>2 DEF Peer
    <3>3. CASE sock[c].up
      <4> HIDE DEF r
      <4>1. \A i \in 1 .. Len(r) : r[i].type = "hello" => i \in 1 .. Len(p) /\ r[i] = p[i]
        BY <2>3
      <4>2. HeardId(r, cid) = conn[c].id
        BY <2>2, <2>4, <2>5, <3>3
      <4>3. \A i \in 1 .. Len(r) : r[i].type = "hello" => i = 1 /\ r[i].seq = 0
        BY <3>1, <4>1 DEF Peer
      <4>4. sock'[c].toClient = r
        BY <2>1, <3>3
      <4>5. QED
        BY <1>1, <4>2, <4>3, <4>4 DEF Peer
    <3>4. QED
      BY <3>2, <3>3
  <2>6. ASSUME NEW k \in Ids, NEW G \in Nat, NEW t \in Tears, client.conn = c, IdNumbered(k, G, t)
        PROVE  Wire(sock'[c].toClient, cid, last, k, stream[k], G, t)
    <3>1. Wire(p, cid, last, k, stream[k], G, t)
      BY <2>6, NoConnAssumption DEF IdNumbered, PendingNumbered, Pending
    <3>2. CASE ~sock[c].up
      BY <2>1, <3>1, <3>2
    <3>3. CASE sock[c].up
      <4>1. HeardId(r, cid) = conn[c].id
        BY <2>2, <2>4, <2>6, <3>3
      <4>2. HeardId(r, cid) = k /\ msg.type # "response" => Numbered(msg, stream[k], G, t)
        BY <2>6, <4>1
      <4>3. Wire(r, cid, last, k, stream[k], G, t)
        BY <1>2, <3>1, <4>2, WireAppend
      <4>4. QED
        BY <2>1, <3>3, <4>3
    <3>4. QED
      BY <3>2, <3>3
  <2>7. \A k \in Ids, G \in Nat, t \in Tears :
           client.conn = c /\ IdNumbered(k, G, t) =>
               Wire(sock'[c].toClient, client.connectionId, last, k, stream[k], G, t)
    BY <2>6
  <2>8. \A k \in Ids, G \in Nat, t \in Tears :
           IdNumbered(k, G, t) /\ wc.id = k => ConnNumbered(wc, stream[k], G, t, broadcasts)
    OBVIOUS
  <2>9. \A k \in Ids, t \in Tears :
           /\ client.conn = c /\ IdNumbered(k, 0, t)
           /\ wc.id = k /\ wc.phase \in {"checked", "start", "loop"}
           => conn[c].id = k /\ conn[c].phase \in {"checked", "start", "loop"}
    <3>1. \A t \in Tears : ~IdNumbered(conn[c].id, 0, t)
      OBVIOUS
    <3>2. QED
      BY <3>1
  <2>10. /\ wc.reqId # 0 => wc.reqId = conn[c].reqId /\ wc.reqSeq = conn[c].reqSeq
         /\ wc.id = 0 <=> wc.phase = "free"
         /\ wc.phase # "upgraded"
         /\ client.conn = c =>
               Peer(wc, sock'[c].up, sock'[c].toClient, client.connectionId, client.serverSequence)
    BY <1>1, <2>5
  <2>11. QED
    BY <1>4, <2>1, <2>7, <2>8, <2>9, <2>10, OneConnKeeps
<1>5. QED
  BY <1>3, <1>4 DEF WriteOrReturn

LEMMA DrainKeeps == ASSUME WebSocketInv, StreamInv, NEW c \in Conns, Drain(c),
                           UNCHANGED <<hubVars, clientVars>>
                    PROVE  StreamInv'
<1> DEFINE wc == conn[c]
           done == DrainedTo(wc.deadQueue, wc.deadQueuePointer, wc.currPtr)
           msg == wc.deadQueue[wc.currPtr]
           new == [wc EXCEPT !.phase = IF done THEN "loop" ELSE "drain",
                             !.Sequence = @ + 1,
                             !.currPtr = IF done THEN 0 ELSE NextSlot(@)]
<1>1. /\ wc.phase = "drain" /\ WriteOrReturn(c, new, msg)
      /\ UNCHANGED <<stream, nextId, broadcasts, clientVars>>
  BY DEF Drain, hubVars
<1>2. /\ wc \in Conn /\ Contiguous(wc.deadQueue, wc.deadQueuePointer) /\ msg # nil
      /\ wc.deadQueue \in Ring /\ wc.currPtr \in Slot /\ wc.Sequence \in Nat
  BY <1>1, OwnConn, ConnFields
<1>3. /\ new.phase = (IF done THEN "loop" ELSE "drain")
      /\ new.id = wc.id /\ new.reqId = wc.reqId /\ new.reqSeq = wc.reqSeq
      /\ new.send = wc.send /\ new.deadQueue = wc.deadQueue
      /\ new.deadQueuePointer = wc.deadQueuePointer
      /\ new.Sequence = wc.Sequence + 1
      /\ ~done => new.currPtr = NextSlot(wc.currPtr)
      /\ new \in Conn
  <2>1. NextSlot(wc.currPtr) \in Slot /\ 0 \in Slot /\ wc.Sequence + 1 \in Nat
    BY <1>2, NextSlotType, NewIsContiguous
  <2>2. (IF done THEN "loop" ELSE "drain") \in Phase /\ (IF done THEN 0 ELSE NextSlot(wc.currPtr)) \in Slot
    BY <2>1 DEF Phase
  <2> HIDE DEF done
  <2>3. QED
    BY <1>2, <2>1, <2>2 DEF Conn
<1>4. msg \in ConnMessage /\ msg.seq \in Nat
  BY <1>2, RingFacts
<1>5. /\ \E G \in Nat, t \in Tears : IdNumbered(wc.id, G, t)
      /\ stream[wc.id] \in Seq(Broadcasts)
      /\ \A G \in Nat, t \in Tears : IdNumbered(wc.id, G, t) =>
                     /\ ConnNumbered(wc, stream[wc.id], G, t, broadcasts)
                     /\ t = "torn" => G > 0
  BY <1>1, OwnConn
<1> HIDE DEF new, msg
<1>6. ASSUME NEW G \in Nat, NEW t \in Tears, IdNumbered(wc.id, G, t)
      PROVE  /\ G > 0 /\ msg.seq > 0
             /\ ConnNumbered(new, stream[wc.id], G, t, broadcasts)
             /\ Numbered(msg, stream[wc.id], G, t)
  <2>1. ConnNumbered(wc, stream[wc.id], G, t, broadcasts)
    BY <1>5, <1>6
  <2>2. Numbered(msg, stream[wc.id], G, t)
    BY <1>2, <2>1 DEF ConnNumbered, RingNumbered, msg
  <2>3. msg.seq > 0
    BY <1>1, <2>1 DEF ConnNumbered, PumpNumbered, msg
  <2>4. G > 0
    BY <1>4, <1>5, <1>6, <2>2, <2>3 DEF Numbered
  <2>5. ConnNumbered(new, stream[wc.id], G, t, broadcasts)
    <3>1. IF DrainedTo(wc.deadQueue, wc.deadQueuePointer, wc.currPtr)
             THEN new.phase = "loop"
             ELSE new.phase = "drain" /\ new.currPtr = NextSlot(wc.currPtr)
      BY <1>3
    <3>2. wc.deadQueue[wc.currPtr] # nil
      BY <1>2 DEF msg
    <3> HIDE DEF wc
    <3>3. QED
      BY <1>1, <1>2, <1>3, <2>1, <3>1, <3>2, DrainNumbered
  <2>6. QED
    BY <2>2, <2>3, <2>4, <2>5
<1>7. msg.type # "hello"
  BY <1>5, <1>6 DEF Numbered
<1>8. new.phase \in {"drain", "loop"} /\ new.Sequence # 0 /\ wc.phase \in {"drain", "loop"}
      /\ (wc.phase = "loop" => wc.Sequence # 0)
  BY <1>1, <1>2, <1>3
<1>9. \A G \in Nat, t \in Tears :
         IdNumbered(conn[c].id, G, t) =>
             /\ G > 0
             /\ ConnNumbered(new, stream[conn[c].id], G, t, broadcasts)
             /\ msg.type # "response" => Numbered(msg, stream[conn[c].id], G, t)
  BY <1>6
<1>10. QED
  BY <1>1, <1>3, <1>4, <1>7, <1>8, <1>9, WriteKeeps

(* In its loop writePump has written the hello of a queue that does not    *)
(* begin with one.                                                         *)
LEMMA LoopHead ==
    ASSUME WebSocketInv, StreamInv, NEW c \in Conns, conn[c].phase = "loop",
           conn[c].send # <<>>
    PROVE  LET wc == conn[c]
           IN  /\ wc \in Conn /\ Head(wc.send) = wc.send[1] /\ wc.send[1] \in ConnMessage
               /\ Tail(wc.send) \in Seq(ConnMessage) /\ wc.Sequence \in Nat
               /\ \A G \in Nat, t \in Tears :
                     IdNumbered(wc.id, G, t) /\ wc.send[1].type # "hello" => G > 0
               /\ wc.send[1].type # "hello" => wc.Sequence # 0
<1> DEFINE wc == conn[c]
<1>1. /\ wc \in Conn /\ wc.send \in Seq(ConnMessage) /\ wc.Sequence \in Nat
      /\ Head(wc.send) = wc.send[1] /\ wc.send[1] \in ConnMessage /\ Tail(wc.send) \in Seq(ConnMessage)
  BY OwnConn, ConnFields, QueueFacts
<1>2. ASSUME NEW G \in Nat, NEW t \in Tears, IdNumbered(wc.id, G, t), wc.send[1].type # "hello"
      PROVE  G > 0 /\ wc.Sequence >= G
  <2>1. ConnNumbered(wc, stream[wc.id], G, t, broadcasts)
    BY <1>2, OwnConn
  <2>2. G # 0
    BY <1>2, <2>1 DEF ConnNumbered, QueueNumbered
  <2>3. wc.Sequence >= G
    BY <2>1 DEF ConnNumbered, PumpNumbered
  <2>4. QED
    BY <2>2, <2>3
<1>3. \E G \in Nat, t \in Tears : IdNumbered(wc.id, G, t)
  BY OwnConn
<1>4. wc.send[1].type # "hello" => wc.Sequence # 0
  BY <1>2, <1>3
<1>5. QED
  BY <1>1, <1>2, <1>4

LEMMA ResponseKeeps == ASSUME WebSocketInv, StreamInv, NEW c \in Conns, PumpResponse(c),
                              UNCHANGED <<hubVars, clientVars>>
                       PROVE  StreamInv'
<1> DEFINE wc == conn[c]
           msg == Head(wc.send)
           new == [wc EXCEPT !.send = Tail(@)]
<1>1. /\ wc.phase = "loop" /\ wc.send # <<>> /\ msg.type = "response"
      /\ WriteOrReturn(c, new, msg)
      /\ UNCHANGED <<stream, nextId, broadcasts, clientVars>>
  BY DEF PumpResponse, Receiving, hubVars
<1>2. /\ wc \in Conn /\ msg = wc.send[1] /\ msg \in ConnMessage
      /\ Tail(wc.send) \in Seq(ConnMessage) /\ wc.Sequence \in Nat /\ wc.Sequence # 0
  BY <1>1, LoopHead
<1>3. /\ new.phase = wc.phase /\ new.id = wc.id /\ new.reqId = wc.reqId /\ new.reqSeq = wc.reqSeq
      /\ new.send = Tail(wc.send) /\ new.deadQueue = wc.deadQueue
      /\ new.deadQueuePointer = wc.deadQueuePointer /\ new.Sequence = wc.Sequence
      /\ new \in Conn
  BY <1>2 DEF Conn
<1> HIDE DEF new
<1>4. ASSUME NEW G \in Nat, NEW t \in Tears, IdNumbered(wc.id, G, t)
      PROVE  G > 0 /\ ConnNumbered(new, stream[wc.id], G, t, broadcasts)
  <2>1. ConnNumbered(wc, stream[wc.id], G, t, broadcasts) /\ stream[wc.id] \in Seq(Broadcasts)
    BY <1>1, <1>4, OwnConn
  <2>2. G > 0
    BY <1>1, <1>2, <1>4, LoopHead
  <2>3. wc.send[1].type # "hello" /\ ~IsShown(wc.send[1])
    BY <1>1, <1>2 DEF IsShown
  <2> HIDE DEF wc
  <2>4. QED
    BY <1>1, <1>2, <1>3, <2>1, <2>2, <2>3, SkipNumbered
<1>5. \A G \in Nat, t \in Tears :
         IdNumbered(conn[c].id, G, t) =>
             /\ G > 0
             /\ ConnNumbered(new, stream[conn[c].id], G, t, broadcasts)
             /\ msg.type # "response" => Numbered(msg, stream[conn[c].id], G, t)
  BY <1>1, <1>4
<1>6. /\ new.phase \in {"drain", "loop"} /\ new.Sequence # 0 /\ wc.phase \in {"drain", "loop"}
      /\ wc.phase = "loop" => wc.Sequence # 0
      /\ msg.type # "hello"
  BY <1>1, <1>2, <1>3
<1> HIDE DEF msg
<1>7. QED
  BY <1>1, <1>2, <1>3, <1>5, <1>6, WriteKeeps

LEMMA SkipKeeps == ASSUME WebSocketInv, StreamInv, NEW c \in Conns, PumpSkip(c),
                          UNCHANGED <<hubVars, clientVars>>
                   PROVE  StreamInv'
<1> DEFINE wc == conn[c]
           msg == Head(wc.send)
           S == IF msg.val \in Rejected THEN wc.Sequence ELSE wc.Sequence + 1
           new == [wc EXCEPT !.send = Tail(@), !.Sequence = S]
<1>1. /\ wc.phase = "loop" /\ wc.send # <<>> /\ msg.type = "event" /\ ~Deliverable(msg.val)
      /\ UNCHANGED <<sock, stream, nextId, broadcasts, clientVars>>
  BY DEF PumpSkip, Receiving, hubVars
<1>2. /\ wc \in Conn /\ msg = wc.send[1] /\ msg \in ConnMessage
      /\ Tail(wc.send) \in Seq(ConnMessage) /\ wc.Sequence \in Nat
      /\ wc.Sequence # 0
  BY <1>1, LoopHead
<1>3. conn' = [conn EXCEPT ![c] = new]
  BY DEF PumpSkip, WebSocketInv, ServerTypeOK
<1>4. /\ new.phase = wc.phase /\ new.id = wc.id /\ new.reqId = wc.reqId /\ new.reqSeq = wc.reqSeq
      /\ new.send = Tail(wc.send) /\ new.deadQueue = wc.deadQueue
      /\ new.deadQueuePointer = wc.deadQueuePointer
      /\ new.Sequence = wc.Sequence \/ new.Sequence = wc.Sequence + 1
  <2> HIDE DEF msg
  <2>1. QED
    BY <1>2 DEF Conn
<1> HIDE DEF new
<1>5. ASSUME NEW G \in Nat, NEW t \in Tears, IdNumbered(wc.id, G, t)
      PROVE  ConnNumbered(new, stream[wc.id], G, t, broadcasts)
  <2>1. ConnNumbered(wc, stream[wc.id], G, t, broadcasts) /\ stream[wc.id] \in Seq(Broadcasts)
    BY <1>1, <1>5, OwnConn
  <2>2. wc.send[1].type # "hello" /\ ~IsShown(wc.send[1])
    BY <1>1, <1>2 DEF IsShown
  <2> HIDE DEF wc
  <2>3. QED
    BY <1>1, <1>2, <1>4, <2>1, <2>2, SkipNumbered
<1>6. ASSUME client.conn = c
      PROVE  Peer(new, sock[c].up, sock[c].toClient, client.connectionId, client.serverSequence)
  <2>1. Peer(wc, sock[c].up, sock[c].toClient, client.connectionId, client.serverSequence)
    BY <1>6, NoConnAssumption DEF StreamInv, PeerInv, Pending
  <2>2. new.Sequence # 0
    BY <1>2, <1>4
  <2>3. QED
    BY <1>1, <1>2, <1>4, <2>1, <2>2 DEF Peer
<1>7. /\ sock'[c].toClient = sock[c].toClient /\ \A d \in Conns : d # c => sock'[d] = sock[d]
      /\ client.conn = c =>
           Peer(new, sock'[c].up, sock[c].toClient, client.connectionId, client.serverSequence)
      /\ new.phase \in {"start", "loop"} => conn[c].phase \in {"start", "loop"}
      /\ conn[c].phase \in Pumping /\ new.phase \in Pumping
  BY <1>1, <1>4, <1>6 DEF Pumping
<1>8. QED
  BY <1>1, <1>3, <1>4, <1>5, <1>7, QuietPump

(* writePump begins: with nothing to resume, with nothing to replay or with*)
(* a replay. Whom it has to resume, the client has named.                  *)
LEMMA StartKeeps ==
    ASSUME WebSocketInv, StreamInv, NEW c \in Conns,
           StartFresh(c) \/ StartLossless(c) \/ StartFound(c),
           UNCHANGED <<hubVars, clientVars>>
    PROVE  StreamInv'
<1> DEFINE wc == conn[c]
           new == IF StartFound(c)
                    THEN [wc EXCEPT !.phase = "drain",
                                    !.currPtr = IndexInDeadQueue(wc.deadQueue, wc.Sequence)]
                    ELSE [wc EXCEPT !.phase = "loop"]
<1>1. /\ wc.phase = "start" /\ UNCHANGED <<sock, stream, nextId, broadcasts, clientVars>>
  BY DEF StartFresh, StartLossless, StartFound, hubVars
<1>2. /\ wc \in Conn /\ Contiguous(wc.deadQueue, wc.deadQueuePointer) /\ wc.Sequence \in Nat
  BY <1>1, OwnConn, ConnFields
<1>3. conn' = [conn EXCEPT ![c] = new]
  <2>1. StartFound(c) => ~StartFresh(c) /\ ~StartLossless(c)
    BY DEF StartFresh, StartLossless, StartFound
  <2>2. CASE StartFound(c)
    BY <2>2 DEF StartFound
  <2>3. CASE ~StartFound(c)
    BY <2>3 DEF StartFresh, StartLossless, WebSocketInv, ServerTypeOK
  <2>4. QED
    BY <2>2, <2>3
<1>4. /\ new.phase = (IF StartFound(c) THEN "drain" ELSE "loop")
      /\ new.id = wc.id /\ new.reqId = wc.reqId /\ new.reqSeq = wc.reqSeq
      /\ new.send = wc.send /\ new.deadQueue = wc.deadQueue
      /\ new.deadQueuePointer = wc.deadQueuePointer /\ new.Sequence = wc.Sequence
      /\ StartFound(c) => new.currPtr = IndexInDeadQueue(wc.deadQueue, wc.Sequence)
  BY <1>2 DEF Conn
<1> HIDE DEF new
<1>5. ASSUME NEW G \in Nat, NEW t \in Tears, IdNumbered(wc.id, G, t)
      PROVE  ConnNumbered(new, stream[wc.id], G, t, broadcasts)
  <2>1. ConnNumbered(wc, stream[wc.id], G, t, broadcasts) /\ (t = "torn" => G > 0)
    BY <1>1, <1>5, OwnConn
  <2>2. CASE StartFound(c)
    <3>1. /\ new.phase = "drain" /\ wc.Sequence # 0
          /\ isInDeadQueue(wc.deadQueue, wc.Sequence)
          /\ new.currPtr = IndexInDeadQueue(wc.deadQueue, wc.Sequence)
      BY <1>4, <2>2 DEF StartFound
    <3> HIDE DEF wc
    <3>2. QED
      BY <1>1, <1>2, <1>4, <2>1, <3>1, StartsDrain
  <2>3. CASE ~StartFound(c)
    <3>1. new.phase = "loop"
      BY <1>4, <2>3
    <3>2. wc.Sequence # 0 => ~hasMsgLoss(wc.deadQueue, wc.deadQueuePointer, wc.Sequence)
      BY <2>3 DEF StartFresh, StartLossless
    <3> HIDE DEF wc
    <3>3. QED
      BY <1>1, <1>2, <1>4, <2>1, <3>1, <3>2, StartsLoop
  <2>4. QED
    BY <2>2, <2>3
<1>6. ASSUME client.conn = c
      PROVE  Peer(new, sock[c].up, sock[c].toClient, client.connectionId, client.serverSequence)
  <2>1. Peer(wc, sock[c].up, sock[c].toClient, client.connectionId, client.serverSequence)
    BY <1>6, NoConnAssumption DEF StreamInv, PeerInv, Pending
  <2>2. sock[c].toClient = <<>>
    BY <1>1, <2>1 DEF Peer
  <2>3. HeardId(<<>>, client.connectionId) = client.connectionId
    BY DEF HeardId
  <2>4. StartFound(c) => wc.Sequence # 0
    BY DEF StartFound
  <2>5. wc.Sequence # 0 => wc.id = client.connectionId
    BY <1>1, <2>1 DEF Peer
  <2>6. QED
    BY <1>4, <2>1, <2>2, <2>3, <2>4, <2>5 DEF Peer
<1>7. /\ sock'[c].toClient = sock[c].toClient /\ \A d \in Conns : d # c => sock'[d] = sock[d]
      /\ client.conn = c =>
           Peer(new, sock'[c].up, sock[c].toClient, client.connectionId, client.serverSequence)
      /\ new.phase \in {"start", "loop"} => conn[c].phase \in {"start", "loop"}
      /\ conn[c].phase \in Pumping /\ new.phase \in Pumping
  BY <1>1, <1>4, <1>6 DEF Pumping
<1>8. QED
  BY <1>1, <1>3, <1>4, <1>5, <1>7, QuietPump

LEMMA ReadKeeps == ASSUME WebSocketInv, StreamInv, NEW c \in Conns, ReadFails(c),
                          UNCHANGED <<hubVars, clientVars>>
                   PROVE  StreamInv'
<1> DEFINE wc == conn[c]
           new == [wc EXCEPT !.reading = FALSE]
<1>1. /\ wc.phase \in Pumping /\ UNCHANGED <<sock, stream, nextId, broadcasts, clientVars>>
      /\ conn' = [conn EXCEPT ![c] = new]
  BY DEF ReadFails, hubVars, WebSocketInv, ServerTypeOK
<1>2. wc \in Conn
  BY ConnType DEF WebSocketInv
<1>3. /\ new.phase = wc.phase /\ new.id = wc.id /\ new.reqId = wc.reqId /\ new.reqSeq = wc.reqSeq
      /\ new.send = wc.send /\ new.deadQueue = wc.deadQueue /\ new.reuse = wc.reuse
      /\ new.deadQueuePointer = wc.deadQueuePointer /\ new.Sequence = wc.Sequence
      /\ new.currPtr = wc.currPtr
  BY <1>2 DEF Conn
<1> HIDE DEF new
<1>4. ASSUME NEW G \in Nat, NEW t \in Tears, IdNumbered(wc.id, G, t)
      PROVE  ConnNumbered(new, stream[wc.id], G, t, broadcasts)
  <2>1. ConnNumbered(wc, stream[wc.id], G, t, broadcasts)
    BY <1>1, <1>4, OwnConn DEF Pumping
  <2> HIDE DEF wc
  <2>2. QED
    BY <1>3, <2>1, ConnSame
<1>5. ASSUME client.conn = c
      PROVE  Peer(new, sock[c].up, sock[c].toClient, client.connectionId, client.serverSequence)
  <2>1. Peer(wc, sock[c].up, sock[c].toClient, client.connectionId, client.serverSequence)
    BY <1>5, NoConnAssumption DEF StreamInv, PeerInv, Pending
  <2>2. QED
    BY <1>3, <2>1 DEF Peer
<1>6. /\ sock'[c].toClient = sock[c].toClient /\ \A d \in Conns : d # c => sock'[d] = sock[d]
      /\ client.conn = c =>
           Peer(new, sock'[c].up, sock[c].toClient, client.connectionId, client.serverSequence)
      /\ new.phase \in {"start", "loop"} => conn[c].phase \in {"start", "loop"}
      /\ conn[c].phase \in Pumping /\ new.phase \in Pumping
  BY <1>1, <1>3, <1>5
<1>7. QED
  BY <1>1, <1>3, <1>4, <1>6, QuietPump

LEMMA EndKeeps == ASSUME WebSocketInv, StreamInv, NEW c \in Conns,
                         PumpClosed(c) \/ PumpEnds(c), UNCHANGED <<hubVars, clientVars>>
                  PROVE  StreamInv'
<1>1. /\ conn[c].phase = "loop" /\ PumpReturns(c, conn[c])
      /\ UNCHANGED <<stream, nextId, broadcasts, clientVars>>
  BY DEF PumpClosed, PumpEnds, hubVars
<1>2. /\ conn[c] \in Conn
      /\ \A G \in Nat, t \in Tears : IdNumbered(conn[c].id, G, t) =>
            ConnNumbered(conn[c], stream[conn[c].id], G, t, broadcasts)
  BY <1>1, OwnConn
<1>3. conn[c].phase \in Pumping /\ conn[c].phase # "checked"
  BY <1>1 DEF Pumping
<1>4. QED
  BY <1>1, <1>2, <1>3, ReturnKeeps

-----------------------------------------------------------------------------
(* A new event is written.                                                 *)

LEMMA IdGrows ==
    ASSUME UNCHANGED <<broadcasts, clientVars>>, NEW k \in Ids,
           stream'[k] = stream[k], k >= nextId' => k >= nextId,
           NEW G \in Nat, NEW t \in Tears, NEW G2 \in Nat, NEW t2 \in Tears,
           IdNumbered(k, G, t), Grows(G, t, G2, t2), G2 <= Len(stream[k]) + 1,
           t2 = "torn" => G2 > 0, k >= nextId => G2 = 0 /\ t2 = "whole",
           \A d \in Conns : conn'[d].id = k => ConnNumbered(conn'[d], stream[k], G2, t2, broadcasts),
           \A d \in Conns : conn'[d].reqId = conn[d].reqId /\ conn'[d].reqSeq = conn[d].reqSeq,
           client.conn # NoConn =>
              Wire(sock'[client.conn].toClient, client.connectionId, last, k, stream[k], G2, t2),
           /\ client.conn # NoConn
           /\ conn'[client.conn].id = k
           /\ conn'[client.conn].phase \in {"checked", "start", "loop"}
           /\ G2 = 0
           => \/ conn[client.conn].id = k /\ conn[client.conn].phase \in {"checked", "start", "loop"}
              \/ After(last, stream[k], 1)
    PROVE  IdNumbered(k, G2, t2)'
<1>0. G <= G2 /\ (G2 = 0 => G = 0)
  BY DEF Grows
<1>1. /\ (k >= nextId => G2 = 0 /\ t2 = "whole" /\ stream[k] = <<>>)'
      /\ (G2 <= Len(stream[k]) + 1)'
      /\ t2 = "torn" => G2 > 0
  BY DEF IdNumbered
<1>2. \A c \in Conns : conn'[c].id = k => ConnNumbered(conn'[c], stream'[k], G2, t2, broadcasts')
  OBVIOUS
<1>3. \A c \in Conns : conn'[c].reqId = k => conn'[c].reqSeq \in 1 .. G2
  <2>1. \A c \in Conns : conn'[c].reqId = k => conn'[c].reqSeq \in 1 .. G
    BY DEF IdNumbered
  <2>2. QED
    BY <1>0, <2>1
<1>4. ClientNumbered(k, stream[k], G2)'
  <2>1. client' = client /\ last' = last /\ got' = got /\ stream'[k] = stream[k]
    BY DEF clientVars
  <2>2. client.connectionId = k => client.serverSequence \in 1 .. G2
    <3>1. client.connectionId = k => client.serverSequence \in 1 .. G
      BY DEF IdNumbered, ClientNumbered
    <3>2. QED
      BY <1>0, <3>1
  <2>3. ClientNumbered(k, stream[k], G)
    BY DEF IdNumbered
  <2>4. QED
    BY <2>1, <2>2, <2>3 DEF ClientNumbered
<1>5. PendingNumbered(k, stream[k], G2, t2)'
  <2>1. client' = client /\ last' = last /\ stream'[k] = stream[k]
    BY DEF clientVars
  <2>2. ASSUME client.conn # NoConn, conn'[client.conn].id = k, G2 = 0,
               conn'[client.conn].phase \in {"checked", "start", "loop"}
        PROVE  After(last, stream[k], 1)
    <3>1. \/ conn[client.conn].id = k /\ conn[client.conn].phase \in {"checked", "start", "loop"}
          \/ After(last, stream[k], 1)
      BY <2>2
    <3>2. QED
      BY <1>0, <2>2, <3>1 DEF IdNumbered, PendingNumbered
  <2>3. QED
    BY <2>1, <2>2 DEF PendingNumbered, Pending
<1>6. QED
  BY <1>1, <1>2, <1>3, <1>4, <1>5 DEF IdNumbered

(* The message at the head of send is given the next number.               *)
LEMMA EventIsNumbered ==
    ASSUME WebSocketInv, StreamInv, NEW c \in Conns,
           conn[c].phase = "loop", conn[c].send # <<>>,
           NEW new, NEW msg \in ConnMessage,
           msg.type = conn[c].send[1].type, msg.val = conn[c].send[1].val,
           msg.seq = conn[c].Sequence, msg.type # "response",
           msg.type = "event" => Deliverable(msg.val),
           new.phase = "loop", new.id = conn[c].id, new.send = Tail(conn[c].send),
           new.deadQueue = addToDeadQueue(conn[c].deadQueue, conn[c].deadQueuePointer, msg),
           new.deadQueuePointer = NextSlot(conn[c].deadQueuePointer),
           new.Sequence = conn[c].Sequence + 1,
           NEW G \in Nat, NEW t \in Tears, IdNumbered(conn[c].id, G, t)
    PROVE  /\ \E G2 \in Nat, t2 \in Tears :
                 /\ Grows(G, t, G2, t2) /\ G2 > 0
                 /\ G2 <= Len(stream[conn[c].id]) + 1
                 /\ ConnNumbered(new, stream[conn[c].id], G2, t2, broadcasts)
                 /\ Numbered(msg, stream[conn[c].id], G2, t2)
           /\ msg.type = "hello" => G = 0 /\ conn[c].Sequence = 0 /\ msg.val = conn[c].id
           /\ msg.type = "event" => conn[c].Sequence # 0
<1> DEFINE wc == conn[c]
           s == stream[wc.id]
<1>1. /\ wc \in Conn /\ s \in Seq(Broadcasts) /\ Increasing(s)
      /\ Contiguous(wc.deadQueue, wc.deadQueuePointer)
      /\ ConnNumbered(wc, s, G, t, broadcasts)
      /\ G <= Len(s) + 1 /\ (t = "torn" => G > 0) /\ Len(s) \in Nat
  BY OwnConn, StreamType
<1>2. msg.type \in {"hello", "event"}
  BY DEF ConnMessage, Message
<1>3. /\ wc.phase = "loop" /\ wc.send # <<>> /\ new.id = wc.id /\ new.send = Tail(wc.send)
      /\ msg.type = wc.send[1].type /\ msg.val = wc.send[1].val /\ msg.seq = wc.Sequence
      /\ new.deadQueue = addToDeadQueue(wc.deadQueue, wc.deadQueuePointer, msg)
      /\ new.deadQueuePointer = NextSlot(wc.deadQueuePointer)
      /\ new.Sequence = wc.Sequence + 1
  OBVIOUS
<1>4. CASE msg.type = "hello"
  <2>1. /\ G = 0 /\ t = "whole" /\ wc.Sequence = 0
        /\ wc.send[1].val = wc.id
        /\ ConnNumbered(new, s, 1, "whole", broadcasts)
        /\ Numbered(msg, s, 1, "whole")
    <3> HIDE DEF wc, s
    <3>1. QED
      BY ZenonT(30), <1>1, <1>3, <1>4, HelloNumbered
  <2>2. 1 \in Nat /\ "whole" \in Tears /\ Grows(G, t, 1, "whole") /\ 1 > 0 /\ 1 <= Len(s) + 1
    BY <1>1, <2>1 DEF Grows, Tears
  <2>3. QED
    BY <1>3, <1>4, <2>1, <2>2
<1>5. CASE msg.type = "event"
  <2>1. IsShown(wc.send[1])
    BY <1>3, <1>5 DEF IsShown
  <2>2. /\ G > 0 /\ wc.Sequence > 0
        /\ \E G2 \in Nat, t2 \in Tears :
             /\ (G2 = G /\ t2 = "torn") \/ (G2 = G + 1 /\ t = "whole" /\ t2 = "whole")
             /\ G2 <= Len(s) + 1
             /\ ConnNumbered(new, s, G2, t2, broadcasts)
             /\ Numbered(msg, s, G2, t2)
    <3> HIDE DEF wc, s
    <3>1. QED
      BY <1>1, <1>3, <1>5, <2>1, EventNumbered
  <2>3. PICK G2 \in Nat, t2 \in Tears :
             /\ (G2 = G /\ t2 = "torn") \/ (G2 = G + 1 /\ t = "whole" /\ t2 = "whole")
             /\ G2 <= Len(s) + 1
             /\ ConnNumbered(new, s, G2, t2, broadcasts)
             /\ Numbered(msg, s, G2, t2)
    BY <2>2
  <2>4. Grows(G, t, G2, t2) /\ G2 > 0
    BY <2>2, <2>3 DEF Grows
  <2>5. wc.Sequence # 0
    BY <2>2
  <2>6. QED
    BY <1>5, <2>3, <2>4, <2>5
<1>6. QED
  BY <1>2, <1>4, <1>5

LEMMA EventKeeps == ASSUME WebSocketInv, StreamInv, NEW c \in Conns, PumpEvent(c),
                           UNCHANGED <<hubVars, clientVars>>
                    PROVE  StreamInv'
<1> DEFINE wc == conn[c]
           p == sock[c].toClient
           cid == client.connectionId
           ss == client.serverSequence
           msg == [Head(wc.send) EXCEPT !.seq = wc.Sequence]
           r == Append(p, msg)
           new == [wc EXCEPT
                     !.send = Tail(@),
                     !.Sequence = @ + 1,
                     !.deadQueue = addToDeadQueue(@, wc.deadQueuePointer, msg),
                     !.deadQueuePointer = NextSlot(@)]
           after == conn'[c]
<1>1. /\ wc.phase = "loop" /\ wc.send # <<>> /\ Head(wc.send).type # "response"
      /\ Head(wc.send).type = "event" => Deliverable(Head(wc.send).val)
      /\ WriteOrReturn(c, new, msg)
      /\ UNCHANGED <<stream, nextId, broadcasts, clientVars>>
  BY DEF PumpEvent, Receiving, hubVars
<1>h. PICK h \in Ids : h = wc.id
  BY <1>1, OwnConn
<1>2. /\ wc \in Conn /\ Head(wc.send) = wc.send[1] /\ wc.send[1] \in ConnMessage
      /\ Tail(wc.send) \in Seq(ConnMessage) /\ wc.Sequence \in Nat
  BY <1>1, LoopHead
<1>3. /\ msg \in ConnMessage /\ msg.type = wc.send[1].type /\ msg.val = wc.send[1].val
      /\ msg.seq = wc.Sequence /\ msg.type # "response"
      /\ msg.type = "event" => Deliverable(msg.val)
      /\ msg.type \in {"hello", "event"}
  BY <1>1, <1>2 DEF ConnMessage, Message
<1> HIDE DEF msg
<1>4. /\ new.phase = "loop" /\ new.id = h /\ new.reqId = wc.reqId /\ new.reqSeq = wc.reqSeq
      /\ new.send = Tail(wc.send) /\ new.Sequence = wc.Sequence + 1
      /\ new.deadQueue = addToDeadQueue(wc.deadQueue, wc.deadQueuePointer, msg)
      /\ new.deadQueuePointer = NextSlot(wc.deadQueuePointer)
      /\ new.reuse = wc.reuse
  BY <1>1, <1>2, <1>h DEF Conn
<1>5. /\ [new EXCEPT !.phase = "ended"].phase = "ended"
      /\ [new EXCEPT !.phase = "ended"].id = new.id
      /\ [new EXCEPT !.phase = "ended"].reqId = new.reqId
      /\ [new EXCEPT !.phase = "ended"].reqSeq = new.reqSeq
      /\ [new EXCEPT !.phase = "ended"].send = new.send
      /\ [new EXCEPT !.phase = "ended"].deadQueue = new.deadQueue
      /\ [new EXCEPT !.phase = "ended"].deadQueuePointer = new.deadQueuePointer
  BY <1>2 DEF Conn
<1> HIDE DEF new
<1>6. /\ conn \in [Conns -> Conn] /\ sock \in [Conns -> Socket] /\ sock[c] \in Socket
      /\ p \in Seq(ConnMessage)
      /\ client.conn # NoConn => client.conn \in Conns
  BY ConnType DEF WebSocketInv, ServerTypeOK, ClientTypeOK, Client
(* The two ways: written, or writePump returns.                            *)
<1>7. /\ conn' = [conn EXCEPT ![c] = after]
      /\ \A d \in Conns : d # c => conn'[d] = conn[d] /\ sock'[d] = sock[d]
      /\ \/ after = new /\ sock'[c].up = sock[c].up
            /\ sock'[c].toClient = IF sock[c].up THEN r ELSE p
         \/ after.phase = "ended" /\ sock'[c].toClient = p
      /\ after.id = h /\ after.reqId = wc.reqId /\ after.reqSeq = wc.reqSeq
      /\ after.phase \in {"loop", "ended"} /\ after.send = new.send
      /\ after.deadQueue = new.deadQueue /\ after.deadQueuePointer = new.deadQueuePointer
  <2>1. CASE conn' = [conn EXCEPT ![c] = new] /\ Written(c, msg)
    BY <1>4, <1>6, <2>1 DEF Written, Socket
  <2>2. CASE PumpReturns(c, new)
    BY <1>4, <1>5, <1>6, <2>2 DEF PumpReturns, Socket
  <2>3. QED
    BY <1>1, <2>1, <2>2 DEF WriteOrReturn
<1>8. h \in Ids /\ h # 0 /\ h < nextId
  BY <1>h, WebConnAssumption DEF Ids, WebSocketInv, IdsAreOld
<1>9. PICK G \in Nat, t \in Tears : IdNumbered(h, G, t)
  BY <1>1, <1>h, OwnConn
<1>10. /\ \E G2 \in Nat, t2 \in Tears :
             /\ Grows(G, t, G2, t2) /\ G2 > 0
             /\ G2 <= Len(stream[h]) + 1
             /\ ConnNumbered(new, stream[h], G2, t2, broadcasts)
             /\ Numbered(msg, stream[h], G2, t2)
       /\ msg.type = "hello" => G = 0 /\ wc.Sequence = 0 /\ msg.val = h
       /\ msg.type = "event" => wc.Sequence # 0
  BY <1>1, <1>h, <1>3, <1>4, <1>9, EventIsNumbered
<1>11. PICK G2 \in Nat, t2 \in Tears :
             /\ Grows(G, t, G2, t2) /\ G2 > 0
             /\ G2 <= Len(stream[h]) + 1
             /\ ConnNumbered(new, stream[h], G2, t2, broadcasts)
             /\ Numbered(msg, stream[h], G2, t2)
  BY <1>10
<1>12. ConnNumbered(after, stream[h], G2, t2, broadcasts)
  <2>1. CASE after = new
    BY <1>11, <2>1
  <2>2. CASE after.phase = "ended"
    <3>1. new.phase # "checked" /\ after.phase \in {"ended", "parked"} /\ after.id = new.id
      BY <1>4, <1>7, <2>2
    <3> HIDE DEF after
    <3>2. QED
      BY <1>7, <1>11, <3>1, ConnEnds
  <2>3. QED
    BY <1>7, <2>1, <2>2
(* What the client hears, if this is its connection and it is written.     *)
<1>13. ASSUME client.conn = c
       PROVE  /\ Peer(wc, sock[c].up, p, cid, ss)
              /\ sock[c].up => HeardId(r, cid) = h
              /\ msg.type = "hello" => p = <<>>
  <2>1. Peer(wc, sock[c].up, p, cid, ss)
    BY <1>13, NoConnAssumption DEF StreamInv, PeerInv, Pending
  <2>2. HeardId(r, cid) = IF p = <<>> /\ msg.type = "hello" THEN msg.val ELSE HeardId(p, cid)
    BY <1>3, <1>6, HeardAppend
  <2>3. msg.type = "hello" => p = <<>>
    BY <1>1, <1>10, <2>1 DEF Peer
  <2>4. msg.type = "event" /\ sock[c].up => HeardId(p, cid) = h
    BY <1>1, <1>h, <1>10, <2>1 DEF Peer
  <2>5. QED
    BY <1>3, <1>10, <2>1, <2>2, <2>3, <2>4
<1>14. PeerInv'
  <2>1. SUFFICES ASSUME client.conn # NoConn
                 PROVE  Peer(conn'[client.conn], sock'[client.conn].up, sock'[client.conn].toClient, cid, ss)
    BY <1>1 DEF PeerInv, Pending, clientVars
  <2>2. CASE client.conn # c
    BY <1>6, <1>7, <2>1, <2>2 DEF StreamInv, PeerInv, Pending
  <2>3. CASE client.conn = c
    <3>1. Peer(wc, sock[c].up, p, cid, ss) /\ (sock[c].up => HeardId(r, cid) = h)
          /\ (msg.type = "hello" => p = <<>>)
      BY <1>13, <2>3
    <3>2. CASE sock'[c].toClient = p
      <4>1. CASE after.phase = "ended"
        BY <2>3, <3>1, <3>2, <4>1 DEF Peer
      <4>2. CASE after = new /\ sock'[c].up = sock[c].up /\ ~sock[c].up
        BY <1>2, <1>4, <2>3, <3>1, <3>2, <4>2 DEF Peer
      <4>3. CASE after = new /\ sock[c].up
        <5>1. p = r
          BY <1>7, <3>2, <4>3, <1>4
        <5>2. Len(r) = Len(p) + 1 /\ Len(p) \in Nat
          BY <1>3, <1>6, AppendFacts
        <5>3. QED
          BY <5>1, <5>2
      <4>4. QED
        BY <1>7, <4>1, <4>2, <4>3
    <3>3. CASE sock'[c].toClient = r /\ sock[c].up /\ after = new
      <4>1. /\ Len(r) = Len(p) + 1 /\ r[Len(p) + 1] = msg /\ Len(p) \in Nat
            /\ \A i \in 1 .. Len(p) : r[i] = p[i]
        BY <1>3, <1>6, AppendFacts
      <4> HIDE DEF r
      <4>2. ASSUME NEW i \in 1 .. Len(r), r[i].type = "hello" PROVE i = 1 /\ r[i].seq = 0
        <5>1. CASE i \in 1 .. Len(p)
          BY <3>1, <4>1, <4>2, <5>1 DEF Peer
        <5>2. CASE i = Len(p) + 1
          <6>1. msg.type = "hello" /\ p = <<>> /\ r[i] = msg
            BY <3>1, <4>1, <4>2, <5>2
          <6>2. Len(p) = 0
            BY <6>1
          <6>3. msg.seq = 0
            BY <1>3, <1>10, <6>1
          <6>4. QED
            BY <5>2, <6>1, <6>2, <6>3
        <5>3. QED
          BY <4>1, <4>2, <5>1, <5>2
      <4>3. new.Sequence # 0 /\ new.phase = "loop" /\ new.id = h /\ HeardId(r, cid) = h
        BY <1>2, <1>4, <3>1, <3>3
      <4>4. Peer(new, sock'[c].up, r, cid, ss)
        BY <1>8, <4>2, <4>3 DEF Peer
      <4>5. QED
        BY <2>3, <3>3, <4>4
    <3>4. QED
      BY <1>7, <3>2, <3>3
  <2>4. QED
    BY <2>2, <2>3
(* The numbers of the other streams, and of this one.                      *)
<1>15. \A d \in Conns : conn'[d].reqId = conn[d].reqId /\ conn'[d].reqSeq = conn[d].reqSeq
  BY <1>7
<1>16. ASSUME NEW k \in Ids, k # h, NEW Gk \in Nat, NEW tk \in Tears, IdNumbered(k, Gk, tk)
       PROVE  IdNumbered(k, Gk, tk)'
  <2>1. \A d \in Conns : conn'[d].id = k => ConnNumbered(conn'[d], stream[k], Gk, tk, broadcasts)
    BY <1>7, <1>16 DEF IdNumbered
  <2>2. ASSUME client.conn # NoConn
        PROVE  Wire(sock'[client.conn].toClient, cid, last, k, stream[k], Gk, tk)
    <3>1. Wire(sock[client.conn].toClient, cid, last, k, stream[k], Gk, tk)
      BY <1>16, <2>2 DEF IdNumbered, PendingNumbered, Pending
    <3>2. CASE client.conn # c \/ sock'[c].toClient = p
      BY <1>6, <1>7, <2>2, <3>1, <3>2
    <3>3. CASE client.conn = c /\ sock'[c].toClient = r /\ sock[c].up
      BY <1>13, <1>16, <3>3 DEF Wire
    <3>4. QED
      BY <1>7, <3>2, <3>3
  <2>3. /\ client.conn # NoConn
        /\ conn'[client.conn].id = k
        /\ conn'[client.conn].phase \in {"checked", "start", "loop"}
        /\ Gk = 0
        => \/ conn[client.conn].id = k /\ conn[client.conn].phase \in {"checked", "start", "loop"}
           \/ After(last, stream[k], 1)
    BY <1>6, <1>7, <1>16
  <2>4. Grows(Gk, tk, Gk, tk) /\ Gk <= Len(stream[k]) + 1 /\ (tk = "torn" => Gk > 0)
        /\ (k >= nextId => Gk = 0 /\ tk = "whole") /\ stream'[k] = stream[k]
        /\ (k >= nextId' => k >= nextId)
    BY <1>1, <1>16 DEF Grows, IdNumbered
  <2>5. QED
    BY <1>1, <1>15, <1>16, <2>1, <2>2, <2>3, <2>4, IdGrows
<1>17. IdNumbered(h, G2, t2)'
  <2>1. \A d \in Conns : conn'[d].id = h => ConnNumbered(conn'[d], stream[h], G2, t2, broadcasts)
    <3>1. \A d \in Conns : conn'[d].id = h => d = c
      BY <1>7, <1>8, <1>h DEF WebSocketInv, OneConnPerId
    <3>2. QED
      BY <1>12, <3>1
  <2>2. ASSUME client.conn # NoConn
        PROVE  Wire(sock'[client.conn].toClient, cid, last, h, stream[h], G2, t2)
    <3>1. Wire(sock[client.conn].toClient, cid, last, h, stream[h], G, t)
      BY <1>9, <2>2 DEF IdNumbered, PendingNumbered, Pending
    <3>2. /\ stream[h] \in Seq(Broadcasts) /\ Continues(stream[h], stream[h])
          /\ sock[client.conn].toClient \in Seq(ConnMessage)
      <4>1. stream[h] \in Seq(Broadcasts)
        BY <1>1, <1>h, OwnConn
      <4>2. Len(stream[h]) <= Len(stream[h])
        BY <4>1, StreamType
      <4>3. QED
        BY <1>6, <2>2, <4>1, <4>2 DEF Continues, Socket
    <3>3. Wire(sock[client.conn].toClient, cid, last, h, stream[h], G2, t2)
      BY <1>11, <3>1, <3>2, WireKept
    <3>4. CASE client.conn # c \/ sock'[c].toClient = p
      BY <1>6, <1>7, <2>2, <3>3, <3>4
    <3>5. CASE client.conn = c /\ sock'[c].toClient = r /\ sock[c].up
      <4>1. p = <<>> /\ msg.type = "hello" => G2 > 0 /\ After(last, stream[h], 1)
        <5>1. G = 0 /\ client.conn = c /\ client.conn # NoConn => After(last, stream[h], 1)
          BY <1>1, <1>h, <1>9 DEF IdNumbered, PendingNumbered
        <5>2. QED
          BY <1>10, <1>11, <2>2, <3>5, <5>1
      <4>2. Wire(p, cid, last, h, stream[h], G2, t2)
        BY <3>3, <3>5
      <4>3. Wire(r, cid, last, h, stream[h], G2, t2)
        BY <1>3, <1>6, <1>11, <4>1, <4>2, WireAppend
      <4>4. QED
        BY <3>5, <4>3
    <3>6. QED
      BY <1>7, <3>4, <3>5
  <2>3. h >= nextId => G2 = 0 /\ t2 = "whole"
    <3>1. nextId \in Nat /\ h \in Nat
      BY <1>8, WebConnAssumption DEF WebSocketInv, ServerTypeOK, Ids
    <3>2. QED
      BY <1>8, <3>1
  <2>4. G2 # 0 /\ stream'[h] = stream[h] /\ (h >= nextId' => h >= nextId)
    BY <1>1, <1>11
  <2>5. QED
    BY <1>1, <1>8, <1>9, <1>11, <1>15, <2>1, <2>2, <2>3, <2>4, IdGrows
<1>18. StreamNumbered'
  <2> SUFFICES ASSUME NEW k \in Ids PROVE \E Gk \in Nat, tk \in Tears : IdNumbered(k, Gk, tk)'
    BY DEF StreamNumbered
  <2>1. CASE k = h
    BY <1>17, <2>1
  <2>2. CASE k # h
    <3>1. PICK Gk \in Nat, tk \in Tears : IdNumbered(k, Gk, tk)
      BY DEF StreamInv, StreamNumbered
    <3>2. QED
      BY <1>16, <2>2, <3>1
  <2>3. QED
    BY <2>1, <2>2
<1>19. IdsAreGiven'
  <2>1. \A d \in Conns : d # c => conn'[d] = conn[d]
    BY <1>7
  <2>2. after.id # 0 /\ after.phase \notin {"free", "upgraded"}
    BY <1>7, <1>8
  <2>3. QED
    BY <2>1, <2>2 DEF StreamInv, IdsAreGiven
<1>20. StreamsIncrease' /\ (last <= broadcasts)' /\ UnbegunInv'
  BY <1>1 DEF StreamInv, StreamsIncrease, UnbegunInv, clientVars
<1>21. QED
  BY <1>14, <1>18, <1>19, <1>20 DEF StreamInv

-----------------------------------------------------------------------------
(* A new id is handed out.                                                 *)

(* Nobody knows an id before.                                              *)
LEMMA UnknownId ==
    ASSUME WebSocketInv, StreamInv, nextId \in Ids, NEW k \in Ids, k = nextId
    PROVE  /\ stream[k] = <<>> /\ client.connectionId # k
           /\ \A c \in Conns : conn[c].id # k /\ conn[c].reqId # k
           /\ client.conn # NoConn => HeardId(Pending, client.connectionId) # k
           /\ IdNumbered(k, 0, "whole")
<1>1. PICK G \in Nat, t \in Tears : IdNumbered(k, G, t)
  BY DEF StreamInv, StreamNumbered
<1>2. k \in Nat /\ k >= nextId
  BY WebConnAssumption DEF Ids
<1>3. G = 0 /\ t = "whole" /\ stream[k] = <<>>
  BY <1>1, <1>2 DEF IdNumbered
<1>4. IdNumbered(k, 0, "whole")
  BY <1>1, <1>3
<1>5. client.connectionId # k
  BY <1>4 DEF IdNumbered, ClientNumbered
<1>6. \A c \in Conns : conn[c].id # k
  <2>1. \A c \in Conns : conn[c].id < nextId /\ conn[c].id \in Nat
    BY ConnType, WebConnAssumption DEF WebSocketInv, IdsAreOld
  <2>2. QED
    BY <1>2, <2>1
<1>7. \A c \in Conns : conn[c].reqId # k
  BY <1>4 DEF IdNumbered
<1>8. client.conn # NoConn => HeardId(Pending, client.connectionId) # k
  BY <1>4, <1>5 DEF IdNumbered, PendingNumbered, Wire
<1>9. QED
  BY <1>3, <1>4, <1>5, <1>6, <1>7, <1>8

LEMMA CheckNewKeeps == ASSUME WebSocketInv, StreamInv, NEW c \in Conns, CheckConnNew(c),
                              UNCHANGED clientVars
                       PROVE  StreamInv'
<1> DEFINE wc == conn[c]
           new == [wc EXCEPT !.phase = "checked", !.id = nextId, !.Active = TRUE]
           cid == client.connectionId
           ss == client.serverSequence
<1>1. /\ wc.phase = "upgraded" /\ nextId \in Ids /\ nextId' = nextId + 1
      /\ UNCHANGED <<sock, stream, broadcasts, clientVars>>
  BY DEF CheckConnNew, hubVars
<1>2. /\ conn' = [conn EXCEPT ![c] = new]
      /\ wc \in Conn
      /\ client.conn # NoConn => client.conn \in Conns
  BY DEF CheckConnNew, WebSocketInv, ServerTypeOK, ClientTypeOK, Client
<1>3. /\ new.phase = "checked" /\ new.id = nextId /\ new.reqId = wc.reqId /\ new.reqSeq = wc.reqSeq
      /\ new.send = <<>> /\ new.Sequence = 0 /\ ~new.reuse
      /\ new.deadQueue = NewDeadQueue /\ new.deadQueuePointer = 0
  BY <1>1, <1>2 DEF Conn, StreamInv, IdsAreGiven
<1> HIDE DEF new
<1>4. /\ conn'[c] = new /\ \A d \in Conns : d # c => conn'[d] = conn[d]
      /\ \A d \in Conns : conn'[d].reqId = conn[d].reqId /\ conn'[d].reqSeq = conn[d].reqSeq
  BY <1>2, <1>3 DEF WebSocketInv, ServerTypeOK
<1>5. PICK n \in Ids : n = nextId
  BY <1>1
<1>6. n \in Nat /\ n # 0 /\ n' = n
  BY WebConnAssumption DEF Ids
<1>7. /\ stream[n] = <<>> /\ \A d \in Conns : conn[d].id # n
      /\ IdNumbered(n, 0, "whole")
  BY <1>5, UnknownId
<1>8. PeerInv'
  <2> SUFFICES ASSUME client.conn # NoConn
               PROVE  Peer(conn'[client.conn], sock[client.conn].up, sock[client.conn].toClient, cid, ss)
    BY <1>1 DEF PeerInv, Pending, clientVars
  <2>1. Peer(conn[client.conn], sock[client.conn].up, sock[client.conn].toClient, cid, ss)
    BY DEF StreamInv, PeerInv, Pending
  <2>2. CASE client.conn # c
    BY <1>2, <1>4, <2>1, <2>2
  <2>3. CASE client.conn = c
    BY <1>1, <1>3, <1>4, <2>1, <2>3 DEF Peer
  <2>4. QED
    BY <2>2, <2>3
<1>9. ASSUME NEW k \in Ids, NEW G \in Nat, NEW t \in Tears, IdNumbered(k, G, t), k = n => G = 0 /\ t = "whole"
      PROVE  IdNumbered(k, G, t)'
  <2>1. \A d \in Conns : conn'[d].id = k => ConnNumbered(conn'[d], stream[k], G, t, broadcasts)
    <3>1. CASE k = n
      <4>1. ConnNumbered(new, <<>>, 0, "whole", broadcasts)
        BY <1>3, CheckedNew
      <4>2. QED
        BY <1>4, <1>7, <1>9, <3>1, <4>1
    <3>2. CASE k # n
      BY <1>3, <1>4, <1>5, <1>9, <3>2 DEF IdNumbered
    <3>3. QED
      BY <3>1, <3>2
  <2>2. client.conn # NoConn =>
          Wire(sock'[client.conn].toClient, client.connectionId, last, k, stream[k], G, t)
    BY <1>1, <1>9 DEF IdNumbered, PendingNumbered, Pending
  <2>3. /\ client.conn # NoConn
        /\ conn'[client.conn].id = k
        /\ conn'[client.conn].phase \in {"checked", "start", "loop"}
        /\ G = 0
        => \/ conn[client.conn].id = k /\ conn[client.conn].phase \in {"checked", "start", "loop"}
           \/ After(last, stream[k], 1)
    <3>1. After(last, stream[n], 1)
      BY <1>7 DEF After
    <3>2. QED
      BY <1>2, <1>3, <1>4, <1>5, <3>1
  <2>4. Grows(G, t, G, t) /\ G <= Len(stream[k]) + 1 /\ (t = "torn" => G > 0)
        /\ (k >= nextId => G = 0 /\ t = "whole")
    BY <1>9 DEF Grows, IdNumbered
  <2>5. stream'[k] = stream[k] /\ (k >= nextId' => k >= nextId)
    <3>1. k \in Nat
      BY WebConnAssumption DEF Ids
    <3>2. QED
      BY <1>1, <1>5, <1>6, <3>1
  <2>6. UNCHANGED <<broadcasts, clientVars>>
    BY <1>1
  <2>7. QED
    BY <1>4, <1>9, <2>1, <2>2, <2>3, <2>4, <2>5, <2>6, IdGrows
<1>10. StreamNumbered'
  <2> SUFFICES ASSUME NEW k \in Ids PROVE \E G \in Nat, t \in Tears : IdNumbered(k, G, t)'
    BY DEF StreamNumbered
  <2>1. CASE k = n
    BY <1>7, <1>9, <2>1 DEF Tears
  <2>2. CASE k # n
    <3>1. PICK G \in Nat, t \in Tears : IdNumbered(k, G, t)
      BY DEF StreamInv, StreamNumbered
    <3>2. QED
      BY <1>9, <2>2, <3>1
  <2>3. QED
    BY <2>1, <2>2
<1>11. IdsAreGiven'
  BY <1>3, <1>4, <1>5, <1>6 DEF StreamInv, IdsAreGiven
<1>12. StreamsIncrease' /\ (last <= broadcasts)' /\ UnbegunInv'
  BY <1>1 DEF StreamInv, StreamsIncrease, UnbegunInv, clientVars
<1>13. QED
  BY <1>8, <1>10, <1>11, <1>12 DEF StreamInv

LEMMA LostKeeps == ASSUME WebSocketInv, StreamInv, NEW c \in Conns, StartLost(c),
                          UNCHANGED <<hubVars, clientVars>>
                   PROVE  StreamInv'
<1> DEFINE wc == conn[c]
           p == sock[c].toClient
           cid == client.connectionId
           ss == client.serverSequence
           hello == Hello(nextId)
           r == Append(p, hello)
           v == Shown(wc.send)
           new == [wc EXCEPT
                     !.phase = "loop",
                     !.id = nextId,
                     !.deadQueue = addToDeadQueue(clearDeadQueue(@), 0, hello),
                     !.deadQueuePointer = NextSlot(0),
                     !.Sequence = 1]
           after == conn'[c]
<1>1. /\ wc.phase = "start" /\ wc.Sequence # 0 /\ nextId \in Ids /\ nextId' = nextId + 1
      /\ stream' = [stream EXCEPT ![nextId] = v]
      /\ WriteOrReturn(c, new, hello)
      /\ UNCHANGED <<broadcasts, clientVars>>
  BY DEF StartLost, hubVars
<1>2. PICK h \in Ids, n \in Ids : h = wc.id /\ n = nextId
  BY <1>1, OwnConn
<1>3. /\ wc \in Conn /\ Contiguous(wc.deadQueue, wc.deadQueuePointer)
      /\ stream[h] \in Seq(Broadcasts) /\ Increasing(stream[h])
  BY <1>1, <1>2, OwnConn
<1>4. PICK G \in Nat, t \in Tears : IdNumbered(h, G, t)
  BY DEF StreamInv, StreamNumbered
<1>5. /\ conn \in [Conns -> Conn] /\ sock \in [Conns -> Socket] /\ sock[c] \in Socket
      /\ p \in Seq(ConnMessage)
      /\ client.conn # NoConn => client.conn \in Conns
      /\ stream \in [Ids -> Seq(Broadcasts)]
  BY ConnType DEF WebSocketInv, ServerTypeOK, ClientTypeOK, Client, StreamInv, StreamsIncrease
<1>6. /\ hello \in ConnMessage /\ hello.type = "hello" /\ hello.val = n /\ hello.seq = 0
  BY <1>1, <1>2, RingHello DEF Hello
<1>7. /\ new.phase = "loop" /\ new.id = n /\ new.reqId = wc.reqId /\ new.reqSeq = wc.reqSeq
      /\ new.send = wc.send /\ new.Sequence = 1
      /\ new.deadQueue = addToDeadQueue(clearDeadQueue(wc.deadQueue), 0, Hello(n))
      /\ new.deadQueuePointer = NextSlot(0)
  BY <1>2, <1>3 DEF Conn
<1>8. /\ [new EXCEPT !.phase = "ended"].phase = "ended"
      /\ [new EXCEPT !.phase = "ended"].id = new.id
      /\ [new EXCEPT !.phase = "ended"].reqId = new.reqId
      /\ [new EXCEPT !.phase = "ended"].reqSeq = new.reqSeq
      /\ [new EXCEPT !.phase = "ended"].send = new.send
      /\ [new EXCEPT !.phase = "ended"].deadQueue = new.deadQueue
      /\ [new EXCEPT !.phase = "ended"].deadQueuePointer = new.deadQueuePointer
  BY <1>3 DEF Conn
<1> HIDE DEF new, hello, v
<1>9. /\ \A d \in Conns : d # c => conn'[d] = conn[d] /\ sock'[d] = sock[d]
      /\ \/ after = new /\ sock'[c].up = sock[c].up
            /\ sock'[c].toClient = IF sock[c].up THEN r ELSE p
         \/ after.phase = "ended" /\ sock'[c].toClient = p
      /\ after.id = n /\ after.reqId = wc.reqId /\ after.reqSeq = wc.reqSeq
      /\ after.phase \in {"loop", "ended"} /\ after.send = new.send
      /\ after.deadQueue = new.deadQueue /\ after.deadQueuePointer = new.deadQueuePointer
  <2>1. CASE conn' = [conn EXCEPT ![c] = new] /\ Written(c, hello)
    BY <1>5, <1>7, <2>1 DEF Written, Socket
  <2>2. CASE PumpReturns(c, new)
    BY <1>5, <1>7, <1>8, <2>2 DEF PumpReturns, Socket
  <2>3. QED
    BY <1>1, <2>1, <2>2 DEF WriteOrReturn
<1>10. /\ stream[n] = <<>> /\ \A d \in Conns : conn[d].id # n /\ conn[d].reqId # n
       /\ cid # n /\ IdNumbered(n, 0, "whole")
       /\ client.conn # NoConn => HeardId(Pending, cid) # n
  BY <1>1, <1>2, UnknownId
<1>11. /\ v \in Seq(Broadcasts) /\ Increasing(v)
       /\ \A i \in 1 .. Len(v) : \E j \in 1 .. Len(stream[h]) : j >= G /\ v[i] = stream[h][j]
       /\ ConnNumbered(new, v, 1, "whole", broadcasts)
       /\ G > 0
  <2>1. ConnNumbered(wc, stream[h], G, t, broadcasts)
    BY <1>2, <1>4 DEF IdNumbered
  <2> HIDE DEF wc
  <2>2. LET u == Shown(wc.send)
        IN  /\ u \in Seq(Broadcasts) /\ Increasing(u)
            /\ \A i \in 1 .. Len(u) : \E j \in 1 .. Len(stream[h]) : j >= G /\ u[i] = stream[h][j]
            /\ ConnNumbered(new, u, 1, "whole", broadcasts)
            /\ G > 0
    BY <1>1, <1>2, <1>3, <1>4, <1>7, <2>1, StartsOver
  <2>3. QED
    BY <2>2 DEF v
<1>12. ConnNumbered(after, v, 1, "whole", broadcasts)
  <2>1. CASE after = new
    BY <1>11, <2>1
  <2>2. CASE after.phase = "ended"
    <3>1. new.phase # "checked" /\ after.phase \in {"ended", "parked"} /\ after.id = new.id
      BY <1>7, <1>9, <2>2
    <3> HIDE DEF after
    <3>2. QED
      BY <1>9, <1>11, <3>1, ConnEnds
  <2>3. QED
    BY <1>9, <2>1, <2>2
<1>13. stream'[n] = v /\ \A k \in Ids : k # n => stream'[k] = stream[k]
  BY <1>1, <1>2, <1>5
(* This is the client's connection: it has been promised the old stream.   *)
<1>14. ASSUME client.conn = c
       PROVE  p = <<>> /\ cid = h /\ After(last, v, 1) /\ HeardId(r, cid) = n
  <2>1. Peer(wc, sock[c].up, p, cid, ss)
    BY <1>14, NoConnAssumption DEF StreamInv, PeerInv, Pending
  <2>2. p = <<>> /\ cid = h
    BY <1>1, <1>2, <2>1 DEF Peer
  <2>3. ss \in 1 .. G /\ After(last, stream[h], ss)
    BY <1>4, <2>2 DEF IdNumbered, ClientNumbered
  <2>4. After(last, v, 1)
    <3> SUFFICES ASSUME NEW i \in 1 .. Len(v) PROVE v[i] > last
      BY DEF After
    <3>1. PICK j \in 1 .. Len(stream[h]) : j >= G /\ v[i] = stream[h][j]
      BY <1>11
    <3>2. Len(stream[h]) \in Nat
      BY <1>3, StreamType
    <3>3. j \in ss .. Len(stream[h])
      BY <2>3, <3>1, <3>2
    <3>4. QED
      BY <2>3, <3>1, <3>3 DEF After
  <2>5. HeardId(r, cid) = n
    BY <1>5, <1>6, <2>2, HeardAppend
  <2>6. QED
    BY <2>2, <2>4, <2>5
<1>15. PeerInv'
  <2> SUFFICES ASSUME client.conn # NoConn
               PROVE  Peer(conn'[client.conn], sock'[client.conn].up, sock'[client.conn].toClient, cid, ss)
    BY <1>1 DEF PeerInv, Pending, clientVars
  <2>1. CASE client.conn # c
    BY <1>5, <1>9, <2>1 DEF StreamInv, PeerInv, Pending
  <2>2. CASE client.conn = c
    <3>1. p = <<>> /\ HeardId(r, cid) = n
      BY <1>14, <2>2
    <3>2. cid # 0
      BY <1>14, <2>2, WebConnAssumption DEF Ids
    <3>3. Len(p) = 0 /\ HeardId(p, cid) = cid
      BY <3>1 DEF HeardId
    <3>4. CASE after.phase = "ended" /\ sock'[c].toClient = p
      BY <2>2, <3>2, <3>3, <3>4 DEF Peer
    <3>5. CASE after = new /\ sock'[c].toClient = p /\ sock'[c].up = sock[c].up /\ ~sock[c].up
      BY <1>7, <2>2, <3>2, <3>3, <3>5 DEF Peer
    <3>6. CASE after = new /\ sock'[c].toClient = r
      <4>1. Len(r) = 1 /\ r[1] = hello
        <5>1. Len(r) = Len(p) + 1 /\ r[Len(p) + 1] = hello
          BY <1>5, <1>6, AppendFacts
        <5>2. QED
          BY <3>3, <5>1
      <4> HIDE DEF r
      <4>2. \A i \in 1 .. Len(r) : i = 1
        BY <4>1
      <4>3. n # 0
        BY WebConnAssumption DEF Ids
      <4>4. QED
        BY <1>6, <1>7, <2>2, <3>1, <3>6, <4>1, <4>2, <4>3 DEF Peer
    <3>7. QED
      BY <1>9, <3>4, <3>5, <3>6
  <2>3. QED
    BY <2>1, <2>2
<1>16. IdNumbered(n, 1, "whole")'
  <2>1. n < nextId' /\ 1 <= Len(v) + 1
    <3>1. Len(v) \in Nat
      BY <1>11, StreamType
    <3>2. QED
      BY <1>1, <1>2, <3>1, WebConnAssumption DEF Ids
  <2>2. \A d \in Conns : conn'[d].id = n => ConnNumbered(conn'[d], v, 1, "whole", broadcasts)
    BY <1>9, <1>10, <1>12
  <2>3. \A d \in Conns : conn'[d].reqId # n
    BY <1>9, <1>10
  <2>4. ASSUME client.conn # NoConn
        PROVE  Wire(sock'[client.conn].toClient, cid, last, n, v, 1, "whole")
    <3>1. CASE client.conn # c
      BY <1>5, <1>9, <1>10, <2>4, <3>1 DEF Wire, Pending
    <3>2. CASE client.conn = c
      <4>1. p = <<>> /\ After(last, v, 1)
        BY <1>14, <3>2
      <4>2. Wire(p, cid, last, n, v, 1, "whole")
        BY <4>1, WireEmpty
      <4>3. Numbered(hello, v, 1, "whole")
        BY <1>6 DEF Numbered
      <4>4. Wire(r, cid, last, n, v, 1, "whole")
        <5>1. 1 > 0
          OBVIOUS
        <5> HIDE DEF p
        <5>2. QED
          BY <1>5, <1>6, <4>1, <4>2, <4>3, <5>1, WireAppend
      <4>5. QED
        BY <1>9, <3>2, <4>2, <4>4
    <3>3. QED
      BY <3>1, <3>2
  <2>5. ClientNumbered(n, stream[n], 1)'
    BY <1>1, <1>10 DEF ClientNumbered, clientVars
  <2>6. PendingNumbered(n, stream[n], 1, "whole")'
    <3>1. client' = client /\ last' = last /\ stream'[n] = v
      BY <1>1, <1>13 DEF clientVars
    <3>2. QED
      BY <2>4, <3>1 DEF PendingNumbered, Pending
  <2>7. ~(n >= nextId')
    BY <1>1, <1>2, WebConnAssumption DEF Ids
  <2>8. \A d \in Conns : conn'[d].id = n => ConnNumbered(conn'[d], stream'[n], 1, "whole", broadcasts')
    BY <1>1, <1>13, <2>2
  <2>9. 1 <= Len(stream'[n]) + 1
    BY <1>13, <2>1
  <2>10. QED
    BY <2>3, <2>5, <2>6, <2>7, <2>8, <2>9 DEF IdNumbered
<1>17. StreamNumbered'
  <2> SUFFICES ASSUME NEW k \in Ids PROVE \E G1 \in Nat, t1 \in Tears : IdNumbered(k, G1, t1)'
    BY DEF StreamNumbered
  <2>1. CASE k = n
    BY <1>16, <2>1 DEF Tears
  <2>2. CASE k # n
    <3>1. PICK Gk \in Nat, tk \in Tears : IdNumbered(k, Gk, tk)
      BY DEF StreamInv, StreamNumbered
    <3>2. stream'[k] = stream[k] /\ (k >= nextId' => k >= nextId)
      <4>1. k \in Nat
        BY WebConnAssumption DEF Ids
      <4>2. QED
        BY <1>1, <1>2, <1>13, <2>2, <4>1, WebConnAssumption DEF Ids
    <3>3. Grows(Gk, tk, Gk, tk) /\ Gk <= Len(stream[k]) + 1 /\ (tk = "torn" => Gk > 0)
          /\ (k >= nextId => Gk = 0 /\ tk = "whole")
      BY <3>1 DEF Grows, IdNumbered
    <3>4. \A d \in Conns : conn'[d].id = k => ConnNumbered(conn'[d], stream[k], Gk, tk, broadcasts)
      BY <1>9, <2>2, <3>1 DEF IdNumbered
    <3>5. \A d \in Conns : conn'[d].reqId = conn[d].reqId /\ conn'[d].reqSeq = conn[d].reqSeq
      BY <1>9
    <3>6. client.conn # NoConn =>
            Wire(sock'[client.conn].toClient, client.connectionId, last, k, stream[k], Gk, tk)
      <4>1. client.conn # NoConn => Wire(Pending, cid, last, k, stream[k], Gk, tk)
        BY <3>1 DEF IdNumbered, PendingNumbered
      <4>2. CASE client.conn = c /\ sock'[c].toClient = r
        BY <1>14, <2>2, <4>2 DEF Wire
      <4>3. CASE client.conn # NoConn /\ sock'[client.conn].toClient = Pending
        BY <4>1, <4>3
      <4>4. QED
        BY <1>5, <1>9, <4>2, <4>3 DEF Pending
    <3>7. /\ client.conn # NoConn
          /\ conn'[client.conn].id = k
          /\ conn'[client.conn].phase \in {"checked", "start", "loop"}
          /\ Gk = 0
          => \/ conn[client.conn].id = k /\ conn[client.conn].phase \in {"checked", "start", "loop"}
             \/ After(last, stream[k], 1)
      BY <1>5, <1>9, <2>2
    <3>8. UNCHANGED <<broadcasts, clientVars>>
      BY <1>1
    <3>9. IdNumbered(k, Gk, tk)'
      BY <3>1, <3>2, <3>3, <3>4, <3>5, <3>6, <3>7, <3>8, IdGrows
    <3>10. QED
      BY <3>9
  <2>3. QED
    BY <2>1, <2>2
<1>18. IdsAreGiven'
  <2>1. n # 0
    BY WebConnAssumption DEF Ids
  <2>2. QED
    BY <1>9, <2>1 DEF StreamInv, IdsAreGiven
<1>19. StreamsIncrease' /\ (last <= broadcasts)' /\ UnbegunInv'
  <2>1. stream' \in [Ids -> Seq(Broadcasts)]
    BY <1>1, <1>2, <1>5, <1>11
  <2>2. ASSUME NEW k \in Ids
        PROVE  /\ \A i \in 1 .. Len(stream'[k]) : stream'[k][i] <= broadcasts
               /\ \A i, j \in 1 .. Len(stream'[k]) : i < j => stream'[k][i] < stream'[k][j]
    <3>1. CASE k = n
      <4>1. \A i \in 1 .. Len(v) : v[i] <= broadcasts
        BY <1>11 DEF StreamInv, StreamsIncrease
      <4>2. QED
        BY <1>11, <1>13, <3>1, <4>1 DEF Increasing
    <3>2. CASE k # n
      BY <1>13, <3>2 DEF StreamInv, StreamsIncrease
    <3>3. QED
      BY <3>1, <3>2
  <2>3. QED
    BY <1>1, <2>1, <2>2 DEF StreamInv, StreamsIncrease, UnbegunInv, clientVars
<1>20. QED
  BY <1>15, <1>17, <1>18, <1>19 DEF StreamInv

-----------------------------------------------------------------------------
(* The hub, and what breaks.                                               *)

(* The same but for whether it is closed, read from or active, or parked.  *)
Alike(wc, new) ==
    /\ new.id = wc.id /\ new.reqId = wc.reqId /\ new.reqSeq = wc.reqSeq
    /\ new.send = wc.send /\ new.deadQueue = wc.deadQueue
    /\ new.deadQueuePointer = wc.deadQueuePointer
    /\ \/ /\ new.phase = wc.phase /\ new.Sequence = wc.Sequence
          /\ new.reuse = wc.reuse /\ new.currPtr = wc.currPtr
       \/ wc.phase = "ended" /\ new.phase = "parked"

(* Connections go, or break, or are closed.                                *)
LEMMA LessServed ==
    ASSUME WebSocketInv, StreamInv,
           UNCHANGED <<stream, nextId, broadcasts, clientVars>>,
           \A d \in Conns : conn'[d] = FreeConn \/ Alike(conn[d], conn'[d]),
           \A d \in Conns :
              \/ sock'[d].toClient = sock[d].toClient /\ (sock'[d].up => sock[d].up)
              \/ sock'[d].toClient = <<>> /\ ~sock'[d].up
    PROVE  StreamInv'
<1> DEFINE cid == client.connectionId
           ss == client.serverSequence
<1>1. client.conn # NoConn => client.conn \in Conns
  BY DEF WebSocketInv, ClientTypeOK, Client
<1>2. FreeConn.phase = "free" /\ FreeConn.id = 0 /\ FreeConn.reqId = 0
  BY DEF FreeConn
<1>3. ASSUME NEW d \in Conns, conn'[d] # FreeConn
      PROVE  /\ conn'[d].reqId = conn[d].reqId /\ conn'[d].reqSeq = conn[d].reqSeq
             /\ conn'[d].id = conn[d].id
             /\ conn'[d].phase \in {"checked", "start", "loop", "upgraded", "free"} =>
                  conn'[d].phase = conn[d].phase
             /\ conn[d].phase = "ended" => conn'[d].phase \in {"ended", "parked"}
             /\ conn[d].phase # "ended" => conn'[d].phase = conn[d].phase
  BY <1>3 DEF Alike
<1>4. IdsAreGiven'
  <2> SUFFICES ASSUME NEW d \in Conns
               PROVE  /\ conn'[d].id = 0 <=> conn'[d].phase \in {"free", "upgraded"}
                      /\ conn'[d].phase = "upgraded" =>
                           /\ conn'[d].send = <<>> /\ conn'[d].Sequence = 0 /\ ~conn'[d].reuse
                           /\ conn'[d].deadQueue = NewDeadQueue /\ conn'[d].deadQueuePointer = 0
    BY DEF IdsAreGiven
  <2>1. CASE conn'[d] = FreeConn
    BY <1>2, <2>1
  <2>2. CASE Alike(conn[d], conn'[d])
    BY <2>2 DEF Alike, StreamInv, IdsAreGiven
  <2>3. QED
    BY <2>1, <2>2
<1>5. ASSUME NEW d \in Conns, NEW k \in Ids, NEW G \in Nat, NEW t \in Tears,
             IdNumbered(k, G, t), conn'[d].id = k
      PROVE  ConnNumbered(conn'[d], stream[k], G, t, broadcasts)
  <2>1. conn'[d] # FreeConn
    BY <1>2, <1>5, WebConnAssumption DEF Ids
  <2>2. Alike(conn[d], conn'[d])
    BY <2>1
  <2>3. ConnNumbered(conn[d], stream[k], G, t, broadcasts)
    BY <1>5, <2>2 DEF IdNumbered, Alike
  <2>4. CASE conn[d].phase = "ended" /\ conn'[d].phase = "parked"
    <3>1. conn[d].phase # "checked"
      BY <2>4
    <3>2. QED
      BY <2>2, <2>3, <2>4, <3>1, ConnEnds DEF Alike
  <2>5. CASE ~(conn[d].phase = "ended" /\ conn'[d].phase = "parked")
    BY <2>2, <2>3, <2>5, ConnSame DEF Alike
  <2>6. QED
    BY <2>4, <2>5
<1>6. \A d \in Conns : conn'[d].reqId # 0 =>
         conn'[d].reqId = conn[d].reqId /\ conn'[d].reqSeq = conn[d].reqSeq
  BY <1>2, <1>3
<1>7. ASSUME client.conn # NoConn
      PROVE  Peer(conn'[client.conn], sock'[client.conn].up, sock'[client.conn].toClient, cid, ss)
  <2>1. PICK d \in Conns : d = client.conn
    BY <1>1, <1>7
  <2>2. Peer(conn[d], sock[d].up, sock[d].toClient, cid, ss)
    BY <1>7, <2>1 DEF StreamInv, PeerInv, Pending
  <2> SUFFICES Peer(conn'[d], sock'[d].up, sock'[d].toClient, cid, ss)
    BY <2>1
  <2>3. CASE conn'[d] = FreeConn /\ sock'[d].toClient = sock[d].toClient
    BY <1>2, <2>2, <2>3 DEF Peer
  <2>4. CASE Alike(conn[d], conn'[d]) /\ sock'[d].toClient = sock[d].toClient /\ (sock'[d].up => sock[d].up)
    BY <2>2, <2>4 DEF Peer, Alike
  <2>5. CASE sock'[d].toClient = <<>> /\ ~sock'[d].up
    <3>1. \A i \in 1 .. Len(sock'[d].toClient) : FALSE
      BY <2>5
    <3>2. CASE conn'[d] = FreeConn
      BY <1>2, <2>5, <3>1, <3>2 DEF Peer
    <3>3. CASE Alike(conn[d], conn'[d])
      BY <2>2, <2>5, <3>1, <3>3 DEF Peer, Alike
    <3>4. QED
      BY <3>2, <3>3
  <2>6. QED
    BY <2>3, <2>4, <2>5
<1>8. ASSUME NEW k \in Ids, NEW G \in Nat, NEW t \in Tears, client.conn # NoConn, IdNumbered(k, G, t)
      PROVE  Wire(sock'[client.conn].toClient, cid, last, k, stream[k], G, t)
  <2>1. Wire(sock[client.conn].toClient, cid, last, k, stream[k], G, t)
    BY <1>8 DEF IdNumbered, PendingNumbered, Pending
  <2>2. Wire(<<>>, cid, last, k, stream[k], G, t)
    BY WireEmpty
  <2>3. sock'[client.conn].toClient = sock[client.conn].toClient \/ sock'[client.conn].toClient = <<>>
    BY <1>1, <1>8
  <2>4. QED
    BY <2>1, <2>2, <2>3
<1>9. ASSUME NEW k \in Ids, NEW t \in Tears, client.conn # NoConn, IdNumbered(k, 0, t),
             conn'[client.conn].id = k,
             conn'[client.conn].phase \in {"checked", "start", "loop"}
      PROVE  conn[client.conn].id = k /\ conn[client.conn].phase \in {"checked", "start", "loop"}
  <2>1. conn'[client.conn] # FreeConn
    BY <1>2, <1>9
  <2>2. QED
    BY <1>1, <1>3, <1>9, <2>1
<1>10. QED
  BY <1>4, <1>5, <1>6, <1>7, <1>8, <1>9, KeepsNumbers

LEMMA AlikeSelf == \A wc : Alike(wc, wc)
BY DEF Alike

LEMMA ClosedAlike ==
    ASSUME WebSocketInv, NEW c \in Conns
    PROVE  ClosedConn(c) = FreeConn \/ Alike(conn[c], ClosedConn(c))
<1>1. conn[c] \in Conn
  BY ConnType DEF WebSocketInv
<1>2. CASE conn[c].phase = "parked"
  BY <1>2 DEF ClosedConn
<1>3. CASE conn[c].phase # "parked"
  BY <1>1, <1>3 DEF ClosedConn, Alike, Conn
<1>4. QED
  BY <1>2, <1>3

LEMMA GoneKeeps ==
    ASSUME WebSocketInv, StreamInv, NEW c \in Conns,
           RegisterFails(c) \/ Unregister(c) \/ RemoveInactiveConnection(c) \/ Break(c),
           UNCHANGED clientVars
    PROVE  StreamInv'
<1>1. conn \in [Conns -> Conn] /\ sock \in [Conns -> Socket] /\ \A d \in Conns : conn[d] \in Conn /\ sock[d] \in Socket
  BY ConnType DEF WebSocketInv, ServerTypeOK
<1>2. UNCHANGED <<stream, nextId, broadcasts, clientVars>>
  BY DEF RegisterFails, Unregister, RemoveInactiveConnection, Break, hubVars
<1>3. ASSUME NEW d \in Conns PROVE conn'[d] = FreeConn \/ Alike(conn[d], conn'[d])
  <2>1. CASE conn' = conn \/ conn' = [conn EXCEPT ![c] = FreeConn]
    BY <1>1, <2>1, AlikeSelf
  <2>2. CASE /\ conn[c].phase = "ended"
             /\ conn' = [conn EXCEPT ![c] = [@ EXCEPT !.phase = "parked", !.Active = FALSE]]
    <3>1. Alike(conn[c], [conn[c] EXCEPT !.phase = "parked", !.Active = FALSE])
      BY <1>1, <2>2 DEF Alike, Conn
    <3>2. conn'[d] = IF d = c THEN [conn[c] EXCEPT !.phase = "parked", !.Active = FALSE] ELSE conn[d]
      BY <1>1, <2>2
    <3>3. QED
      BY <3>1, <3>2, AlikeSelf
  <2>3. QED
    BY <2>1, <2>2 DEF RegisterFails, Unregister, RemoveInactiveConnection, Break
<1>4. ASSUME NEW d \in Conns
      PROVE  \/ sock'[d].toClient = sock[d].toClient /\ (sock'[d].up => sock[d].up)
             \/ sock'[d].toClient = <<>> /\ ~sock'[d].up
  <2>1. CASE sock' = sock
    BY <2>1
  <2>2. CASE sock' = [sock EXCEPT ![c].up = FALSE]
    BY <1>1, <2>2 DEF Socket
  <2>3. CASE sock' = [sock EXCEPT ![c] = [up |-> FALSE, toClient |-> <<>>]]
    BY <1>1, <2>3
  <2>4. QED
    BY <2>1, <2>2, <2>3 DEF RegisterFails, Unregister, RemoveInactiveConnection, Break
<1>5. QED
  BY <1>2, <1>3, <1>4, LessServed

LEMMA AllGoneKeeps ==
    ASSUME WebSocketInv, StreamInv, InvalidateFails \/ Restart, UNCHANGED clientVars
    PROVE  StreamInv'
<1>1. UNCHANGED <<stream, nextId, broadcasts, clientVars>>
  BY DEF InvalidateFails, Restart
<1>2. ASSUME NEW d \in Conns PROVE conn'[d] = FreeConn \/ Alike(conn[d], conn'[d])
  <2>1. conn'[d] = conn[d] \/ conn'[d] = FreeConn \/ conn'[d] = ClosedConn(d)
    BY DEF InvalidateFails, Restart
  <2>2. QED
    BY <2>1, AlikeSelf, ClosedAlike
<1>3. ASSUME NEW d \in Conns
      PROVE  \/ sock'[d].toClient = sock[d].toClient /\ (sock'[d].up => sock[d].up)
             \/ sock'[d].toClient = <<>> /\ ~sock'[d].up
  BY DEF InvalidateFails, Restart
<1>4. QED
  BY <1>1, <1>2, <1>3, LessServed

LEMMA SendKeeps ==
    ASSUME WebSocketInv, StreamInv, NEW c \in Conns, SendMessage(c), UNCHANGED clientVars
    PROVE  StreamInv'
<1> DEFINE wc == conn[c]
           new == [wc EXCEPT !.send = Append(@, Response)]
<1>1. conn \in [Conns -> Conn] /\ wc \in Conn
  BY ConnType DEF WebSocketInv, ServerTypeOK
<1>2. /\ UNCHANGED <<sock, stream, nextId, broadcasts, clientVars>>
      /\ wc.phase \in Pumping
      /\ conn' = conn \/ conn' = [conn EXCEPT ![c] = ClosedConn(c)] \/ conn' = [conn EXCEPT ![c] = new]
  BY <1>1 DEF SendMessage
<1>3. CASE conn' = conn \/ conn' = [conn EXCEPT ![c] = ClosedConn(c)]
  <2>1. ASSUME NEW d \in Conns PROVE conn'[d] = FreeConn \/ Alike(conn[d], conn'[d])
    BY <1>1, <1>3, AlikeSelf, ClosedAlike
  <2>2. \A d \in Conns :
           \/ sock'[d].toClient = sock[d].toClient /\ (sock'[d].up => sock[d].up)
           \/ sock'[d].toClient = <<>> /\ ~sock'[d].up
    BY <1>2
  <2>3. UNCHANGED <<stream, nextId, broadcasts, clientVars>>
    BY <1>2
  <2>4. QED
    BY <2>1, <2>2, <2>3, LessServed
<1>4. CASE conn' = [conn EXCEPT ![c] = new]
  <2>1. /\ new.phase = wc.phase /\ new.id = wc.id /\ new.reqId = wc.reqId /\ new.reqSeq = wc.reqSeq
        /\ new.Sequence = wc.Sequence /\ new.reuse = wc.reuse
        /\ new.send = Append(wc.send, Response)
        /\ new.deadQueue = wc.deadQueue /\ new.deadQueuePointer = wc.deadQueuePointer
        /\ new.currPtr = wc.currPtr
    BY <1>1 DEF Conn
  <2> HIDE DEF new
  <2>2. ASSUME NEW G \in Nat, NEW t \in Tears, IdNumbered(wc.id, G, t)
        PROVE  ConnNumbered(new, stream[wc.id], G, t, broadcasts)
    <3>1. ConnNumbered(wc, stream[wc.id], G, t, broadcasts) /\ stream[wc.id] \in Seq(Broadcasts)
      BY <1>2, <2>2, OwnConn DEF Pumping
    <3>2. wc.phase # "checked" /\ broadcasts \in Nat
      BY <1>2, WebConnAssumption DEF Pumping, WebSocketInv, ServerTypeOK
    <3> HIDE DEF wc
    <3>3. QED
      BY <1>1, <2>1, <3>1, <3>2, TakesResponse
  <2>3. ASSUME client.conn = c
        PROVE  Peer(new, sock[c].up, sock[c].toClient, client.connectionId, client.serverSequence)
    <3>1. Peer(wc, sock[c].up, sock[c].toClient, client.connectionId, client.serverSequence)
      BY <2>3, NoConnAssumption DEF StreamInv, PeerInv, Pending
    <3>2. QED
      BY <2>1, <3>1 DEF Peer
  <2>4. /\ sock'[c].toClient = sock[c].toClient /\ \A d \in Conns : d # c => sock'[d] = sock[d]
        /\ client.conn = c =>
             Peer(new, sock'[c].up, sock[c].toClient, client.connectionId, client.serverSequence)
        /\ new.phase \in {"start", "loop"} => conn[c].phase \in {"start", "loop"}
        /\ conn[c].phase \in Pumping /\ new.phase \in Pumping
    BY <1>2, <2>1, <2>3
  <2>5. QED
    BY <1>2, <1>4, <2>1, <2>2, <2>4, QuietPump
<1>5. QED
  BY <1>2, <1>3, <1>4

LEMMA RegisterKeeps ==
    ASSUME WebSocketInv, StreamInv, NEW c \in Conns, Register(c), UNCHANGED clientVars
    PROVE  StreamInv'
<1> DEFINE wc == conn[c]
           new == [wc EXCEPT !.phase = "start", !.reading = TRUE, !.Active = TRUE,
                             !.send = IF wc.reuse THEN @ ELSE Append(@, Hello(wc.id))]
           cid == client.connectionId
           ss == client.serverSequence
<1>1. /\ wc.phase = "checked" /\ conn' = [conn EXCEPT ![c] = new]
      /\ UNCHANGED <<sock, stream, nextId, broadcasts, clientVars>>
  BY DEF Register
<1>2. wc \in Conn /\ wc.id \in Ids /\ stream[wc.id] \in Seq(Broadcasts)
  BY <1>1, OwnConn
<1>3. /\ new.phase = "start" /\ new.id = wc.id /\ new.reqId = wc.reqId /\ new.reqSeq = wc.reqSeq
      /\ new.Sequence = wc.Sequence /\ new.reuse = wc.reuse
      /\ new.send = IF wc.reuse THEN wc.send ELSE Append(wc.send, Hello(wc.id))
      /\ new.deadQueue = wc.deadQueue /\ new.deadQueuePointer = wc.deadQueuePointer
  BY <1>2 DEF Conn
<1> HIDE DEF new
<1>4. ASSUME NEW k \in Ids, NEW G \in Nat, NEW t \in Tears, IdNumbered(k, G, t), new.id = k
      PROVE  ConnNumbered(new, stream[k], G, t, broadcasts)
  <2>1. ConnNumbered(wc, stream[wc.id], G, t, broadcasts)
    BY <1>3, <1>4 DEF IdNumbered
  <2>2. new.id = k /\ k = wc.id
    BY <1>3, <1>4
  <2> HIDE DEF wc
  <2>3. ConnNumbered(new, stream[wc.id], G, t, broadcasts)
    BY <1>1, <1>2, <1>3, <2>1, Registers
  <2>4. QED
    BY <2>2, <2>3
<1>5. ASSUME client.conn = c PROVE Peer(new, sock'[c].up, sock'[c].toClient, cid, ss)
  <2>1. Peer(wc, sock[c].up, sock[c].toClient, cid, ss)
    BY <1>5, NoConnAssumption DEF StreamInv, PeerInv, Pending
  <2>2. QED
    BY <1>1, <1>3, <2>1 DEF Peer
<1>6. ASSUME NEW k \in Ids, NEW G \in Nat, NEW t \in Tears, client.conn = c, IdNumbered(k, G, t)
      PROVE  Wire(sock'[c].toClient, cid, last, k, stream[k], G, t)
  <2>1. client.conn # NoConn
    BY <1>6, NoConnAssumption
  <2>2. QED
    BY <1>1, <1>6, <2>1 DEF IdNumbered, PendingNumbered, Pending
<1>7. /\ new.reqId # 0 => new.reqId = conn[c].reqId /\ new.reqSeq = conn[c].reqSeq
      /\ new.id = 0 <=> new.phase = "free"
      /\ new.phase # "upgraded"
      /\ \A d \in Conns : d # c => sock'[d] = sock[d]
      /\ \A k \in Ids, t \in Tears :
            /\ client.conn = c /\ IdNumbered(k, 0, t)
            /\ new.id = k /\ new.phase \in {"checked", "start", "loop"}
            => conn[c].id = k /\ conn[c].phase \in {"checked", "start", "loop"}
  BY <1>1, <1>2, <1>3, WebConnAssumption DEF Ids
<1>8. QED
  BY <1>1, <1>4, <1>5, <1>6, <1>7, OneConnKeeps

LEMMA CheckFoundKeeps ==
    ASSUME WebSocketInv, StreamInv, NEW c \in Conns, CheckConnFound(c), UNCHANGED clientVars
    PROVE  StreamInv'
<1> DEFINE wc == conn[c]
           cid == client.connectionId
           ss == client.serverSequence
<1>1. /\ wc.phase = "upgraded" /\ wc.reqId # 0
      /\ UNCHANGED <<sock, stream, nextId, broadcasts, clientVars>>
  BY DEF CheckConnFound
<1>2. PICK old \in Resumable(conn[c].reqId) :
          /\ connIndex' = connIndex \ {old}
          /\ conn' = [conn EXCEPT
              ![c] = [@ EXCEPT
                        !.phase = "checked",
                        !.id = conn[c].reqId,
                        !.Sequence = conn[c].reqSeq,
                        !.reuse = TRUE,
                        !.send = conn[old].send,
                        !.closed = conn[old].closed,
                        !.deadQueue = conn[old].deadQueue,
                        !.deadQueuePointer = conn[old].deadQueuePointer],
              ![old] = FreeConn]
  BY Zenon DEF CheckConnFound
<1> DEFINE oc == conn[old]
           new == [wc EXCEPT !.phase = "checked", !.id = wc.reqId,
                             !.Sequence = wc.reqSeq, !.reuse = TRUE,
                             !.send = oc.send, !.closed = oc.closed,
                             !.deadQueue = oc.deadQueue,
                             !.deadQueuePointer = oc.deadQueuePointer]
<1>3. /\ old \in Conns /\ old # c /\ oc.id = wc.reqId /\ oc.phase = "parked"
      /\ wc \in Conn /\ oc \in Conn /\ wc.reqId \in Ids
  <2>1. old \in connIndex /\ old \in Conns /\ oc.id = wc.reqId /\ ~oc.Active
    BY <1>2 DEF Resumable, WebSocketInv, ServerTypeOK
  <2>2. oc.phase = "parked"
    BY <2>1 DEF WebSocketInv, IndexIsUsable
  <2>3. wc \in Conn /\ oc \in Conn /\ wc.reqId \in 0 .. MaxIds
    BY <2>1, ConnType DEF WebSocketInv
  <2>4. wc.reqId \in Ids
    BY <1>1, <2>3, WebConnAssumption DEF Ids
  <2>5. QED
    BY <1>1, <2>1, <2>2, <2>3, <2>4
<1>4. /\ new.phase = "checked" /\ new.id = wc.reqId /\ new.reuse = TRUE
      /\ new.reqId = wc.reqId /\ new.reqSeq = wc.reqSeq /\ new.Sequence = wc.reqSeq
      /\ new.send = oc.send /\ new.deadQueue = oc.deadQueue
      /\ new.deadQueuePointer = oc.deadQueuePointer
  BY <1>3 DEF Conn
<1>5. /\ conn'[c] = new /\ conn'[old] = FreeConn
      /\ \A d \in Conns : d # c /\ d # old => conn'[d] = conn[d]
      /\ client.conn # NoConn => client.conn \in Conns
  <2>1. conn \in [Conns -> Conn] /\ client \in Client
    BY DEF WebSocketInv, ServerTypeOK, ClientTypeOK
  <2>2. QED
    BY <1>2, <1>3, <2>1 DEF Client
<1> HIDE DEF new
<1>6. FreeConn.phase = "free" /\ FreeConn.id = 0 /\ FreeConn.reqId = 0
  BY DEF FreeConn
<1>7. new.id # 0
  BY <1>1, <1>4
<1>8. IdsAreGiven'
  <2> SUFFICES ASSUME NEW d \in Conns
               PROVE  /\ conn'[d].id = 0 <=> conn'[d].phase \in {"free", "upgraded"}
                      /\ conn'[d].phase = "upgraded" =>
                           /\ conn'[d].send = <<>> /\ conn'[d].Sequence = 0 /\ ~conn'[d].reuse
                           /\ conn'[d].deadQueue = NewDeadQueue /\ conn'[d].deadQueuePointer = 0
    BY DEF IdsAreGiven
  <2>1. CASE d = c
    BY <1>4, <1>5, <1>7, <2>1
  <2>2. CASE d = old
    BY <1>5, <1>6, <2>2
  <2>3. CASE d # c /\ d # old
    BY <1>5, <2>3 DEF StreamInv, IdsAreGiven
  <2>4. QED
    BY <2>1, <2>2, <2>3
<1>9. ASSUME NEW k \in Ids, NEW G \in Nat, NEW t \in Tears, IdNumbered(k, G, t), wc.reqId = k
      PROVE  new.Sequence \in 1 .. G /\ ConnNumbered(new, stream[k], G, t, broadcasts)
  <2>1. wc.reqSeq \in 1 .. G /\ ConnNumbered(oc, stream[k], G, t, broadcasts)
    BY <1>3, <1>9 DEF IdNumbered
  <2>2. new.id = oc.id /\ oc.id = k /\ new.Sequence \in 1 .. G /\ new.reuse
    BY <1>3, <1>4, <1>9, <2>1
  <2> HIDE DEF oc
  <2>3. QED
    BY <1>3, <1>4, <2>1, <2>2, CheckedFound
<1>10. ASSUME NEW d \in Conns, NEW k \in Ids, NEW G \in Nat, NEW t \in Tears,
              IdNumbered(k, G, t), conn'[d].id = k
       PROVE  ConnNumbered(conn'[d], stream[k], G, t, broadcasts)
  <2>1. k # 0
    BY WebConnAssumption DEF Ids
  <2>2. CASE d = c
    BY <1>4, <1>5, <1>9, <1>10, <2>2
  <2>3. CASE d = old
    BY <1>5, <1>6, <1>10, <2>1, <2>3
  <2>4. CASE d # c /\ d # old
    BY <1>5, <1>10, <2>4 DEF IdNumbered
  <2>5. QED
    BY <2>2, <2>3, <2>4
<1>11. \A d \in Conns : conn'[d].reqId # 0 =>
          conn'[d].reqId = conn[d].reqId /\ conn'[d].reqSeq = conn[d].reqSeq
  BY <1>4, <1>5, <1>6
<1>12. ASSUME client.conn # NoConn
       PROVE  Peer(conn'[client.conn], sock'[client.conn].up, sock'[client.conn].toClient, cid, ss)
  <2>1. Peer(conn[client.conn], sock'[client.conn].up, sock'[client.conn].toClient, cid, ss)
    BY <1>1, <1>12 DEF StreamInv, PeerInv, Pending
  <2>2. CASE client.conn = c
    BY <1>1, <1>4, <1>5, <2>1, <2>2 DEF Peer
  <2>3. CASE client.conn = old
    BY <1>5, <1>6, <2>1, <2>3 DEF Peer
  <2>4. CASE client.conn # c /\ client.conn # old
    BY <1>5, <1>12, <2>1, <2>4
  <2>5. QED
    BY <2>2, <2>3, <2>4
<1>13. ASSUME NEW k \in Ids, NEW G \in Nat, NEW t \in Tears, client.conn # NoConn, IdNumbered(k, G, t)
       PROVE  Wire(sock'[client.conn].toClient, cid, last, k, stream[k], G, t)
  BY <1>1, <1>13 DEF IdNumbered, PendingNumbered, Pending
<1>14. ASSUME NEW k \in Ids, NEW t \in Tears, client.conn # NoConn, IdNumbered(k, 0, t),
              conn'[client.conn].id = k,
              conn'[client.conn].phase \in {"checked", "start", "loop"}
       PROVE  conn[client.conn].id = k /\ conn[client.conn].phase \in {"checked", "start", "loop"}
  <2>1. client.conn # old
    BY <1>5, <1>6, <1>14
  <2>2. client.conn # c
    <3> SUFFICES ASSUME client.conn = c PROVE FALSE
      OBVIOUS
    <3>1. wc.reqId = k /\ 0 \in Nat
      BY <1>4, <1>5, <1>14
    <3>2. new.Sequence \in 1 .. 0
      BY <1>9, <1>14, <3>1
    <3>3. QED
      BY <3>2
  <2>3. QED
    BY <1>5, <1>14, <2>1, <2>2
<1>15. UNCHANGED <<stream, nextId, broadcasts, clientVars>>
  BY <1>1
<1>16. QED
  BY <1>8, <1>10, <1>11, <1>12, <1>13, <1>14, <1>15, KeepsNumbers

(* What a stream gains by a broadcast.                                     *)
LEMMA StreamGains ==
    ASSUME NEW s \in Seq(Broadcasts), NEW n \in Nat, n + 1 \in Broadcasts, Increasing(s),
           \A i \in 1 .. Len(s) : s[i] <= n, NEW s2, s2 = s \/ s2 = Append(s, n + 1)
    PROVE  /\ s2 \in Seq(Broadcasts) /\ Continues(s, s2) /\ Increasing(s2)
           /\ \A i \in 1 .. Len(s2) : s2[i] <= n + 1
           /\ \A l \in Nat, o \in Nat : l <= n /\ After(l, s, o) /\ o > 0 => After(l, s2, o)
<1>0. Len(s) \in Nat /\ \A i \in 1 .. Len(s) : s[i] \in Nat
  BY StreamType
<1>1. CASE s2 = s
  BY <1>0, <1>1 DEF Continues
<1>2. CASE s2 = Append(s, n + 1)
  <2>1. /\ s2 \in Seq(Broadcasts) /\ Len(s2) = Len(s) + 1 /\ s2[Len(s) + 1] = n + 1
        /\ \A i \in 1 .. Len(s) : s2[i] = s[i]
    BY <1>2, AppendFacts
  <2>2. \A i \in 1 .. Len(s2) : i \in 1 .. Len(s) \/ i = Len(s) + 1
    BY <1>0, <2>1
  <2>3. \A i \in 1 .. Len(s2) : s2[i] <= n + 1
    <3>1. \A i \in 1 .. Len(s) : s2[i] <= n + 1
      BY <1>0, <2>1
    <3>2. QED
      BY <2>1, <2>2, <3>1
  <2>4. ASSUME NEW i \in 1 .. Len(s2), NEW j \in 1 .. Len(s2), i < j PROVE s2[i] < s2[j]
    <3>1. i \in 1 .. Len(s)
      BY <1>0, <2>1, <2>4
    <3>2. s2[i] = s[i] /\ s[i] <= n /\ s[i] \in Nat
      BY <1>0, <2>1, <3>1
    <3>3. CASE j = Len(s) + 1
      BY <2>1, <3>2, <3>3
    <3>4. CASE j \in 1 .. Len(s)
      BY <2>1, <2>4, <3>1, <3>4 DEF Increasing
    <3>5. QED
      BY <2>2, <3>3, <3>4
  <2>5. ASSUME NEW l \in Nat, NEW o \in Nat, l <= n, After(l, s, o), o > 0 PROVE After(l, s2, o)
    <3> SUFFICES ASSUME NEW j \in o .. Len(s2) PROVE s2[j] > l
      BY DEF After
    <3>1. CASE j = Len(s) + 1
      BY <2>1, <2>5, <3>1
    <3>2. CASE j # Len(s) + 1
      <4>1. j \in o .. Len(s) /\ j \in 1 .. Len(s)
        BY <1>0, <2>1, <2>5, <3>2
      <4>2. QED
        BY <2>1, <2>5, <4>1 DEF After
    <3>3. QED
      BY <3>1, <3>2
  <2>6. Continues(s, s2)
    BY <1>0, <2>1 DEF Continues
  <2>7. QED
    BY <2>1, <2>3, <2>4, <2>5, <2>6 DEF Increasing
<1>3. QED
  BY <1>1, <1>2

LEMMA BroadcastKeeps ==
    ASSUME WebSocketInv, StreamInv, Broadcast, UNCHANGED clientVars
    PROVE  StreamInv'
<1> DEFINE n == broadcasts
           taking == {c \in connIndex : HasRoom(c)}
           cid == client.connectionId
           ss == client.serverSequence
<1>1. /\ n + 1 \in Broadcasts /\ broadcasts' = n + 1
      /\ UNCHANGED <<sock, nextId, clientVars>>
      /\ conn' = [c \in Conns |->
            CASE c \in taking -> [conn[c] EXCEPT !.send = Append(@, Event(n + 1))]
              [] c \in connIndex \ taking -> ClosedConn(c)
              [] OTHER -> conn[c]]
      /\ stream' = [id \in Ids |->
            IF Deliverable(n + 1) /\ \E c \in taking : conn[c].id = id
              THEN Append(stream[id], n + 1) ELSE stream[id]]
  BY DEF Broadcast
<1>2. /\ n \in Nat /\ taking \subseteq Conns
      /\ \A d \in Conns : conn[d] \in Conn
      /\ client.conn # NoConn => client.conn \in Conns
      /\ last \in Nat /\ last <= n
  BY ConnType, WebConnAssumption
     DEF WebSocketInv, ServerTypeOK, ClientTypeOK, Client, StreamInv
<1>3. ASSUME NEW d \in taking
      PROVE  /\ conn[d].phase \in Pumping \cup {"parked"} /\ d \in Conns
             /\ conn'[d].phase = conn[d].phase /\ conn'[d].id = conn[d].id
             /\ conn'[d].reqId = conn[d].reqId /\ conn'[d].reqSeq = conn[d].reqSeq
             /\ conn'[d].Sequence = conn[d].Sequence /\ conn'[d].reuse = conn[d].reuse
             /\ conn'[d].send = Append(conn[d].send, Event(n + 1))
             /\ conn'[d].deadQueue = conn[d].deadQueue
             /\ conn'[d].deadQueuePointer = conn[d].deadQueuePointer
             /\ conn'[d].currPtr = conn[d].currPtr
  <2>1. d \in connIndex /\ d \in Conns /\ conn[d] \in Conn
    BY <1>2
  <2>2. conn[d].phase \in Pumping \cup {"parked"}
    BY <2>1 DEF WebSocketInv, IndexIsUsable
  <2>3. conn'[d] = [conn[d] EXCEPT !.send = Append(@, Event(n + 1))]
    BY <1>1, <2>1
  <2>4. QED
    BY <2>1, <2>2, <2>3 DEF Conn
<1>4. ASSUME NEW d \in Conns, d \notin taking
      PROVE  conn'[d] = FreeConn \/ Alike(conn[d], conn'[d])
  <2>1. conn'[d] = ClosedConn(d) \/ conn'[d] = conn[d]
    BY <1>1, <1>4
  <2>2. QED
    BY <2>1, ClosedAlike, AlikeSelf
<1>5. /\ FreeConn.phase = "free" /\ FreeConn.id = 0 /\ FreeConn.reqId = 0
      /\ \A k \in Ids : k # 0 /\ k \in Nat
  BY WebConnAssumption DEF FreeConn, Ids
<1>6. \A k \in Ids : \/ stream'[k] = stream[k]
                     \/ stream'[k] = Append(stream[k], n + 1) /\ \E d \in taking : conn[d].id = k
  BY <1>1
<1>7. \A d \in taking : conn[d].id \in Ids =>
          stream'[conn[d].id] = IF Deliverable(n + 1) THEN Append(stream[conn[d].id], n + 1)
                                                      ELSE stream[conn[d].id]
  BY <1>1
<1>8. \A d, e \in Conns, k \in Ids : conn[d].id = k /\ conn[e].id = k => d = e
  BY <1>5 DEF WebSocketInv, OneConnPerId
<1>9. \A k \in Ids : stream[k] \in Seq(Broadcasts) /\ Increasing(stream[k])
                     /\ \A i \in 1 .. Len(stream[k]) : stream[k][i] <= n
  BY DEF StreamInv, StreamsIncrease, Increasing
<1>10. ASSUME NEW k \in Ids
       PROVE  /\ stream'[k] \in Seq(Broadcasts) /\ Continues(stream[k], stream'[k])
              /\ Increasing(stream'[k])
              /\ \A i \in 1 .. Len(stream'[k]) : stream'[k][i] <= n + 1
              /\ \A o \in Nat : After(last, stream[k], o) /\ o > 0 => After(last, stream'[k], o)
  <2>1. stream'[k] = stream[k] \/ stream'[k] = Append(stream[k], n + 1)
    BY <1>6
  <2>2. /\ stream[k] \in Seq(Broadcasts) /\ Increasing(stream[k])
        /\ \A i \in 1 .. Len(stream[k]) : stream[k][i] <= n
        /\ n \in Nat /\ n + 1 \in Broadcasts
    BY <1>1, <1>2, <1>9
  <2> HIDE DEF n
  <2>3. /\ stream'[k] \in Seq(Broadcasts) /\ Continues(stream[k], stream'[k])
        /\ Increasing(stream'[k])
        /\ \A i \in 1 .. Len(stream'[k]) : stream'[k][i] <= n + 1
        /\ \A l \in Nat, o \in Nat :
              l <= n /\ After(l, stream[k], o) /\ o > 0 => After(l, stream'[k], o)
    BY <2>1, <2>2, StreamGains
  <2>4. QED
    BY <1>2, <2>3
<1> HIDE DEF taking
<1>11. IdsAreGiven'
  <2> SUFFICES ASSUME NEW d \in Conns
               PROVE  /\ conn'[d].id = 0 <=> conn'[d].phase \in {"free", "upgraded"}
                      /\ conn'[d].phase = "upgraded" =>
                           /\ conn'[d].send = <<>> /\ conn'[d].Sequence = 0 /\ ~conn'[d].reuse
                           /\ conn'[d].deadQueue = NewDeadQueue /\ conn'[d].deadQueuePointer = 0
    BY DEF IdsAreGiven
  <2>1. CASE conn'[d] = FreeConn
    BY <1>5, <2>1
  <2>2. CASE Alike(conn[d], conn'[d])
    BY <2>2 DEF Alike, StreamInv, IdsAreGiven
  <2>3. CASE d \in taking
    BY <1>3, <2>3 DEF Pumping, StreamInv, IdsAreGiven
  <2>4. QED
    BY <1>4, <2>1, <2>2, <2>3
<1>12. PeerInv'
  <2> SUFFICES ASSUME client.conn # NoConn, NEW d \in Conns, d = client.conn
               PROVE  Peer(conn'[d], sock[d].up, sock[d].toClient, cid, ss)
    BY <1>1, <1>2 DEF PeerInv, Pending, clientVars
  <2>1. Peer(conn[d], sock[d].up, sock[d].toClient, cid, ss)
    BY DEF StreamInv, PeerInv, Pending
  <2>2. CASE conn'[d] = FreeConn
    BY <1>5, <2>1, <2>2 DEF Peer
  <2>3. CASE Alike(conn[d], conn'[d])
    BY <2>1, <2>3 DEF Peer, Alike
  <2>4. CASE d \in taking
    BY <1>3, <2>1, <2>4 DEF Peer
  <2>5. QED
    BY <1>4, <2>2, <2>3, <2>4
<1>13. StreamsIncrease' /\ (last <= broadcasts)' /\ UnbegunInv'
  <2>1. stream' \in [Ids -> Seq(Broadcasts)]
    BY <1>1, <1>10
  <2>2. (last <= broadcasts)'
    BY <1>1, <1>2 DEF clientVars
  <2>3. UnbegunInv'
    BY <1>1 DEF StreamInv, UnbegunInv, clientVars
  <2>4. QED
    BY <1>1, <1>10, <2>1, <2>2, <2>3 DEF StreamsIncrease, Increasing
<1>14. ASSUME NEW k \in Ids, NEW G \in Nat, NEW t \in Tears, IdNumbered(k, G, t)
       PROVE  IdNumbered(k, G, t)'
  <2> DEFINE s == stream[k]
             s2 == stream'[k]
  <2>1. /\ s \in Seq(Broadcasts) /\ s2 \in Seq(Broadcasts) /\ Continues(s, s2)
        /\ Len(s) \in Nat /\ Len(s2) \in Nat /\ Len(s) <= Len(s2)
    BY <1>9, <1>10, StreamType DEF Continues
  <2>2. /\ G <= Len(s) + 1 /\ (t = "torn" => G > 0)
        /\ k >= nextId => G = 0 /\ t = "whole" /\ s = <<>>
    BY <1>14 DEF IdNumbered
  <2>3. k >= nextId => s2 = s
    <3>1. \A d \in taking : conn[d].id < nextId /\ conn[d].id \in Nat
      BY <1>2, <1>3, ConnType, WebConnAssumption DEF WebSocketInv, IdsAreOld
    <3>2. nextId \in Nat
      BY WebConnAssumption DEF WebSocketInv, ServerTypeOK
    <3>3. QED
      BY <1>5, <1>6, <3>1, <3>2
  <2>4. ASSUME NEW d \in Conns, conn'[d].id = k
        PROVE  ConnNumbered(conn'[d], s2, G, t, n + 1)
    <3>1. CASE d \in taking
      <4>1. conn[d].id = k /\ conn[d].phase # "checked" /\ conn[d] \in Conn
        BY <1>2, <1>3, <2>4, <3>1 DEF Pumping
      <4>2. ConnNumbered(conn[d], s, G, t, n)
        BY <1>14, <4>1 DEF IdNumbered
      <4>3. s2 = IF Deliverable(n + 1) THEN Append(s, n + 1) ELSE s
        BY <1>7, <3>1, <4>1
      <4>4. n + 1 \in Broadcasts /\ n \in Nat
        BY <1>1, <1>2
      <4> HIDE DEF s, s2, n
      <4>5. ConnNumbered(conn'[d], s2, G, t, n + 1)
        BY <1>3, <2>1, <2>2, <3>1, <4>1, <4>2, <4>3, <4>4, TakesEvent
      <4>6. QED
        BY <4>5
    <3>2. CASE d \notin taking
      <4>1. Alike(conn[d], conn'[d]) /\ conn[d].id = k
        BY <1>4, <1>5, <2>4, <3>2 DEF Alike
      <4>2. s2 = s
        BY <1>3, <1>6, <1>8, <3>2, <4>1
      <4>3. ConnNumbered(conn[d], s, G, t, n) /\ conn[d] \in Conn /\ n \in Nat
        BY <1>2, <1>14, <4>1 DEF IdNumbered
      <4> HIDE DEF s, s2, n
      <4>4. ConnNumbered(conn[d], s, G, t, n + 1)
        BY <4>3, ConnLater
      <4>5. CASE conn[d].phase = "ended" /\ conn'[d].phase = "parked"
        <5>1. conn[d].phase # "checked"
          BY <4>5
        <5>2. ConnNumbered(conn'[d], s, G, t, n + 1)
          BY <4>1, <4>4, <4>5, <5>1, ConnEnds DEF Alike
        <5>3. QED
          BY <4>2, <5>2
      <4>6. CASE ~(conn[d].phase = "ended" /\ conn'[d].phase = "parked")
        <5>1. ConnNumbered(conn'[d], s, G, t, n + 1)
          BY <4>1, <4>4, <4>6, ConnSame DEF Alike
        <5>2. QED
          BY <4>2, <5>1
      <4>7. QED
        BY <4>5, <4>6
    <3>3. QED
      BY <3>1, <3>2
  <2>5. \A d \in Conns : conn'[d].reqId = k => conn'[d].reqSeq \in 1 .. G
    <3>1. \A d \in Conns : conn[d].reqId = k => conn[d].reqSeq \in 1 .. G
      BY <1>14 DEF IdNumbered
    <3>2. \A d \in Conns : conn'[d].reqId = k =>
             conn'[d].reqId = conn[d].reqId /\ conn'[d].reqSeq = conn[d].reqSeq
      BY <1>3, <1>4, <1>5 DEF Alike
    <3>3. QED
      BY <3>1, <3>2
  <2>6. ClientNumbered(k, stream[k], G)'
    <3>1. client' = client /\ last' = last /\ got' = got
      BY <1>1 DEF clientVars
    <3> SUFFICES ASSUME cid = k
                 PROVE  /\ ss \in 1 .. G /\ Len(got) = ss - 1
                        /\ \A i \in 1 .. Len(got) : got[i] = s2[i]
                        /\ After(last, s2, ss)
      BY <3>1 DEF ClientNumbered
    <3>2. /\ ss \in 1 .. G /\ Len(got) = ss - 1
          /\ \A i \in 1 .. Len(got) : got[i] = s[i]
          /\ After(last, s, ss)
      BY <1>14 DEF IdNumbered, ClientNumbered
    <3>3. \A i \in 1 .. Len(got) : i \in 1 .. Len(s)
      BY <2>1, <2>2, <3>2
    <3>4. After(last, s2, ss)
      BY <1>10, <3>2
    <3>5. QED
      BY <2>1, <3>2, <3>3, <3>4 DEF Continues
  <2>7. PendingNumbered(k, stream[k], G, t)'
    <3>1. client' = client /\ last' = last /\ sock' = sock
      BY <1>1 DEF clientVars
    <3> SUFFICES ASSUME client.conn # NoConn, NEW d \in Conns, d = client.conn
                 PROVE  /\ Wire(sock[d].toClient, cid, last, k, s2, G, t)
                        /\ conn'[d].id = k /\ conn'[d].phase \in {"checked", "start", "loop"} /\ G = 0
                           => After(last, s2, 1)
      BY <1>2, <3>1 DEF PendingNumbered, Pending
    <3>2. /\ Wire(sock[d].toClient, cid, last, k, s, G, t)
          /\ conn[d].id = k /\ conn[d].phase \in {"checked", "start", "loop"} /\ G = 0
             => After(last, s, 1)
      BY <1>14 DEF IdNumbered, PendingNumbered, Pending
    <3>3. After(last, s, 1) => After(last, s2, 1)
      BY <1>10
    <3>4. Wire(sock[d].toClient, cid, last, k, s2, G, t)
      <4>1. sock[d].toClient \in Seq(ConnMessage) /\ Grows(G, t, G, t)
        BY ConnType DEF WebSocketInv, Socket, Grows
      <4> HIDE DEF s, s2
      <4>2. QED
        BY <2>1, <3>2, <3>3, <4>1, WireKept
    <3>5. ASSUME conn'[d].id = k, conn'[d].phase \in {"checked", "start", "loop"}
          PROVE  conn[d].id = k /\ conn[d].phase \in {"checked", "start", "loop"}
      BY <1>3, <1>4, <1>5, <3>5 DEF Alike
    <3>6. QED
      BY <3>2, <3>3, <3>4, <3>5
  <2>8. /\ (k >= nextId => G = 0 /\ t = "whole" /\ stream[k] = <<>>)'
        /\ (G <= Len(stream[k]) + 1)'
    <3>1. nextId' = nextId
      BY <1>1
    <3>2. G <= Len(s2) + 1
      BY <2>1, <2>2
    <3>3. QED
      BY <2>2, <2>3, <3>1, <3>2
  <2>9. \A d \in Conns : conn'[d].id = k => ConnNumbered(conn'[d], stream'[k], G, t, broadcasts')
    BY <1>1, <2>4
  <2>10. QED
    BY <2>2, <2>5, <2>6, <2>7, <2>8, <2>9 DEF IdNumbered
<1>15. StreamNumbered'
  BY <1>14 DEF StreamInv, StreamNumbered
<1>16. QED
  BY <1>11, <1>12, <1>13, <1>15 DEF StreamInv

-----------------------------------------------------------------------------
(* The client.                                                             *)

LEMMA InitializeKeeps ==
    ASSUME WebSocketInv, StreamInv, NEW c \in Conns, Initialize(c)
    PROVE  StreamInv'
<1> DEFINE cid == client.connectionId
           ss == client.serverSequence
           new == [FreeConn EXCEPT !.phase = "upgraded", !.reqId = cid, !.reqSeq = ss]
<1>1. /\ conn' = [conn EXCEPT ![c] = new]
      /\ sock' = [sock EXCEPT ![c] = [up |-> TRUE, toClient |-> <<>>]]
      /\ client' = [client EXCEPT !.conn = c, !.open = FALSE]
      /\ stream' = stream /\ nextId' = nextId /\ broadcasts' = broadcasts
      /\ got' = got /\ last' = last
  BY DEF Initialize, hubVars
<1>2. /\ new.phase = "upgraded" /\ new.id = 0 /\ new.reqId = cid /\ new.reqSeq = ss
      /\ new.send = <<>> /\ new.Sequence = 0 /\ new.reuse = FALSE
      /\ new.deadQueue = NewDeadQueue /\ new.deadQueuePointer = 0
  BY DEF FreeConn
<1> HIDE DEF new
<1>3. /\ conn'[c] = new /\ \A d \in Conns : d # c => conn'[d] = conn[d]
      /\ sock'[c].toClient = <<>>
      /\ client'.conn = c /\ client'.connectionId = cid /\ client'.serverSequence = ss
  BY <1>1 DEF WebSocketInv, ServerTypeOK, ClientTypeOK, Client
<1>4. IdsAreGiven'
  BY <1>2, <1>3 DEF StreamInv, IdsAreGiven
<1>5. \A i \in 1 .. Len(<<>>) : FALSE
  OBVIOUS
<1>6. PeerInv'
  BY <1>2, <1>3, <1>5 DEF PeerInv, Peer, Pending
<1>7. StreamsIncrease' /\ (last <= broadcasts)' /\ UnbegunInv'
  BY <1>1, <1>3 DEF StreamInv, StreamsIncrease, UnbegunInv
<1>8. ASSUME NEW k \in Ids, NEW G \in Nat, NEW t \in Tears, IdNumbered(k, G, t)
      PROVE  IdNumbered(k, G, t)'
  <2>1. k # 0
    BY WebConnAssumption DEF Ids
  <2>2. \A d \in Conns : conn'[d].id = k => ConnNumbered(conn'[d], stream'[k], G, t, broadcasts')
    BY <1>1, <1>2, <1>3, <1>8, <2>1 DEF IdNumbered
  <2>3. cid = k => ss \in 1 .. G
    BY <1>8 DEF IdNumbered, ClientNumbered
  <2>4. \A d \in Conns : conn'[d].reqId = k => conn'[d].reqSeq \in 1 .. G
    BY <1>2, <1>3, <1>8, <2>3 DEF IdNumbered
  <2>5. ClientNumbered(k, stream[k], G)'
    BY <1>1, <1>3, <1>8 DEF IdNumbered, ClientNumbered
  <2>6. PendingNumbered(k, stream[k], G, t)'
    <3>1. Wire(<<>>, cid, last, k, stream[k], G, t)
      BY WireEmpty
    <3>2. QED
      BY <1>1, <1>2, <1>3, <2>1, <3>1 DEF PendingNumbered, Pending
  <2>7. /\ (k >= nextId => G = 0 /\ t = "whole" /\ stream[k] = <<>>)'
        /\ (G <= Len(stream[k]) + 1)'
        /\ t = "torn" => G > 0
    BY <1>1, <1>8 DEF IdNumbered
  <2>8. QED
    BY <2>2, <2>4, <2>5, <2>6, <2>7 DEF IdNumbered
<1>9. StreamNumbered'
  BY <1>8 DEF StreamInv, StreamNumbered
<1>10. QED
  BY <1>4, <1>6, <1>7, <1>9 DEF StreamInv

(* The client's socket opens, or it gives the socket up.                   *)
LEMMA SocketKeeps ==
    ASSUME StreamInv, UNCHANGED <<conn, stream, nextId, broadcasts, got, last>>,
           client'.connectionId = client.connectionId,
           client'.serverSequence = client.serverSequence,
           client'.conn = NoConn \/ (client'.conn = client.conn /\ sock' = sock)
    PROVE  StreamInv'
<1>1. IdsAreGiven' /\ StreamsIncrease' /\ (last <= broadcasts)' /\ UnbegunInv'
  BY DEF StreamInv, IdsAreGiven, StreamsIncrease, UnbegunInv
<1>2. PeerInv'
  BY DEF StreamInv, PeerInv, Pending
<1>3. ASSUME NEW k \in Ids, NEW G \in Nat, NEW t \in Tears, IdNumbered(k, G, t)
      PROVE  IdNumbered(k, G, t)'
  <2>1. ClientNumbered(k, stream[k], G)'
    BY <1>3 DEF IdNumbered, ClientNumbered
  <2>2. PendingNumbered(k, stream[k], G, t)'
    BY <1>3 DEF IdNumbered, PendingNumbered, Pending
  <2>3. QED
    BY <1>3, <2>1, <2>2 DEF IdNumbered
<1>4. StreamNumbered'
  BY <1>3 DEF StreamInv, StreamNumbered
<1>5. QED
  BY <1>1, <1>2, <1>4 DEF StreamInv

LEMMA OpenKeeps == ASSUME WebSocketInv, StreamInv, OnOpen \/ OnClose PROVE StreamInv'
<1>1. client \in Client
  BY DEF WebSocketInv, ClientTypeOK
<1>2. UNCHANGED <<conn, stream, nextId, broadcasts, got, last, sock>>
  BY DEF OnOpen, OnClose, connVars, hubVars
<1>3. /\ client'.connectionId = client.connectionId
      /\ client'.serverSequence = client.serverSequence
      /\ client'.conn = NoConn \/ client'.conn = client.conn
  BY <1>1 DEF OnOpen, OnClose, Client
<1>4. QED
  BY <1>2, <1>3, SocketKeeps

(* What the client knows of the message it is about to take.               *)
LEMMA Heard ==
    ASSUME WebSocketInv, StreamInv, Incoming
    PROVE  LET p == Pending
               cid == client.connectionId
           IN  /\ client.conn \in Conns /\ p \in Seq(ConnMessage) /\ p # <<>>
               /\ Msg = p[1] /\ Msg \in ConnMessage /\ Len(p) > 0
               /\ Msg.type = "hello" => Msg.seq = 0 /\ Msg.val \in Ids
               /\ Peer(conn[client.conn], sock[client.conn].up, p, cid, client.serverSequence)
               /\ conn[client.conn].phase \notin {"upgraded", "checked", "start"}
               /\ conn[client.conn].phase = "loop" => conn[client.conn].Sequence # 0
               /\ cid \in 0 .. MaxIds /\ client.serverSequence \in Nat
               /\ \A G \in Nat, t \in Tears, k \in Ids :
                     IdNumbered(k, G, t) => Wire(p, cid, last, k, stream[k], G, t)
<1>1. /\ client.conn # NoConn /\ client.conn \in Conns /\ Pending # <<>>
      /\ client.connectionId \in 0 .. MaxIds /\ client.serverSequence \in Nat
  BY DEF Incoming, Pending, WebSocketInv, ClientTypeOK, Client
<1>2. Pending \in Seq(ConnMessage)
  BY <1>1, ConnType DEF WebSocketInv, Socket, Pending
<1>3. Msg = Pending[1] /\ Msg \in ConnMessage /\ Len(Pending) > 0 /\ 1 \in 1 .. Len(Pending)
  BY <1>1, <1>2, QueueFacts DEF Msg, Pending
<1>4. Peer(conn[client.conn], sock[client.conn].up, Pending, client.connectionId, client.serverSequence)
  BY <1>1 DEF StreamInv, PeerInv
<1>5. Msg.type = "hello" => Msg.seq = 0 /\ Msg.val \in Ids
  BY <1>3, <1>4 DEF Peer, ConnMessage
<1>6. /\ conn[client.conn].phase \notin {"upgraded", "checked", "start"}
      /\ conn[client.conn].phase = "loop" => conn[client.conn].Sequence # 0
  BY <1>1, <1>4 DEF Peer
<1>7. \A G \in Nat, t \in Tears, k \in Ids :
         IdNumbered(k, G, t) => Wire(Pending, client.connectionId, last, k, stream[k], G, t)
  BY <1>1 DEF IdNumbered, PendingNumbered
<1>8. QED
  BY <1>1, <1>2, <1>3, <1>4, <1>5, <1>6, <1>7

(* A hello is never out of order.                                          *)
LEMMA HelloIsExpected ==
    ASSUME WebSocketInv, StreamInv, Incoming, NewStream
    PROVE  Msg.type = "hello" /\ Msg.seq = 0 /\ ExpectedSeq = 0 /\ Msg.val \in Ids
<1>1. Msg.type = "hello" /\ Msg.seq = 0 /\ Msg.val \in Ids
  BY Heard DEF NewStream
<1>2. ExpectedSeq = 0
  BY DEF StreamInv, UnbegunInv, ExpectedSeq
<1>3. QED
  BY <1>1, <1>2

LEMMA MismatchKeeps == ASSUME WebSocketInv, StreamInv, OnMismatch PROVE StreamInv'
<1>1. Incoming /\ Msg.seq # ExpectedSeq
  BY DEF OnMismatch
<1>2. ~NewStream
  BY <1>1, HelloIsExpected
<1>3. KnownId = client.connectionId /\ ExpectedSeq = client.serverSequence
  BY <1>2 DEF KnownId, ExpectedSeq, NewStream
<1>4. /\ UNCHANGED <<conn, stream, nextId, broadcasts, got, last>>
      /\ client'.connectionId = client.connectionId
      /\ client'.serverSequence = client.serverSequence
      /\ client'.conn = NoConn
  BY <1>2, <1>3 DEF OnMismatch, hubVars, WebSocketInv, ClientTypeOK, Client
<1>5. QED
  BY <1>4, SocketKeeps

(* The client takes a message and stays connected.                         *)
LEMMA ClientTakes ==
    ASSUME WebSocketInv, StreamInv, Incoming, Taken,
           UNCHANGED <<conn, stream, nextId, broadcasts>>,
           client'.conn = client.conn, client'.connectionId = KnownId,
           NEW k \in Ids, NEW G \in Nat, NEW t \in Tears, IdNumbered(k, G, t),
           ClientNumbered(k, stream[k], G)'
    PROVE  IdNumbered(k, G, t)'
<1> DEFINE p == Pending
           cid == client.connectionId
           s == stream[k]
<1>1. /\ client.conn \in Conns /\ p \in Seq(ConnMessage) /\ p # <<>>
      /\ Msg = p[1]
      /\ \A i \in 1 .. Len(p) : p[i].type = "hello" => i = 1
      /\ conn[client.conn].phase \notin {"upgraded", "checked", "start"}
      /\ conn[client.conn].phase = "loop" => conn[client.conn].Sequence # 0
      /\ Wire(p, cid, last, k, s, G, t)
  BY Heard DEF Peer
<1>2. KnownId = IF p[1].type = "hello" THEN p[1].val ELSE cid
  BY <1>1 DEF KnownId
<1>3. sock'[client.conn].toClient = Tail(p)
  BY <1>1 DEF Taken, Pending, WebSocketInv, ServerTypeOK, Socket
<1>4. Wire(Tail(p), KnownId, last', k, s, G, t)
  <2> HIDE DEF p, s
  <2>1. QED
    BY <1>1, <1>2, WireTail
<1>5. PendingNumbered(k, stream[k], G, t)'
  <2>1. ASSUME conn[client.conn].id = k, conn[client.conn].phase \in {"checked", "start", "loop"}, G = 0
        PROVE  FALSE
    <3>1. conn[client.conn].phase = "loop" /\ conn[client.conn].Sequence # 0
      BY <1>1, <2>1
    <3>2. PumpNumbered(conn[client.conn], G, t)
      BY <1>1, <2>1 DEF IdNumbered, ConnNumbered
    <3>3. QED
      BY <2>1, <3>1, <3>2 DEF PumpNumbered
  <2>2. QED
    BY <1>3, <1>4, <2>1 DEF PendingNumbered, Pending
<1>6. QED
  BY <1>5 DEF IdNumbered

LEMMA PeerTakes ==
    ASSUME WebSocketInv, StreamInv, Incoming, Taken,
           UNCHANGED conn, client'.conn = client.conn, client'.connectionId = KnownId
    PROVE  PeerInv' /\ IdsAreGiven'
<1> DEFINE p == Pending
           cid == client.connectionId
           wc == conn[client.conn]
<1>1. /\ client.conn \in Conns /\ p \in Seq(ConnMessage) /\ p # <<>>
      /\ Msg = p[1]
      /\ Peer(wc, sock[client.conn].up, p, cid, client.serverSequence)
      /\ wc.phase \notin {"upgraded", "checked", "start"}
      /\ wc.phase = "loop" => wc.Sequence # 0
  BY Heard
<1>2. KnownId = IF p[1].type = "hello" THEN p[1].val ELSE cid
  BY <1>1 DEF KnownId
<1>3. sock'[client.conn].toClient = Tail(p) /\ sock'[client.conn].up = sock[client.conn].up
  BY <1>1 DEF Taken, Pending, WebSocketInv, ServerTypeOK, Socket
<1>4. \A i \in 1 .. Len(p) : p[i].type = "hello" => i = 1
  BY <1>1 DEF Peer
<1>5. /\ KnownId = HeardId(p, cid) /\ HeardId(Tail(p), KnownId) = KnownId
      /\ \A i \in 1 .. Len(Tail(p)) : /\ i + 1 \in 1 .. Len(p) /\ Tail(p)[i] = p[i + 1]
                                      /\ Tail(p)[i].type # "hello"
  <2> HIDE DEF p
  <2>1. QED
    BY <1>1, <1>2, <1>4, HeardTail
<1>6. HeardId(Tail(p), KnownId) = 0 => \A i \in 1 .. Len(Tail(p)) : Tail(p)[i].type = "response"
  BY <1>1, <1>5 DEF Peer
<1>7. Peer(wc, sock[client.conn].up, Tail(p), KnownId, client'.serverSequence)
  <2> HIDE DEF p, wc
  <2>1. QED
    BY <1>1, <1>5, <1>6 DEF Peer
<1>8. PeerInv'
  BY <1>3, <1>7 DEF PeerInv, Pending
<1>9. QED
  BY <1>8 DEF StreamInv, IdsAreGiven

LEMMA OnResponseKeeps == ASSUME WebSocketInv, StreamInv, OnResponse PROVE StreamInv'
<1>1. /\ Incoming /\ Taken /\ UNCHANGED <<conn, stream, nextId, broadcasts, clientVars>>
      /\ KnownId = client.connectionId
  BY DEF OnResponse, KnownId, hubVars
<1>2. /\ client' = client /\ got' = got /\ last' = last
      /\ client'.conn = client.conn /\ client'.connectionId = KnownId
      /\ conn' = conn /\ stream' = stream /\ nextId' = nextId /\ broadcasts' = broadcasts
  BY <1>1 DEF clientVars
<1>3. PeerInv' /\ IdsAreGiven'
  BY <1>1, <1>2, PeerTakes
<1>4. ASSUME NEW k \in Ids, NEW G \in Nat, NEW t \in Tears, IdNumbered(k, G, t)
      PROVE  IdNumbered(k, G, t)'
  <2>1. ClientNumbered(k, stream[k], G)'
    BY <1>2, <1>4 DEF IdNumbered, ClientNumbered
  <2>2. QED
    BY <1>1, <1>2, <1>4, <2>1, ClientTakes
<1>5. StreamNumbered'
  BY <1>4 DEF StreamInv, StreamNumbered
<1>6. StreamsIncrease' /\ (last <= broadcasts)' /\ UnbegunInv'
  BY <1>2 DEF StreamInv, StreamsIncrease, UnbegunInv
<1>7. QED
  BY <1>3, <1>5, <1>6 DEF StreamInv

(* An expected event is the next of the client's stream.                   *)
LEMMA EventIsNext ==
    ASSUME WebSocketInv, StreamInv, Incoming, Msg.type = "event", Msg.seq = ExpectedSeq,
           NEW k \in Ids, k = client.connectionId, NEW G \in Nat, NEW t \in Tears, IdNumbered(k, G, t)
    PROVE  /\ Msg.seq = client.serverSequence /\ Msg.seq + 1 \in 1 .. G
           /\ Msg.seq \in 1 .. Len(stream[k]) /\ Msg.val = stream[k][Msg.seq]
           /\ Msg.val > last
<1> DEFINE p == Pending
           ss == client.serverSequence
           s == stream[k]
<1>1. /\ p \in Seq(ConnMessage) /\ Len(p) > 0 /\ Msg = p[1] /\ ss \in Nat
      /\ Wire(p, k, last, k, s, G, t)
  BY Heard
<1>2. Msg.seq = ss
  BY DEF ExpectedSeq, NewStream
<1>3. 1 \in 1 .. Len(p) /\ HeardId(p, k) = k
  BY <1>1, QueueFacts DEF HeardId
<1>4. Numbered(Msg, s, G, t)
  BY <1>1, <1>3 DEF Wire
<1>5. ss \in 1 .. G /\ After(last, s, ss)
  BY DEF IdNumbered, ClientNumbered
<1>6. ss < G
  BY <1>2, <1>4, <1>5 DEF Numbered
<1>7. ss \in 1 .. Len(s) /\ Msg.val = s[ss]
  BY <1>2, <1>4, <1>6 DEF Numbered
<1>8. Len(s) \in Nat
  BY StreamType DEF StreamInv, StreamsIncrease
<1>9. s[ss] > last
  BY <1>5, <1>7, <1>8 DEF After
<1>10. QED
  BY <1>2, <1>5, <1>6, <1>7, <1>9

(* The client hears an event only when it has a stream.                    *)
LEMMA EventNeedsId ==
    ASSUME WebSocketInv, StreamInv, Incoming, Msg.type = "event"
    PROVE  client.connectionId \in Ids
<1>1. /\ Peer(conn[client.conn], sock[client.conn].up, Pending, client.connectionId, client.serverSequence)
      /\ Msg = Pending[1] /\ Len(Pending) > 0 /\ Pending \in Seq(ConnMessage)
      /\ client.connectionId \in 0 .. MaxIds
  BY Heard
<1>2. 1 \in 1 .. Len(Pending)
  BY <1>1, QueueFacts
<1>3. HeardId(Pending, client.connectionId) # 0
  BY <1>1, <1>2 DEF Peer
<1>4. client.connectionId # 0
  BY <1>1, <1>3 DEF HeardId
<1>5. QED
  BY <1>1, <1>4, WebConnAssumption DEF Ids

(* What onmessage does with a message in its order: a hello begins a       *)
(* stream, an event is the next of the stream.                             *)
LEMMA OnEventIs ==
    ASSUME WebSocketInv, StreamInv, OnEvent
    PROVE  /\ Incoming /\ Taken
           /\ conn' = conn /\ stream' = stream /\ nextId' = nextId /\ broadcasts' = broadcasts
           /\ client'.conn = client.conn /\ client'.connectionId = KnownId
           /\ \/ /\ Msg.type = "hello" /\ NewStream /\ Msg.val \in Ids /\ KnownId = Msg.val
                 /\ client'.serverSequence = 1 /\ got' = <<>> /\ last' = last
              \/ /\ Msg.type = "event" /\ Msg.seq = ExpectedSeq /\ ~NewStream
                 /\ client.connectionId \in Ids /\ KnownId = client.connectionId
                 /\ client'.serverSequence = Msg.seq + 1
                 /\ got' = Append(got, Msg.val) /\ last' = Msg.val
<1>1. /\ Incoming /\ Taken /\ Msg.seq = ExpectedSeq /\ Msg.type # "response"
      /\ conn' = conn /\ stream' = stream /\ nextId' = nextId /\ broadcasts' = broadcasts
      /\ got' = IF NewStream THEN <<>> ELSE IF Msg.type = "event" THEN Append(got, Msg.val) ELSE got
      /\ last' = IF Msg.type = "event" THEN Msg.val ELSE last
  BY DEF OnEvent, hubVars
<1>2. /\ client'.conn = client.conn /\ client'.connectionId = KnownId
      /\ client'.serverSequence = Msg.seq + 1
  BY DEF OnEvent, WebSocketInv, ClientTypeOK, Client
<1>3. Msg \in ConnMessage
  BY <1>1, Heard
<1>4. CASE Msg.type = "event"
  <2>1. client.connectionId \in Ids /\ ~NewStream /\ KnownId = client.connectionId
    BY <1>1, <1>4, EventNeedsId DEF NewStream, KnownId
  <2>2. QED
    BY <1>1, <1>2, <1>4, <2>1
<1>5. CASE Msg.type = "hello"
  <2>1. Msg.seq = 0 /\ Msg.val \in Ids /\ KnownId = Msg.val
    BY <1>1, <1>5, Heard DEF KnownId
  <2>2. NewStream
    <3> SUFFICES ASSUME ~NewStream PROVE FALSE
      OBVIOUS
    <3>1. PICK k \in Ids : k = client.connectionId
      BY <1>5, <2>1 DEF NewStream
    <3>2. PICK G \in Nat, t \in Tears : IdNumbered(k, G, t)
      BY DEF StreamInv, StreamNumbered
    <3>3. client.serverSequence \in 1 .. G
      BY <3>1, <3>2 DEF IdNumbered, ClientNumbered
    <3>4. ExpectedSeq = client.serverSequence
      BY DEF ExpectedSeq
    <3>5. client.serverSequence = 0
      BY <1>1, <2>1, <3>4
    <3>6. ~(0 \in 1 .. G)
      OBVIOUS
    <3>7. QED
      BY <3>3, <3>5, <3>6
  <2>3. QED
    BY <1>1, <1>2, <1>5, <2>1, <2>2
<1>6. QED
  BY <1>1, <1>3, <1>4, <1>5 DEF ConnMessage, Message

LEMMA OnEventKeeps == ASSUME WebSocketInv, StreamInv, OnEvent PROVE StreamInv'
<1>1. /\ Incoming /\ Taken
      /\ conn' = conn /\ stream' = stream /\ nextId' = nextId /\ broadcasts' = broadcasts
      /\ client'.conn = client.conn /\ client'.connectionId = KnownId
  BY OnEventIs
<1>2. PeerInv' /\ IdsAreGiven'
  BY <1>1, PeerTakes
<1>3. StreamsIncrease'
  BY <1>1 DEF StreamInv, StreamsIncrease
<1>4. /\ Pending \in Seq(ConnMessage) /\ Len(Pending) > 0 /\ Msg = Pending[1]
      /\ client.connectionId \in 0 .. MaxIds
  BY <1>1, Heard
<1>5. CASE /\ Msg.type = "hello" /\ NewStream /\ Msg.val \in Ids /\ KnownId = Msg.val
           /\ client'.serverSequence = 1 /\ got' = <<>> /\ last' = last
  <2>1. (last <= broadcasts)' /\ UnbegunInv'
    BY <1>1, <1>5, WebConnAssumption DEF StreamInv, UnbegunInv, Ids
  <2>2. ASSUME NEW k \in Ids, NEW G \in Nat, NEW t \in Tears, IdNumbered(k, G, t)
        PROVE  IdNumbered(k, G, t)'
    <3>1. ClientNumbered(k, stream[k], G)'
      <4> SUFFICES ASSUME Msg.val = k
                   PROVE  1 \in 1 .. G /\ After(last, stream[k], 1)
        BY <1>1, <1>5 DEF ClientNumbered
      <4>1. Wire(Pending, client.connectionId, last, k, stream[k], G, t)
        BY <1>1, <2>2, Heard
      <4>2. Pending # <<>>
        BY <1>4, QueueFacts
      <4>3. HeardId(Pending, client.connectionId) = k /\ client.connectionId # k
        BY <1>4, <1>5, <4>2 DEF HeardId, NewStream
      <4>4. G > 0 /\ After(last, stream[k], 1)
        BY <4>1, <4>3 DEF Wire
      <4>5. QED
        BY <4>4
    <3>2. QED
      BY <1>1, <2>2, <3>1, ClientTakes
  <2>3. StreamNumbered'
    BY <2>2 DEF StreamInv, StreamNumbered
  <2>4. QED
    BY <1>2, <1>3, <2>1, <2>3 DEF StreamInv
<1>6. CASE /\ Msg.type = "event" /\ Msg.seq = ExpectedSeq /\ ~NewStream
           /\ client.connectionId \in Ids /\ KnownId = client.connectionId
           /\ client'.serverSequence = Msg.seq + 1
           /\ got' = Append(got, Msg.val) /\ last' = Msg.val
  <2>1. PICK h \in Ids : h = client.connectionId
    BY <1>6
  <2>2. ASSUME NEW G \in Nat, NEW t \in Tears, IdNumbered(h, G, t)
        PROVE  /\ Msg.seq = client.serverSequence /\ Msg.seq + 1 \in 1 .. G
               /\ Msg.seq \in 1 .. Len(stream[h]) /\ Msg.val = stream[h][Msg.seq]
               /\ Msg.val > last
    BY <1>1, <1>6, <2>1, <2>2, EventIsNext
  <2>3. stream[h] \in Seq(Broadcasts) /\ Len(stream[h]) \in Nat
        /\ \A i \in 1 .. Len(stream[h]) : stream[h][i] <= broadcasts /\ stream[h][i] \in Nat
    BY StreamType DEF StreamInv, StreamsIncrease
  <2>4. last' <= broadcasts
    <3>1. \E G \in Nat, t \in Tears : IdNumbered(h, G, t)
      BY DEF StreamInv, StreamNumbered
    <3>2. QED
      BY <1>6, <2>2, <2>3, <3>1
  <2>5. (last <= broadcasts)' /\ UnbegunInv'
    <3>1. client'.connectionId # 0
      BY <1>1, <1>6, WebConnAssumption DEF Ids
    <3>2. QED
      BY <1>1, <2>4, <3>1 DEF UnbegunInv
  <2>6. ASSUME NEW k \in Ids, NEW G \in Nat, NEW t \in Tears, IdNumbered(k, G, t)
        PROVE  IdNumbered(k, G, t)'
    <3>1. ClientNumbered(k, stream[k], G)'
      <4> SUFFICES ASSUME h = k
                   PROVE  /\ Msg.seq + 1 \in 1 .. G
                          /\ Len(got') = Msg.seq
                          /\ \A i \in 1 .. Len(got') : got'[i] = stream[k][i]
                          /\ After(Msg.val, stream[k], Msg.seq + 1)
        BY <1>1, <1>6, <2>1 DEF ClientNumbered
      <4>1. /\ Msg.seq = client.serverSequence /\ Msg.seq + 1 \in 1 .. G
            /\ Msg.seq \in 1 .. Len(stream[k]) /\ Msg.val = stream[k][Msg.seq]
        BY <2>2, <2>6
      <4>2. /\ Len(got) = Msg.seq - 1
            /\ \A i \in 1 .. Len(got) : got[i] = stream[k][i]
        BY <2>1, <2>6, <4>1 DEF IdNumbered, ClientNumbered
      <4>3. /\ Len(got') = Len(got) + 1 /\ got'[Len(got) + 1] = Msg.val
            /\ \A i \in 1 .. Len(got) : got'[i] = got[i]
        <5>1. got \in Seq(Nat) /\ Msg.val \in Nat
          BY <2>3, <4>1 DEF WebSocketInv, ClientTypeOK
        <5>2. QED
          BY <1>6, <5>1, AppendFacts
      <4>4. \A i \in 1 .. Len(got') : i \in 1 .. Len(got) \/ i = Len(got) + 1
        BY <4>1, <4>2, <4>3
      <4>5. \A i \in 1 .. Len(got') : got'[i] = stream[k][i]
        BY <4>1, <4>2, <4>3, <4>4
      <4>6. After(Msg.val, stream[k], Msg.seq + 1)
        <5>1. \A i, j \in 1 .. Len(stream[k]) : i < j => stream[k][i] < stream[k][j]
          BY DEF StreamInv, StreamsIncrease
        <5>2. QED
          BY <2>3, <4>1, <5>1 DEF After
      <4>7. QED
        BY <4>1, <4>2, <4>3, <4>5, <4>6
    <3>2. QED
      BY <1>1, <2>6, <3>1, ClientTakes
  <2>7. StreamNumbered'
    BY <2>6 DEF StreamInv, StreamNumbered
  <2>8. QED
    BY <1>2, <1>3, <2>5, <2>7 DEF StreamInv
<1>7. QED
  BY <1>5, <1>6, OnEventIs

-----------------------------------------------------------------------------

LEMMA InitStream == Init => StreamInv
<1> SUFFICES ASSUME Init PROVE StreamInv
  OBVIOUS
<1>1. /\ \A c \in Conns : conn[c] = FreeConn
      /\ stream = [id \in Ids |-> <<>>] /\ broadcasts = 0 /\ last = 0 /\ got = <<>>
      /\ client.conn = NoConn /\ client.connectionId = 0 /\ client.serverSequence = 0
  BY DEF Init, HubInit, ConnInit
<1>2. FreeConn.id = 0 /\ FreeConn.reqId = 0 /\ FreeConn.phase = "free"
  BY DEF FreeConn
<1>3. \A k \in Ids : k # 0 /\ stream[k] = <<>>
  BY <1>1, WebConnAssumption DEF Ids
<1>4. StreamsIncrease
  <2>1. \A i \in 1 .. Len(<<>>) : FALSE
    OBVIOUS
  <2>2. stream \in [Ids -> Seq(Broadcasts)]
    BY <1>1
  <2>3. QED
    BY <1>3, <2>1, <2>2 DEF StreamsIncrease
<1>5. \A k \in Ids : IdNumbered(k, 0, "whole")
  <2> SUFFICES ASSUME NEW k \in Ids PROVE IdNumbered(k, 0, "whole")
    OBVIOUS
  <2>1. \A c \in Conns : conn[c].id # k /\ conn[c].reqId # k
    BY <1>1, <1>2, <1>3
  <2>2. ClientNumbered(k, stream[k], 0) /\ PendingNumbered(k, stream[k], 0, "whole")
    BY <1>1, <1>3 DEF ClientNumbered, PendingNumbered
  <2>3. 0 <= Len(stream[k]) + 1
    BY <1>3
  <2>4. QED
    BY <1>3, <2>1, <2>2, <2>3 DEF IdNumbered
<1>6. StreamNumbered
  BY <1>5 DEF StreamNumbered, Tears
<1>7. IdsAreGiven /\ PeerInv /\ UnbegunInv /\ last <= broadcasts
  BY <1>1, <1>2 DEF IdsAreGiven, PeerInv, UnbegunInv
<1>8. QED
  BY <1>4, <1>6, <1>7 DEF StreamInv

LEMMA StreamStep == WebSocketInv /\ StreamInv /\ [Next]_vars => StreamInv'
<1> SUFFICES ASSUME WebSocketInv, StreamInv, [Next]_vars PROVE StreamInv'
  OBVIOUS
<1>1. ASSUME NEW c \in Conns, Pump(c), UNCHANGED <<hubVars, clientVars>> PROVE StreamInv'
  BY <1>1, StartKeeps, LostKeeps, DrainKeeps, SkipKeeps, EventKeeps, ResponseKeeps, EndKeeps,
     ReadKeeps DEF Pump
<1>2. ASSUME NEW c \in Conns, HubStep(c), UNCHANGED clientVars PROVE StreamInv'
  BY <1>2, CheckNewKeeps, CheckFoundKeeps, RegisterKeeps, GoneKeeps DEF HubStep
<1>3. ASSUME NEW c \in Conns, Server(c), UNCHANGED clientVars PROVE StreamInv'
  BY <1>1, <1>2, <1>3, GoneKeeps, SendKeeps DEF Server
<1>4. CASE (Broadcast \/ InvalidateFails \/ Restart) /\ UNCHANGED clientVars
  BY <1>4, BroadcastKeeps, AllGoneKeeps
<1>5. CASE \E c \in Conns : Initialize(c)
  BY <1>5, InitializeKeeps
<1>6. CASE OnOpen \/ OnClose \/ OnEvent \/ OnMismatch \/ OnResponse
  BY <1>6, OpenKeeps, OnEventKeeps, MismatchKeeps, OnResponseKeeps
<1>7. CASE UNCHANGED vars
  <2>1. /\ conn' = conn /\ sock' = sock
        /\ UNCHANGED <<stream, nextId, broadcasts, clientVars>>
    BY <1>7 DEF vars, connVars, hubVars
  <2>2. /\ \A d \in Conns : conn'[d] = FreeConn \/ Alike(conn[d], conn'[d])
        /\ \A d \in Conns :
              \/ sock'[d].toClient = sock[d].toClient /\ (sock'[d].up => sock[d].up)
              \/ sock'[d].toClient = <<>> /\ ~sock'[d].up
    BY <2>1, AlikeSelf
  <2>3. QED
    BY <2>1, <2>2, LessServed
<1>8. QED
  BY <1>3, <1>4, <1>5, <1>6, <1>7 DEF Next

(* The numbers agree in every behaviour: in a dead queue, on the way to    *)
(* the client and in its serverSequence, an event has the number it has in *)
(* the stream of its connection id.                                        *)
THEOREM StreamInvariant == Spec => [](WebSocketInv /\ StreamInv)
<1>1. QED
  BY InitInv, StepInv, InitStream, StreamStep, PTL DEF Spec

(* The variables keep their types, the history of the broadcasts included. *)
THEOREM AllTypesCorrect == Spec => []TypeOK
<1>1. WebSocketInv /\ StreamInv => TypeOK
  <2> SUFFICES ASSUME WebSocketInv, StreamInv PROVE TypeOK
    OBVIOUS
  <2>1. \A k \in Ids : stream[k] \in Seq(Nat)
    BY StreamType DEF StreamInv, StreamsIncrease
  <2>2. stream \in [Ids -> Seq(Nat)]
    BY <2>1 DEF StreamInv, StreamsIncrease
  <2>3. QED
    BY <2>2 DEF WebSocketInv, TypeOK
<1>2. QED
  BY <1>1, StreamInvariant, PTL

LEMMA PrefixHolds == WebSocketInv /\ StreamInv => DeliveredIsPrefix
<1> SUFFICES ASSUME WebSocketInv, StreamInv PROVE DeliveredIsPrefix
  OBVIOUS
<1>1. client.connectionId \in 0 .. MaxIds /\ got \in Seq(Nat)
  BY DEF WebSocketInv, ClientTypeOK, Client
<1>2. CASE client.connectionId = 0
  <2>1. got = <<>> /\ Accepted = <<>>
    BY <1>2 DEF StreamInv, UnbegunInv, Accepted
  <2>2. QED
    BY <2>1 DEF DeliveredIsPrefix
<1>3. CASE client.connectionId # 0
  <2>1. PICK k \in Ids : k = client.connectionId
    BY <1>1, <1>3, WebConnAssumption DEF Ids
  <2>2. PICK G \in Nat, t \in Tears : IdNumbered(k, G, t)
    BY DEF StreamInv, StreamNumbered
  <2>3. /\ client.serverSequence \in 1 .. G /\ Len(got) = client.serverSequence - 1
        /\ \A i \in 1 .. Len(got) : got[i] = stream[k][i]
        /\ G <= Len(stream[k]) + 1
    BY <2>1, <2>2 DEF IdNumbered, ClientNumbered
  <2>4. Accepted = stream[k] /\ Len(stream[k]) \in Nat
    BY <1>3, <2>1, StreamType DEF Accepted, StreamInv, StreamsIncrease
  <2>5. Len(got) <= Len(Accepted)
    BY <2>3, <2>4
  <2>6. \A i \in DOMAIN got : got[i] = Accepted[i]
    BY SMTT(30), <1>1, <2>3, <2>4
  <2>7. QED
    BY <2>5, <2>6 DEF DeliveredIsPrefix
<1>4. QED
  BY <1>2, <1>3

(* What the listeners of the client have been given is a prefix of what    *)
(* was taken for its connection id: no event lost, repeated or overtaken,  *)
(* however often the socket breaks, the server restarts, queues fill up or *)
(* events are skipped.                                                     *)
THEOREM DeliveredIsPrefixAlways == Spec => []DeliveredIsPrefix
<1>1. QED
  BY PrefixHolds, StreamInvariant, PTL

-----------------------------------------------------------------------------
(* The listeners are called by onmessage only.                             *)
LEMMA OthersGiveNothing ==
    ASSUME WebSocketInv, StreamInv, [Next]_vars, ~OnEvent
    PROVE  got' = got /\ client'.connectionId = client.connectionId /\ missed' = missed
<1> DEFINE Same == got' = got /\ client'.connectionId = client.connectionId /\ missed' = missed
<1>1. CASE UNCHANGED clientVars
  BY <1>1 DEF clientVars
<1>2. CASE \E c \in Conns : Initialize(c)
  BY <1>2 DEF Initialize, WebSocketInv, ClientTypeOK, Client
<1>3. CASE OnOpen \/ OnClose
  BY <1>3 DEF OnOpen, OnClose, WebSocketInv, ClientTypeOK, Client
<1>4. CASE OnMismatch
  <2>1. Incoming /\ Msg.seq # ExpectedSeq
    BY <1>4 DEF OnMismatch
  <2>2. ~NewStream
    BY <2>1, HelloIsExpected
  <2>3. KnownId = client.connectionId
    BY <2>2 DEF KnownId, NewStream
  <2>4. got' = got /\ missed' = missed
    BY <1>4, <2>2 DEF OnMismatch, HearHello
  <2>5. client'.connectionId = client.connectionId
    BY <1>4, <2>3 DEF OnMismatch, WebSocketInv, ClientTypeOK, Client
  <2>6. QED
    BY <2>4, <2>5
<1>5. CASE OnResponse
  BY <1>5 DEF OnResponse, clientVars
<1>6. CASE UNCHANGED vars
  BY <1>6 DEF vars, clientVars
<1>7. QED
  BY <1>1, <1>2, <1>3, <1>4, <1>5, <1>6 DEF Next

LEMMA NothingIsRepeated ==
    ASSUME WebSocketInv, StreamInv, [Next]_vars
    PROVE  \A i \in DOMAIN got' : got' # got /\ i = Len(got') => got'[i] > last
<1>1. CASE ~OnEvent
  BY <1>1, OthersGiveNothing
<1>2. CASE OnEvent
  <2>1. CASE got' = <<>>
    BY <2>1
  <2>2. CASE /\ Msg.type = "event" /\ Msg.seq = ExpectedSeq /\ client.connectionId \in Ids
             /\ got' = Append(got, Msg.val)
    <3>1. PICK k \in Ids : k = client.connectionId
      BY <2>2
    <3>2. PICK G \in Nat, t \in Tears : IdNumbered(k, G, t)
      BY DEF StreamInv, StreamNumbered
    <3>3. Incoming
      BY <1>2 DEF OnEvent
    <3>4. Msg.val > last
      BY <2>2, <3>1, <3>2, <3>3, EventIsNext
    <3>5. Msg.val \in Nat
      BY <3>3, Heard, QueueFacts DEF ConnMessage, Message
    <3>6. got \in Seq(Nat)
      BY DEF WebSocketInv, ClientTypeOK
    <3>7. Len(got') = Len(got) + 1 /\ got'[Len(got) + 1] = Msg.val
      BY <2>2, <3>5, <3>6, AppendFacts
    <3>8. QED
      BY <3>4, <3>7
  <2>3. QED
    BY <1>2, <2>1, <2>2, OnEventIs
<1>3. QED
  BY <1>1, <1>2

(* Nothing reaches the listeners that has reached them before, nor after a *)
(* later broadcast has, over all the streams a client goes through.        *)
THEOREM NeverRepeatedAlways == Spec => NeverRepeated
<1>1. WebSocketInv /\ StreamInv /\ [Next]_vars =>
        [\A i \in DOMAIN got' : got' # got /\ i = Len(got') => got'[i] > last]_vars
  BY NothingIsRepeated
<1>2. QED
  BY <1>1, StreamInvariant, PTL DEF Spec, NeverRepeated

-----------------------------------------------------------------------------
(* The refinement.                                                         *)

(* The hub takes a broadcast for the stream of the client, or not.         *)
LEMMA OwnStreamGoesOn ==
    ASSUME WebSocketInv, StreamInv, [Next]_vars, NEW k \in Ids, k = client.connectionId
    PROVE  stream'[k] = stream[k] \/ \E n \in Broadcasts : stream'[k] = Append(stream[k], n)
<1>1. CASE stream' = stream
  BY <1>1
<1>2. ASSUME NEW c \in Conns, StartLost(c) PROVE stream'[k] = stream[k]
  <2>1. nextId \in Ids /\ stream' = [stream EXCEPT ![nextId] = Shown(conn[c].send)]
    BY <1>2 DEF StartLost
  <2>2. k # nextId
    BY <2>1, UnknownId
  <2>3. QED
    BY <2>1, <2>2 DEF StreamInv, StreamsIncrease
<1>3. CASE Broadcast
  <2> DEFINE n == broadcasts + 1
  <2>1. n \in Broadcasts
    BY <1>3 DEF Broadcast
  <2>2. stream'[k] = stream[k] \/ stream'[k] = Append(stream[k], n)
    BY <1>3 DEF Broadcast
  <2> HIDE DEF n
  <2>3. QED
    BY <2>1, <2>2
<1>4. ASSUME NEW c \in Conns, Server(c) PROVE stream' = stream \/ StartLost(c)
  BY <1>4 DEF Server, Pump, HubStep, StartFresh, StartFound, StartLossless, Drain, PumpSkip,
     PumpEvent, PumpResponse, PumpClosed, PumpEnds, ReadFails, CheckConnNew, CheckConnFound,
     Register, Unregister, RegisterFails, SendMessage, RemoveInactiveConnection, Break
<1>5. ASSUME OnOpen \/ OnClose \/ OnEvent \/ OnMismatch \/ OnResponse PROVE stream' = stream
  BY <1>5 DEF OnOpen, OnClose, OnEvent, OnMismatch, OnResponse, connVars
<1>6. ASSUME InvalidateFails \/ Restart \/ \E c \in Conns : Initialize(c) PROVE stream' = stream
  BY <1>6 DEF InvalidateFails, Restart, Initialize
<1>7. CASE UNCHANGED vars
  BY <1>7 DEF vars, connVars
<1>8. QED
  BY <1>1, <1>2, <1>3, <1>4, <1>5, <1>6, <1>7 DEF Next

LEMMA StreamStarts == Init => Stream!Init
BY DEF Init, Stream!Init, Accepted

LEMMA StreamGoesOn ==
    ASSUME WebSocketInv, StreamInv, [Next]_vars
    PROVE  [Stream!Next]_Stream!vars
<1> DEFINE cid == client.connectionId
<1>1. cid \in 0 .. MaxIds
  BY DEF WebSocketInv, ClientTypeOK, Client
<1>2. CASE ~OnEvent
  <2>1. got' = got /\ client'.connectionId = cid /\ missed' = missed
    BY <1>2, OthersGiveNothing
  <2>2. CASE cid = 0
    <3>1. Accepted' = Accepted
      BY <2>1, <2>2 DEF Accepted
    <3>2. (client.connectionId # 0)' = (client.connectionId # 0)
      BY <2>1
    <3>3. QED
      BY <2>1, <3>1, <3>2 DEF Stream!vars
  <2>3. CASE cid # 0
    <3>1. PICK k \in Ids : k = cid
      BY <1>1, <2>3, WebConnAssumption DEF Ids
    <3>2. Accepted = stream[k] /\ Accepted' = stream'[k]
      BY <2>1, <2>3, <3>1 DEF Accepted
    <3>3. Accepted' = Accepted \/ \E n \in Broadcasts : Accepted' = Append(Accepted, n)
      BY <3>1, <3>2, OwnStreamGoesOn
    <3>4. (client.connectionId # 0) = TRUE /\ (client.connectionId # 0)' = TRUE
      BY <2>1, <2>3
    <3>5. QED
      BY <2>1, <3>3, <3>4 DEF Stream!vars, Stream!Next, Stream!Accept
  <2>4. QED
    BY <2>2, <2>3
<1>3. CASE OnEvent
  <2>1. /\ stream' = stream /\ client'.connectionId = KnownId
        /\ missed' = IF NewStream /\ cid # 0 THEN missed + 1 ELSE missed
    BY <1>3, OnEventIs DEF OnEvent, HearHello
  <2>2. CASE NewStream /\ Msg.val \in Ids /\ KnownId = Msg.val /\ got' = <<>>
    <3>1. KnownId # 0
      BY <2>2, WebConnAssumption DEF Ids
    <3>2. Accepted' \in Seq(Broadcasts)
      BY <2>1, <2>2, <3>1 DEF Accepted, StreamInv, StreamsIncrease
    <3>3. (client.connectionId # 0)' = TRUE
      BY <2>1, <3>1
    <3>4. CASE cid = 0
      <4>1. got' = got
        BY <2>2, <3>4 DEF StreamInv, UnbegunInv
      <4>2. missed' = missed
        BY <2>1, <3>4
      <4>3. ~(client.connectionId # 0)
        BY <3>4
      <4>4. Stream!Begin
        BY <3>2, <3>3, <4>1, <4>2, <4>3 DEF Stream!Begin
      <4>5. QED
        BY <4>4 DEF Stream!Next
    <3>5. CASE cid # 0
      <4>1. (client.connectionId # 0) = TRUE
        BY <3>5
      <4>2. missed' = missed + 1
        BY <2>1, <2>2, <3>5
      <4>3. Stream!StartOver
        BY <2>2, <3>2, <3>3, <4>1, <4>2 DEF Stream!StartOver
      <4>4. QED
        BY <4>3 DEF Stream!Next
    <3>6. QED
      BY <3>4, <3>5
  <2>3. CASE /\ Msg.type = "event" /\ Msg.seq = ExpectedSeq /\ ~NewStream
             /\ cid \in Ids /\ KnownId = cid /\ got' = Append(got, Msg.val)
    <3>1. PICK k \in Ids : k = cid
      BY <2>3
    <3>2. PICK G \in Nat, t \in Tears : IdNumbered(k, G, t)
      BY DEF StreamInv, StreamNumbered
    <3>3. Incoming
      BY <1>3 DEF OnEvent
    <3>4. /\ Msg.seq = client.serverSequence
          /\ Msg.seq \in 1 .. Len(stream[k]) /\ Msg.val = stream[k][Msg.seq]
      BY <2>3, <3>1, <3>2, <3>3, EventIsNext
    <3>5. Len(got) = client.serverSequence - 1
      BY <3>1, <3>2 DEF IdNumbered, ClientNumbered
    <3>6. k # 0 /\ Accepted = stream[k] /\ Accepted' = stream[k]
      BY <2>1, <2>3, <3>1, WebConnAssumption DEF Accepted, Ids
    <3>7. Len(stream[k]) \in Nat
      BY StreamType DEF StreamInv, StreamsIncrease
    <3>8. Len(got) < Len(Accepted) /\ got' = Append(got, Accepted[Len(got) + 1])
      <4>1. Len(got) + 1 = Msg.seq
        BY <3>4, <3>5
      <4>2. Len(got) < Len(stream[k])
        BY <3>4, <3>5, <3>7
      <4>3. QED
        BY <2>3, <3>4, <3>6, <4>1, <4>2
    <3>9. missed' = missed
      BY <2>1, <2>3
    <3>10. (client.connectionId # 0) = TRUE /\ (client.connectionId # 0)' = TRUE
      BY <2>1, <2>3, <3>1, <3>6
    <3>11. Stream!Deliver
      BY <3>6, <3>8, <3>9, <3>10 DEF Stream!Deliver
    <3>12. QED
      BY <3>11 DEF Stream!Next
  <2>4. QED
    BY <1>3, <2>2, <2>3, OnEventIs
<1>4. QED
  BY <1>2, <1>3

(* The hub, the pumps, the sockets and onmessage together implement        *)
(* ReliableStream: what is taken for the client is delivered one by one,   *)
(* in order and without a gap, and the client is told when its stream has  *)
(* been given up for another.                                              *)
THEOREM StreamImplemented == Spec => ImplementsStream
<1>1. WebSocketInv /\ StreamInv /\ [Next]_vars => [Stream!Next]_Stream!vars
  BY StreamGoesOn
<1>2. QED
  BY <1>1, StreamStarts, StreamInvariant, PTL DEF Spec, ImplementsStream, Stream!Spec
=============================================================================
