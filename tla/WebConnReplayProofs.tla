------------------------ MODULE WebConnReplayProofs ------------------------
(***************************************************************************)
(* The replay of a resumed connection is exact for every deadQueueSize:    *)
(* TypeOK /\ ReplayInv is an inductive invariant of WebConnReplay.         *)
(***************************************************************************)
EXTENDS WebConnReplay, TLAPS

(* The pointer of the circular buffer goes round without a modulo.         *)
LEMMA NextSlotStep ==
    ASSUME NEW p \in Slot
    PROVE  NextSlot(p) = IF p = deadQueueSize - 1 THEN 0 ELSE p + 1
<1>1. CASE p = deadQueueSize - 1
  BY <1>1, DeadQueueSizeAssumption DEF NextSlot, Slot
<1>2. CASE p # deadQueueSize - 1
  <2>1. p + 1 \in 0 .. deadQueueSize - 1
    BY <1>2, DeadQueueSizeAssumption DEF Slot
  <2>2. (p + 1) % deadQueueSize = p + 1
    BY <2>1, DeadQueueSizeAssumption
  <2> QED BY <1>2, <2>2 DEF NextSlot
<1> QED BY <1>1, <1>2

LEMMA NextSlotType == \A p \in Slot : NextSlot(p) \in Slot
BY NextSlotStep, DeadQueueSizeAssumption DEF Slot

LEMMA NilIsNoMessage == nil \notin Message
BY DEF nil, Message

(* What a scan that succeeds has found.                                    *)
LEMMA IndexFound ==
    ASSUME NEW dq, NEW s, isInDeadQueue(dq, s)
    PROVE  /\ IndexInDeadQueue(dq, s) \in Slot
           /\ dq[IndexInDeadQueue(dq, s)] # nil
           /\ dq[IndexInDeadQueue(dq, s)].seq = s
BY DEF isInDeadQueue, IndexInDeadQueue, FoundAt

(* An event of the window is found: the scan meets no empty slot before it *)
(* and no other event with its number.                                     *)
LEMMA WindowIsFound ==
    ASSUME TypeOK, RetainsLatest, Numbered,
           NEW s \in 0 .. Len(written) - 1, Len(written) - s <= deadQueueSize
    PROVE  isInDeadQueue(deadQueue, s)
<1> DEFINE w == Len(written)
           p == deadQueuePointer
<1> USE DeadQueueSizeAssumption
<1>1. CASE deadQueue[p] = nil
  <2>1. w = p /\ s \in Slot /\ s < p
    BY <1>1 DEF RetainsLatest, TypeOK, Slot
  <2>2. \A i \in 0 .. s : deadQueue[i] = written[i + 1] /\ i + 1 \in 1 .. w
    BY <1>1, <2>1 DEF RetainsLatest, TypeOK, Slot
  <2>3. \A i \in 0 .. s : deadQueue[i] \in Message /\ deadQueue[i].seq = i
    BY <2>2 DEF Numbered
  <2>4. FoundAt(deadQueue, s, s)
    BY <2>1, <2>3, NilIsNoMessage DEF FoundAt, Slot
  <2> QED BY <2>1, <2>4 DEF isInDeadQueue
<1>2. CASE deadQueue[p] # nil
  <2> DEFINE pos(i) == IF i < p THEN w - p + i + 1
                                ELSE w - p - deadQueueSize + i + 1
  <2>1. w >= deadQueueSize /\ w \in Nat /\ p \in Slot
    BY <1>2 DEF RetainsLatest, TypeOK
  <2>2. \A i \in Slot : pos(i) \in 1 .. w /\ deadQueue[i] = written[pos(i)]
    BY <1>2, <2>1 DEF RetainsLatest, Slot
  <2>3. \A i \in Slot : deadQueue[i] \in Message /\ deadQueue[i].seq = pos(i) - 1
    BY <2>2 DEF Numbered
  <2>4. PICK i \in Slot : pos(i) = s + 1
    <3>1. CASE s >= w - p
      <4>1. s + p - w \in Slot /\ s + p - w < p
        BY <2>1, <3>1 DEF Slot
      <4>2. pos(s + p - w) = s + 1
        BY <2>1, <4>1 DEF Slot
      <4> QED BY <4>1, <4>2
    <3>2. CASE s < w - p
      <4>1. s + p + deadQueueSize - w \in Slot /\ ~(s + p + deadQueueSize - w < p)
        BY <2>1, <3>2 DEF Slot
      <4>2. pos(s + p + deadQueueSize - w) = s + 1
        BY <2>1, <4>1 DEF Slot
      <4> QED BY <4>1, <4>2
    <3> QED BY <3>1, <3>2, <2>1 DEF Slot
  <2>5. \A j \in 0 .. i - 1 : j \in Slot /\ pos(j) # pos(i)
    BY <2>1 DEF Slot
  <2>6. \A j \in 0 .. i - 1 : deadQueue[j].seq # s
    <3> TAKE j \in 0 .. i - 1
    <3>1. deadQueue[j].seq = pos(j) - 1 /\ pos(j) \in Int
      BY <2>2, <2>3, <2>5
    <3> QED BY <3>1, <2>4, <2>5
  <2>7. FoundAt(deadQueue, s, i)
    BY <2>3, <2>4, <2>5, <2>6, NilIsNoMessage DEF FoundAt
  <2> QED BY <2>7 DEF isInDeadQueue
<1> QED BY <1>1, <1>2

(* The converse: what a scan finds is the event of that number.            *)
LEMMA FoundIsWritten ==
    ASSUME TypeOK, RetainsLatest, Numbered,
           NEW i \in Slot, deadQueue[i] # nil
    PROVE  /\ deadQueue[i].seq + 1 \in 1 .. Len(written)
           /\ deadQueue[i] = written[deadQueue[i].seq + 1]
<1> USE DeadQueueSizeAssumption
<1> DEFINE w == Len(written)
           p == deadQueuePointer
<1>1. w \in Nat /\ p \in Slot
  BY DEF TypeOK
<1>2. CASE deadQueue[p] = nil
  <2>1. w = p /\ i < p /\ deadQueue[i] = written[i + 1]
    BY <1>1, <1>2 DEF RetainsLatest, Slot
  <2>2. i + 1 \in 1 .. w
    BY <1>1, <2>1 DEF Slot
  <2>3. deadQueue[i].seq = i
    BY <2>1, <2>2 DEF Numbered, Slot
  <2> QED BY <2>1, <2>2, <2>3 DEF Slot
<1>3. CASE deadQueue[p] # nil
  <2> DEFINE k == IF i < p THEN w - p + i + 1
                           ELSE w - p - deadQueueSize + i + 1
  <2>1. deadQueue[i] = written[k] /\ w >= deadQueueSize
    BY <1>1, <1>3 DEF RetainsLatest
  <2>2. k \in 1 .. w
    BY <1>1, <2>1 DEF Slot
  <2>3. deadQueue[i].seq = k - 1
    BY <2>1, <2>2 DEF Numbered
  <2>4. deadQueue[i].seq + 1 = k
    BY <2>2, <2>3
  <2> QED BY <2>1, <2>2, <2>4
<1> QED BY <1>2, <1>3

(* hasMsgLoss compares with the last event written.                        *)
LEMMA LossMeansBehind ==
    ASSUME TypeOK, RetainsLatest, Numbered, NEW s \in 1 .. Len(written)
    PROVE  hasMsgLoss(deadQueue, deadQueuePointer, s) <=> s # Len(written)
<1> USE DeadQueueSizeAssumption
<1> DEFINE w == Len(written)
           p == deadQueuePointer
           last == LastSlot(p)
<1>1. w \in Nat /\ w >= 1 /\ p \in Slot
  BY DEF TypeOK
<1>2. last \in Slot
  BY <1>1 DEF LastSlot, Slot
<1>3. deadQueue[last] = written[w] /\ ~(p = 0 /\ deadQueue[0] = nil)
  BY <1>1, <1>2 DEF RetainsLatest, LastSlot, Slot
<1>4. deadQueue[last].seq = w - 1
  BY <1>1, <1>3 DEF Numbered
<1> QED BY <1>1, <1>3, <1>4 DEF hasMsgLoss

(* Adding an event keeps the window.                                       *)
LEMMA AddKeepsWindow ==
    ASSUME TypeOK, RetainsLatest, Numbered, NEW e \in Message,
           e.seq = Len(written),
           deadQueue' = addToDeadQueue(deadQueue, deadQueuePointer, e),
           deadQueuePointer' = NextSlot(deadQueuePointer),
           written' = Append(written, e)
    PROVE  RetainsLatest' /\ Numbered'
<1> USE DeadQueueSizeAssumption
<1> DEFINE w == Len(written)
           p == deadQueuePointer
<1>1. /\ w \in Nat /\ p \in Slot /\ written \in Seq(Message)
      /\ deadQueue \in DeadQueues
  BY DEF TypeOK
<1>2. /\ Len(written') = w + 1
      /\ \A k \in 1 .. w : written'[k] = written[k]
      /\ written'[w + 1] = e
  BY <1>1
<1>3. Numbered'
  BY <1>1, <1>2 DEF Numbered
<1>4. \A i \in Slot : deadQueue'[i] = IF i = p THEN e ELSE deadQueue[i]
  BY <1>1 DEF addToDeadQueue, DeadQueues
<1>5. deadQueuePointer' = IF p = deadQueueSize - 1 THEN 0 ELSE p + 1
  BY <1>1, NextSlotStep
<1>6. e # nil
  BY NilIsNoMessage
<1>7. RetainsLatest'
  <2>1. CASE deadQueue[p] = nil /\ p # deadQueueSize - 1
    <3>1. w = p /\ deadQueuePointer' = p + 1 /\ p + 1 \in Slot
      BY <1>1, <1>5, <2>1 DEF RetainsLatest, Slot
    <3>2. \A i \in Slot :
             deadQueue'[i] = IF i < p + 1 THEN written'[i + 1] ELSE nil
      BY <1>1, <1>2, <1>4, <2>1, <3>1 DEF RetainsLatest, Slot
    <3>3. deadQueue'[p + 1] = nil
      BY <3>1, <3>2 DEF Slot
    <3> QED BY <1>2, <3>1, <3>2, <3>3 DEF RetainsLatest
  <2>2. CASE deadQueue[p] = nil /\ p = deadQueueSize - 1
    <3>1. w = p /\ deadQueuePointer' = 0
      BY <1>1, <1>5, <2>2 DEF RetainsLatest
    <3>2. \A i \in Slot : deadQueue'[i] = written'[i + 1]
      BY <1>1, <1>2, <1>4, <2>2, <3>1 DEF RetainsLatest, Slot
    <3>3. deadQueue'[0] # nil
      <4>1. 0 \in Slot /\ 1 \in 1 .. w
        BY <1>1, <2>2, <3>1 DEF Slot
      <4>2. deadQueue'[0] = written[1] /\ written[1] \in Message
        BY <1>1, <1>2, <3>2, <4>1
      <4> QED BY <4>2, NilIsNoMessage
    <3> QED BY <1>1, <1>2, <2>2, <3>1, <3>2, <3>3 DEF RetainsLatest, Slot
  <2>3. CASE deadQueue[p] # nil
    <3> DEFINE q == deadQueuePointer'
               pos(i) == IF i < q THEN Len(written') - q + i + 1
                                  ELSE Len(written') - q - deadQueueSize + i + 1
    <3>1. w >= deadQueueSize
      BY <2>3 DEF RetainsLatest
    <3>2. q \in Slot
      BY <1>1, <1>5 DEF Slot
    <3>3. \A i \in Slot : pos(i) \in 1 .. w + 1
      <4>1. /\ Len(written') = w + 1 /\ w \in Nat /\ q \in Nat /\ deadQueueSize \in Nat
            /\ q < deadQueueSize /\ w >= deadQueueSize
        BY <1>1, <1>2, <3>1, <3>2, DeadQueueSizeAssumption DEF Slot
      <4> SUFFICES ASSUME NEW i \in Slot PROVE pos(i) \in 1 .. w + 1
        OBVIOUS
      <4>2. i \in Nat /\ i < deadQueueSize
        BY <4>1 DEF Slot
      <4> HIDE DEF q, w
      <4> QED
        BY <4>1, <4>2
    <3>4. \A i \in Slot : deadQueue'[i] = written'[pos(i)]
      <4> SUFFICES ASSUME NEW i \in Slot
                   PROVE  deadQueue'[i] = written'[pos(i)]
        OBVIOUS
      <4>1. CASE i = p
        <5>1. pos(p) = w + 1
          BY <1>1, <1>2, <1>5, <3>1 DEF Slot
        <5> QED BY <1>2, <1>4, <4>1, <5>1
      <4>2. CASE i # p
        <5>1. pos(i) = IF i < p THEN w - p + i + 1
                                ELSE w - p - deadQueueSize + i + 1
          BY <1>1, <1>2, <1>5, <4>2 DEF Slot
        <5>2. pos(i) \in 1 .. w
          BY <1>1, <3>1, <4>2, <5>1 DEF Slot
        <5>3. deadQueue[i] = written[pos(i)]
          BY <2>3, <5>1 DEF RetainsLatest
        <5> QED BY <1>2, <1>4, <4>2, <5>2, <5>3
      <4> QED BY <4>1, <4>2
    <3>5. deadQueue'[q] # nil
      <4>1. written'[pos(q)] \in Message
        BY <1>1, <1>2, <3>2, <3>3
      <4> QED BY <3>2, <3>4, <4>1, NilIsNoMessage
    <3>6. \A i \in Slot :
             deadQueue'[i] = IF i < q
                               THEN written'[Len(written') - q + i + 1]
                               ELSE written'[Len(written') - q
                                               - deadQueueSize + i + 1]
      BY <3>4
    <3>7. Len(written') >= deadQueueSize
      BY <1>1, <1>2, <3>1
    <3> QED BY <3>5, <3>6, <3>7 DEF RetainsLatest
  <2> QED BY <2>1, <2>2, <2>3
<1> QED BY <1>3, <1>7

-----------------------------------------------------------------------------

Inv == TypeOK /\ ReplayInv

LEMMA InitInv == Init => Inv
<1> SUFFICES ASSUME Init PROVE Inv
  OBVIOUS
<1> USE DeadQueueSizeAssumption
<1>1. TypeOK
  BY DEF Init, TypeOK, DeadQueues, NewDeadQueue, Slot
<1>2. RetainsLatest
  BY DEF Init, RetainsLatest, NewDeadQueue, Slot
<1>3. Numbered /\ ReplayIsExact /\ DrainPosition /\ NumberingResumes
  BY DEF Init, Numbered, ReplayIsExact, DrainPosition, NumberingResumes
<1> QED BY <1>1, <1>2, <1>3 DEF Inv, ReplayInv

LEMMA PumpEventInv == Inv /\ PumpEvent => Inv'
<1> SUFFICES ASSUME Inv, PumpEvent PROVE Inv'
  OBVIOUS
<1> USE DeadQueueSizeAssumption
<1>1. TypeOK /\ RetainsLatest /\ Numbered /\ ReplayIsExact
  BY DEF Inv, ReplayInv
<1>2. Sequence = Len(written)
  BY DEF Inv, ReplayInv, NumberingResumes, PumpEvent
<1>3. PICK p \in Payloads :
        LET e == [type |-> "event", val |-> p, seq |-> Sequence]
        IN  /\ deadQueue' = addToDeadQueue(deadQueue, deadQueuePointer, e)
            /\ written' = Append(written, e)
  BY DEF PumpEvent
<1> DEFINE e == [type |-> "event", val |-> p, seq |-> Sequence]
<1>4. e \in Message /\ e.seq = Len(written)
  BY <1>1, <1>2, ReplayAssumption DEF Message, TypeOK
<1>5. RetainsLatest' /\ Numbered'
  BY <1>1, <1>3, <1>4, AddKeepsWindow DEF PumpEvent
<1>6. TypeOK'
  <2>1. deadQueue' \in DeadQueues
    BY <1>1, <1>3, <1>4 DEF addToDeadQueue, DeadQueues, TypeOK
  <2>2. written' \in Seq(Message)
    BY <1>1, <1>3, <1>4 DEF TypeOK
  <2>3. deadQueuePointer' \in Slot
    BY <1>1, NextSlotType DEF PumpEvent, TypeOK
  <2> QED BY <1>1, <2>1, <2>2, <2>3 DEF PumpEvent, TypeOK
<1>7. ReplayIsExact'
  <2>1. Len(written') = Len(written) + 1
        /\ \A k \in 1 .. Len(written) : written'[k] = written[k]
    BY <1>1, <1>3 DEF TypeOK
  <2>2. Len(written) \in Nat /\ wanted \in Nat
    BY <1>1 DEF TypeOK
  <2> QED BY <1>1, <2>1, <2>2 DEF ReplayIsExact, PumpEvent
<1>8. DrainPosition'
  BY DEF PumpEvent, DrainPosition
<1>9. NumberingResumes'
  BY <1>1, <1>2, <1>3 DEF NumberingResumes, PumpEvent, TypeOK
<1> QED BY <1>5, <1>6, <1>7, <1>8, <1>9 DEF Inv, ReplayInv

LEMMA DisconnectInv == Inv /\ Disconnect => Inv'
BY DEF Inv, ReplayInv, Disconnect, queue, TypeOK, RetainsLatest, Numbered,
       ReplayIsExact, DrainPosition, NumberingResumes

LEMMA ResumeFoundInv ==
    ASSUME Inv, NEW s \in 1 .. MaxWritten, ResumeFound(s)
    PROVE  Inv'
<1> USE DeadQueueSizeAssumption, ReplayAssumption
<1>1. TypeOK /\ RetainsLatest /\ Numbered
  BY DEF Inv, ReplayInv
<1> DEFINE i == IndexInDeadQueue(deadQueue, s)
<1>2. i \in Slot /\ deadQueue[i] # nil /\ deadQueue[i].seq = s
  BY IndexFound DEF ResumeFound
<1>3. s + 1 \in 1 .. Len(written) /\ deadQueue[i] = written[s + 1]
  BY <1>1, <1>2, FoundIsWritten
<1>4. UNCHANGED <<deadQueue, deadQueuePointer, written>> /\ out' = <<>>
      /\ wanted' = s /\ Sequence' = s /\ pump' = "drain" /\ currPtr' = i
  BY DEF ResumeFound, Resume, queue
<1>5. TypeOK'
  BY <1>1, <1>2, <1>4 DEF TypeOK
<1>6. RetainsLatest' /\ Numbered'
  BY <1>1, <1>4 DEF RetainsLatest, Numbered
<1>7. ReplayIsExact' /\ NumberingResumes'
  BY <1>4 DEF ReplayIsExact, NumberingResumes
<1>8. DrainPosition'
  <2>1. s < Len(written)
    BY <1>1, <1>3 DEF TypeOK
  <2> QED BY <1>3, <1>4, <2>1 DEF DrainPosition
<1> QED BY <1>5, <1>6, <1>7, <1>8 DEF Inv, ReplayInv

(* clearDeadQueue leaves an empty queue: it stops at the first empty slot, *)
(* and no event lies beyond it.                                            *)
LEMMA ClearEmpties ==
    ASSUME TypeOK, RetainsLatest, Numbered
    PROVE  clearDeadQueue(deadQueue) = NewDeadQueue
<1> USE DeadQueueSizeAssumption
<1> SUFFICES ASSUME NEW i \in Slot, ~(\A j \in 0 .. i : deadQueue[j] # nil)
             PROVE  deadQueue[i] = nil
  BY DEF clearDeadQueue, NewDeadQueue
<1>1. deadQueuePointer \in Slot /\ written \in Seq(Message)
  BY DEF TypeOK
<1>2. PICK j \in 0 .. i : deadQueue[j] = nil
  OBVIOUS
<1>3. j \in Slot
  BY DEF Slot
<1>4. deadQueue[deadQueuePointer] = nil
  <2> SUFFICES ASSUME deadQueue[deadQueuePointer] # nil PROVE FALSE
    OBVIOUS
  <2> DEFINE k == IF j < deadQueuePointer
                    THEN Len(written) - deadQueuePointer + j + 1
                    ELSE Len(written) - deadQueuePointer - deadQueueSize + j + 1
  <2>1. deadQueue[j] = written[k] /\ Len(written) >= deadQueueSize
    BY <1>3 DEF RetainsLatest
  <2>2. k \in 1 .. Len(written)
    BY <1>1, <1>3, <2>1 DEF Slot
  <2> QED BY <1>2, <2>1, <2>2, NilIsNoMessage DEF Numbered
<1>5. j >= deadQueuePointer
  <2> SUFFICES ASSUME j < deadQueuePointer PROVE FALSE
    BY <1>1, <1>3 DEF Slot
  <2>1. deadQueue[j] = written[j + 1] /\ j + 1 \in 1 .. Len(written)
    BY <1>1, <1>3, <1>4 DEF RetainsLatest, Slot
  <2> QED BY <1>2, <2>1, NilIsNoMessage DEF Numbered
<1> QED BY <1>1, <1>4, <1>5 DEF RetainsLatest, Slot

LEMMA ResumeLostInv ==
    ASSUME Inv, NEW s \in 1 .. MaxWritten, ResumeLost(s)
    PROVE  Inv'
<1> USE DeadQueueSizeAssumption, ReplayAssumption
<1>1. TypeOK /\ RetainsLatest /\ Numbered
  BY DEF Inv, ReplayInv
<1>2. deadQueue' = [i \in Slot |-> IF i = 0 THEN Hello ELSE nil]
  BY <1>1, ClearEmpties
     DEF ResumeLost, addToDeadQueue, NewDeadQueue, Slot
<1>3. deadQueuePointer' = 1
  BY NextSlotStep DEF ResumeLost, Slot
<1>4. Hello \in Message /\ Hello.seq = 0 /\ Hello # nil
  BY DEF Hello, Message, nil
<1>5. written' = <<Hello>> /\ out' = <<>> /\ wanted' = s /\ Sequence' = 1
      /\ pump' \in {"loop", "off"} /\ currPtr' = currPtr
  BY DEF ResumeLost, Resume
<1>6. Len(written') = 1 /\ written'[1] = Hello
  BY <1>5
<1>7. TypeOK'
  <2>1. deadQueue' \in DeadQueues
    BY <1>2, <1>4 DEF DeadQueues
  <2>2. written' \in Seq(Message)
    BY <1>4, <1>5
  <2> QED BY <1>1, <1>3, <1>5, <2>1, <2>2 DEF TypeOK, Slot
<1>8. Numbered'
  BY <1>4, <1>6 DEF Numbered
<1>9. RetainsLatest'
  <2>1. deadQueue'[deadQueuePointer'] = nil
    BY <1>2, <1>3 DEF Slot
  <2>2. \A i \in Slot : deadQueue'[i] = IF i < 1 THEN written'[i + 1] ELSE nil
    BY <1>2, <1>6 DEF Slot
  <2> QED BY <1>3, <1>6, <2>1, <2>2 DEF RetainsLatest
<1>10. ReplayIsExact' /\ NumberingResumes' /\ DrainPosition'
  BY <1>5, <1>6 DEF ReplayIsExact, NumberingResumes, DrainPosition
<1> QED BY <1>7, <1>8, <1>9, <1>10 DEF Inv, ReplayInv

LEMMA ResumeLosslessInv ==
    ASSUME Inv, NEW s \in 1 .. MaxWritten, ResumeLossless(s)
    PROVE  Inv'
<1>1. TypeOK /\ RetainsLatest /\ Numbered
  BY DEF Inv, ReplayInv
<1>2. s = Len(written)
  BY <1>1, LossMeansBehind DEF ResumeLossless, Resume
<1>3. UNCHANGED <<deadQueue, deadQueuePointer, written, currPtr>>
      /\ out' = <<>> /\ wanted' = s /\ Sequence' = s /\ pump' = "loop"
  BY DEF ResumeLossless, Resume, queue
<1>4. TypeOK'
  BY <1>1, <1>3, ReplayAssumption DEF TypeOK
<1>5. RetainsLatest' /\ Numbered'
  BY <1>1, <1>3 DEF RetainsLatest, Numbered
<1>6. ReplayIsExact' /\ NumberingResumes' /\ DrainPosition'
  BY <1>2, <1>3 DEF ReplayIsExact, NumberingResumes, DrainPosition
<1> QED BY <1>4, <1>5, <1>6 DEF Inv, ReplayInv

(* drainDeadQueue stops with the last event written, and until then the    *)
(* next slot holds the next event.                                         *)
LEMMA DrainStops ==
    ASSUME Inv, pump = "drain"
    PROVE  /\ DrainedTo(deadQueue, deadQueuePointer, currPtr)
                <=> Sequence + 1 = Len(written)
           /\ Sequence + 1 # Len(written) =>
                deadQueue[NextSlot(currPtr)] = written[Sequence + 2]
<1> USE DeadQueueSizeAssumption
<1> DEFINE w == Len(written)
           p == deadQueuePointer
           next == NextSlot(currPtr)
<1>1. /\ w \in Nat /\ p \in Slot /\ currPtr \in Slot /\ Sequence \in Nat
      /\ written \in Seq(Message)
      /\ TypeOK /\ RetainsLatest /\ Numbered
  BY DEF Inv, ReplayInv, TypeOK
<1>2. Sequence < w /\ deadQueue[currPtr] = written[Sequence + 1]
  BY DEF Inv, ReplayInv, DrainPosition
<1>3. deadQueue[currPtr] \in Message /\ deadQueue[currPtr].seq = Sequence
  BY <1>1, <1>2 DEF Numbered
<1>4. next = IF currPtr = deadQueueSize - 1 THEN 0 ELSE currPtr + 1
  BY <1>1, NextSlotStep
<1>5. CASE deadQueue[p] = nil
  <2>1. w = p /\ currPtr < p /\ deadQueue[currPtr] = written[currPtr + 1]
    BY <1>1, <1>3, <1>5, NilIsNoMessage DEF RetainsLatest
  <2>2. currPtr = Sequence
    <3>1. currPtr + 1 \in 1 .. w
      BY <1>1, <2>1 DEF Slot
    <3>2. deadQueue[currPtr].seq = currPtr
      BY <1>1, <2>1, <3>1 DEF Numbered, Slot
    <3> QED BY <1>3, <3>2
  <2>3. DrainedTo(deadQueue, p, currPtr) <=> Sequence + 1 = w
    BY <1>1, <1>5, <2>1, <2>2 DEF DrainedTo, Slot
  <2>4. Sequence + 1 # w => next < p /\ next = Sequence + 1 /\ next \in Slot
    BY <1>1, <1>2, <1>4, <2>1, <2>2 DEF Slot
  <2>5. Sequence + 1 # w => deadQueue[next] = written[Sequence + 2]
    BY <1>1, <1>5, <2>4 DEF RetainsLatest
  <2> QED BY <2>3, <2>5
<1>6. CASE deadQueue[p] # nil
  <2> DEFINE pos(i) == IF i < p THEN w - p + i + 1
                                ELSE w - p - deadQueueSize + i + 1
  <2>1. w >= deadQueueSize /\ \A i \in Slot : deadQueue[i] = written[pos(i)]
    BY <1>1, <1>6 DEF RetainsLatest
  <2>2. \A i \in Slot : pos(i) \in 1 .. w
    BY <1>1, <2>1 DEF Slot
  <2>3. \A i \in Slot : deadQueue[i].seq = pos(i) - 1
    BY <1>1, <2>1, <2>2 DEF Numbered
  <2>4. pos(currPtr) = Sequence + 1
    <3>1. pos(currPtr) - 1 = Sequence /\ pos(currPtr) \in Int
      BY <1>1, <1>3, <2>2, <2>3
    <3> QED BY <1>1, <3>1
  <2>5. next \in Slot
    BY <1>1, NextSlotType
  <2>6. CASE next = p
    <3>1. pos(currPtr) = w /\ pos(next) = w - deadQueueSize + 1
      BY <1>1, <1>4, <2>6 DEF Slot
    <3>2. Sequence + 1 = w
      BY <2>4, <3>1
    <3>3. deadQueue[currPtr].seq > deadQueue[next].seq
      BY <1>1, <1>3, <2>1, <2>3, <2>5, <3>1, <3>2
    <3> QED BY <1>6, <3>2, <3>3 DEF DrainedTo
  <2>7. CASE next # p
    <3>1. pos(next) = pos(currPtr) + 1
      BY <1>1, <1>4, <2>7 DEF Slot
    <3>2. pos(next) = Sequence + 2
      BY <1>1, <2>4, <3>1
    <3>3. Sequence + 1 # w
      BY <1>1, <2>2, <2>5, <3>2
    <3>4. deadQueue[next].seq = Sequence + 1
      BY <1>1, <2>3, <2>5, <3>2
    <3>5. ~(deadQueue[currPtr].seq > deadQueue[next].seq)
      BY <1>1, <1>3, <3>4
    <3> QED BY <1>6, <2>1, <2>5, <3>2, <3>3, <3>5 DEF DrainedTo
  <2> QED BY <2>6, <2>7
<1> QED BY <1>5, <1>6

LEMMA DrainInv == Inv /\ Drain => Inv'
<1> SUFFICES ASSUME Inv, Drain PROVE Inv'
  OBVIOUS
<1>1. TypeOK /\ RetainsLatest /\ Numbered /\ ReplayIsExact /\ pump = "drain"
  BY DEF Inv, ReplayInv, Drain
<1>2. /\ Sequence = wanted + Len(out) /\ wanted >= 1
      /\ Sequence < Len(written)
      /\ deadQueue[currPtr] = written[Sequence + 1]
  BY <1>1 DEF Inv, ReplayInv, DrainPosition
<1>3. /\ UNCHANGED <<deadQueue, deadQueuePointer, written, wanted>>
      /\ out' = Append(out, deadQueue[currPtr])
      /\ Sequence' = Sequence + 1 /\ currPtr' = NextSlot(currPtr)
      /\ pump' \in {"loop", "drain", "off"}
  BY DEF Drain, queue
<1>4. written[Sequence + 1] \in Message
  BY <1>1, <1>2 DEF TypeOK
<1>5. TypeOK'
  BY <1>1, <1>2, <1>3, <1>4, NextSlotType DEF TypeOK
<1>6. RetainsLatest' /\ Numbered'
  BY <1>1, <1>3 DEF RetainsLatest, Numbered
<1>7. ReplayIsExact'
  <2>1. Len(out') = Len(out) + 1
        /\ \A k \in 1 .. Len(out) : out'[k] = out[k]
        /\ out'[Len(out) + 1] = written[Sequence + 1]
    BY <1>1, <1>2, <1>3, <1>4 DEF TypeOK
  <2>2. Len(out) \in Nat /\ wanted \in Nat /\ Len(written) \in Nat
    BY <1>1 DEF TypeOK
  <2> QED BY <1>1, <1>2, <1>3, <2>1, <2>2 DEF ReplayIsExact
<1>8. Len(out') = Len(out) + 1
  BY <1>1, <1>2, <1>3, <1>4 DEF TypeOK
<1>9. DrainPosition'
  <2> SUFFICES ASSUME pump' = "drain"
               PROVE  /\ Sequence' = wanted' + Len(out')
                      /\ wanted' >= 1
                      /\ Sequence' < Len(written')
                      /\ deadQueue'[currPtr'] = written'[Sequence' + 1]
    BY DEF DrainPosition
  <2>1. Sequence + 1 # Len(written)
    BY <1>1, DrainStops DEF Drain
  <2>2. deadQueue[NextSlot(currPtr)] = written[Sequence + 2]
    BY <1>1, <2>1, DrainStops
  <2>3. Sequence \in Nat /\ wanted \in Nat /\ Len(out) \in Nat
        /\ Len(written) \in Nat
    BY <1>1 DEF TypeOK
  <2> QED BY <1>2, <1>3, <1>8, <2>1, <2>2, <2>3
<1>10. NumberingResumes'
  <2> SUFFICES ASSUME pump' = "loop" PROVE Sequence' = Len(written')
    BY DEF NumberingResumes
  <2>1. DrainedTo(deadQueue, deadQueuePointer, currPtr)
    BY DEF Drain
  <2> QED BY <1>1, <1>3, <2>1, DrainStops
<1> QED BY <1>5, <1>6, <1>7, <1>9, <1>10 DEF Inv, ReplayInv

LEMMA NextInv == Inv /\ [Next]_vars => Inv'
<1> SUFFICES ASSUME Inv, [Next]_vars PROVE Inv'
  OBVIOUS
<1>1. CASE UNCHANGED vars
  BY <1>1 DEF vars, Inv, ReplayInv, TypeOK, RetainsLatest, Numbered,
              ReplayIsExact, DrainPosition, NumberingResumes
<1> QED BY <1>1, PumpEventInv, DisconnectInv, ResumeFoundInv, ResumeLostInv,
           ResumeLosslessInv, DrainInv DEF Next

(* web_conn.go, writePump and drainDeadQueue: for every deadQueueSize the  *)
(* variables keep their types and ReplayInv holds.                         *)
THEOREM ReplayInvariant == Spec => [](TypeOK /\ ReplayInv)
<1>1. Init => Inv
  BY InitInv
<1>2. Inv /\ [Next]_vars => Inv'
  BY NextInv
<1> QED BY <1>1, <1>2, PTL DEF Spec, Inv

(* The variables of the write pump keep their types.                       *)
THEOREM TypeCorrect == Spec => []TypeOK
BY ReplayInvariant, PTL

(* A resumed connection is sent exactly the events it missed, in order.    *)
THEOREM ReplayExact == Spec => []ReplayIsExact
BY ReplayInvariant, PTL DEF ReplayInv

(* Whatever was replayed, the stream goes on with the number after the     *)
(* last event written.                                                     *)
THEOREM NumberingGoesOn == Spec => []NumberingResumes
BY ReplayInvariant, PTL DEF ReplayInv

(* The stream is given up exactly when the wanted event was overwritten.   *)
THEOREM LossExact == Spec => LossReportedExactly
<1> DEFINE Exactly ==
             /\ (\E s \in 1 .. MaxWritten : ResumeLost(s)) =>
                   Len(written) - wanted' > deadQueueSize
             /\ (\E s \in 1 .. MaxWritten : ResumeLossless(s)) =>
                   wanted' = Len(written)
<1>1. Inv /\ [Next]_vars => [Exactly]_vars
  <2> SUFFICES ASSUME Inv PROVE Exactly
    OBVIOUS
  <2>1. TypeOK /\ RetainsLatest /\ Numbered
    BY DEF Inv, ReplayInv
  <2>2. ASSUME NEW s \in 1 .. MaxWritten, ResumeLost(s)
        PROVE  Len(written) - wanted' > deadQueueSize
    <3>1. s \in 1 .. Len(written) /\ wanted' = s /\ s # Len(written)
          /\ ~isInDeadQueue(deadQueue, s)
      BY <2>1, <2>2, LossMeansBehind DEF ResumeLost, Resume
    <3>2. Len(written) \in Nat
      BY <2>1 DEF TypeOK
    <3>3. ~(Len(written) - s <= deadQueueSize)
      BY <2>1, <3>1, <3>2, WindowIsFound
    <3> QED BY <3>1, <3>2, <3>3, DeadQueueSizeAssumption
  <2>3. ASSUME NEW s \in 1 .. MaxWritten, ResumeLossless(s)
        PROVE  wanted' = Len(written)
    BY <2>1, <2>3, LossMeansBehind DEF ResumeLossless, Resume
  <2> QED BY <2>2, <2>3
<1>2. Spec => []Inv
  BY ReplayInvariant, PTL DEF Inv
<1> QED BY <1>1, <1>2, PTL DEF Spec, LossReportedExactly
=============================================================================
