--------------------------- MODULE WebConnReplay ---------------------------
(***************************************************************************)
(* One connection id on the server: its write pump, its dead queue, and    *)
(* the sockets that come and go under it. The client is only a sequence    *)
(* number: whenever it comes back it may ask for any event it can have     *)
(* missed. The question is whether the replay from the circular buffer is  *)
(* what was written, for every size of the buffer.                         *)
(*                                                                         *)
(* Events that cannot be encoded, the hub and the network are in           *)
(* ReliableWebSocket.                                                      *)
(***************************************************************************)
EXTENDS DeadQueue, Sequences

CONSTANTS Payloads,    \* what an event may carry
          MaxWritten   \* bound on the events written under one connection id

ASSUME ReplayAssumption == Payloads \subseteq Nat /\ MaxWritten \in Nat

VARIABLES deadQueue, deadQueuePointer,
          Sequence,   \* wc.Sequence: the number of the next event
          pump,       \* the write pump: "loop", "drain" or "off" (no socket)
          currPtr,    \* local variable of drainDeadQueue
          written,    \* history: the events written under this connection id
          wanted,     \* history: the number the client came back with
          out         \* history: what drainDeadQueue has written since

queue == <<deadQueue, deadQueuePointer>>
vars == <<deadQueue, deadQueuePointer, Sequence, pump, currPtr, written,
          wanted, out>>

Hello == [type |-> "hello", val |-> 0, seq |-> 0]

Init ==
    /\ deadQueue = NewDeadQueue
    /\ deadQueuePointer = 0
    /\ Sequence = 0
    /\ pump = "loop"
    /\ currPtr = 0
    /\ written = <<>>
    /\ wanted = 0
    /\ out = <<>>

(* writePump takes a message from send: it is numbered and put in the dead *)
(* queue before it is written, and the write may fail.                     *)
PumpEvent ==
    /\ pump = "loop"
    /\ Len(written) < MaxWritten
    /\ \E p \in Payloads :
         LET e == [type |-> "event", val |-> p, seq |-> Sequence]
         IN  /\ deadQueue' = addToDeadQueue(deadQueue, deadQueuePointer, e)
             /\ written' = Append(written, e)
    /\ deadQueuePointer' = NextSlot(deadQueuePointer)
    /\ Sequence' = Sequence + 1
    /\ pump' \in {"loop", "off"}
    /\ UNCHANGED <<currPtr, wanted, out>>

(* The socket breaks while the pump waits.                                 *)
Disconnect ==
    /\ pump = "loop"
    /\ pump' = "off"
    /\ UNCHANGED <<queue, Sequence, currPtr, written, wanted, out>>

(* The client comes back with the number of the event it expects next,     *)
(* which is one the server gave out, or the one after.                     *)
Resume(s) ==
    /\ pump = "off"
    /\ s \in 1 .. Len(written)
    /\ wanted' = s
    /\ out' = <<>>

(* The first branch of writePump: replay from the slot of the event.       *)
ResumeFound(s) ==
    /\ Resume(s)
    /\ isInDeadQueue(deadQueue, s)
    /\ currPtr' = IndexInDeadQueue(deadQueue, s)
    /\ Sequence' = s
    /\ pump' = "drain"
    /\ UNCHANGED <<queue, written>>

(* The second: the event is gone, so the stream starts again with a hello  *)
(* and another connection id.                                              *)
ResumeLost(s) ==
    /\ Resume(s)
    /\ ~isInDeadQueue(deadQueue, s)
    /\ hasMsgLoss(deadQueue, deadQueuePointer, s)
    /\ deadQueue' = addToDeadQueue(clearDeadQueue(deadQueue), 0, Hello)
    /\ deadQueuePointer' = NextSlot(0)
    /\ Sequence' = 1
    /\ written' = <<Hello>>
    /\ pump' \in {"loop", "off"}
    /\ UNCHANGED currPtr

(* The third: the client has it all.                                       *)
ResumeLossless(s) ==
    /\ Resume(s)
    /\ ~isInDeadQueue(deadQueue, s)
    /\ ~hasMsgLoss(deadQueue, deadQueuePointer, s)
    /\ Sequence' = s
    /\ pump' = "loop"
    /\ UNCHANGED <<queue, currPtr, written>>

(* One iteration of drainDeadQueue; a write that fails ends the pump.      *)
Drain ==
    /\ pump = "drain"
    /\ out' = Append(out, deadQueue[currPtr])
    /\ Sequence' = Sequence + 1
    /\ currPtr' = NextSlot(currPtr)
    /\ IF DrainedTo(deadQueue, deadQueuePointer, currPtr)
         THEN pump' \in {"loop", "off"}
         ELSE pump' \in {"drain", "off"}
    /\ UNCHANGED <<queue, written, wanted>>

Next ==
    \/ PumpEvent
    \/ Disconnect
    \/ \E s \in 1 .. MaxWritten : ResumeFound(s)
    \/ \E s \in 1 .. MaxWritten : ResumeLost(s)
    \/ \E s \in 1 .. MaxWritten : ResumeLossless(s)
    \/ Drain

Spec == Init /\ [][Next]_vars

-----------------------------------------------------------------------------

DeadQueues == [Slot -> Message \cup {nil}]

(* The variables of the write pump keep their types.                       *)
TypeOK ==
    /\ deadQueue \in DeadQueues
    /\ deadQueuePointer \in Slot
    /\ Sequence \in Nat
    /\ pump \in {"loop", "drain", "off"}
    /\ currPtr \in Slot
    /\ written \in Seq(Message)
    /\ wanted \in Nat
    /\ out \in Seq(Message)

(* The replay of drainDeadQueue is what was written, from the event the    *)
(* client asked for, in order and without a gap.                           *)
ReplayIsExact ==
    \A k \in 1 .. Len(out) :
        /\ wanted + k \in 1 .. Len(written)
        /\ out[k] = written[wanted + k]

(* Once writePump is in its loop the next event gets the number after the  *)
(* last one written: a replay that stopped short of the end, or ran past   *)
(* it, would leave wc.Sequence behind or ahead of the stream.              *)
NumberingResumes == pump = "loop" => Sequence = Len(written)

(* writePump gives up the stream (a hello with another connection id) only *)
(* when the event the client wants has been overwritten, and takes the     *)
(* lossless branch only when nothing at all is missing.                    *)
LossReportedExactly ==
    [][ /\ (\E s \in 1 .. MaxWritten : ResumeLost(s)) =>
             Len(written) - wanted' > deadQueueSize
        /\ (\E s \in 1 .. MaxWritten : ResumeLossless(s)) =>
             wanted' = Len(written) ]_vars

(* The retained events are the last ones written, each in its slot: the    *)
(* invariant the three properties above rest on.                           *)
RetainsLatest ==
    LET w == Len(written)
        p == deadQueuePointer
    IN  IF deadQueue[p] = nil
          THEN /\ w = p
               /\ \A i \in Slot :
                    deadQueue[i] = IF i < p THEN written[i + 1] ELSE nil
          ELSE /\ w >= deadQueueSize
               /\ \A i \in Slot :
                    deadQueue[i] = IF i < p
                                     THEN written[w - p + i + 1]
                                     ELSE written[w - p - deadQueueSize + i + 1]

(* The invariant that is inductive: RetainsLatest, every event in the      *)
(* place its number says, and the replay in progress at slot currPtr.      *)
Numbered == \A k \in 1 .. Len(written) :
                written[k] \in Message /\ written[k].seq = k - 1

DrainPosition ==
    pump = "drain" =>
        /\ Sequence = wanted + Len(out)
        /\ wanted >= 1
        /\ Sequence < Len(written)
        /\ deadQueue[currPtr] = written[Sequence + 1]

ReplayInv == /\ RetainsLatest
             /\ Numbered
             /\ ReplayIsExact
             /\ DrainPosition
             /\ NumberingResumes
=============================================================================
