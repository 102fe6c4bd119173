----------------------------- MODULE DeadQueue -----------------------------
(***************************************************************************)
(* The dead queue of a WebConn (web_conn.go): a circular buffer with the   *)
(* last deadQueueSize events written to the socket, from which a           *)
(* connection that is resumed replays what its client did not receive.     *)
(* The operators are those of the code; the loops that write one message   *)
(* at a time to the socket (drainDeadQueue) are steps of the machines that *)
(* use them, DrainedTo saying where the loop stops.                        *)
(***************************************************************************)
EXTENDS Integers

CONSTANT deadQueueSize   \* 128 in the code

(* With a single slot drainDeadQueue would never see a smaller number than *)
(* the one it has just written and would not stop.                         *)
ASSUME DeadQueueSizeAssumption == deadQueueSize \in Nat /\ deadQueueSize >= 2

Slot == 0 .. deadQueueSize - 1

(* A message on its way: the hello of a connection (val is its connection  *)
(* id), the event of a broadcast (val is the number of the broadcast) or   *)
(* the response to a request of the client. Only the first two have a      *)
(* sequence number.                                                        *)
Message == [type : {"hello", "event", "response"}, val : Nat, seq : Nat]

nil == [type |-> "nil", val |-> 0, seq |-> 0]

NewDeadQueue == [i \in Slot |-> nil]

(* Mutant: the pointer does not wrap.                                      *)
NextSlotUnwrapped(ptr) == ptr + 1

NextSlot(ptr) == (ptr + 1) % deadQueueSize

(* Mutant: the wrap of the pointer is forgotten when the last slot is read *)
LastSlotUnwrapped(ptr) == IF ptr = 0 THEN 0 ELSE ptr - 1

(* The slot written last.                                                  *)
LastSlot(ptr) == IF ptr = 0 THEN deadQueueSize - 1 ELSE ptr - 1

addToDeadQueue(dq, ptr, msg) == [dq EXCEPT ![ptr] = msg]

(* The scan of _isInDeadQueue reaches slot i and finds the number there.   *)
FoundAt(dq, seq, i) ==
    /\ dq[i] # nil
    /\ dq[i].seq = seq
    /\ \A j \in 0 .. i - 1 : dq[j] # nil /\ dq[j].seq # seq

isInDeadQueue(dq, seq) == \E i \in Slot : FoundAt(dq, seq, i)

IndexInDeadQueue(dq, seq) == CHOOSE i \in Slot : FoundAt(dq, seq, i)

hasMsgLoss(dq, ptr, seq) ==
    /\ ~(ptr = 0 /\ dq[0] = nil)
    /\ dq[LastSlot(ptr)].seq # seq - 1

(* Mutant: only the pointer is reset, the events stay.                     *)
clearNothing(dq) == dq

(* clearDeadQueue stops at the first empty slot.                           *)
clearDeadQueue(dq) ==
    [i \in Slot |-> IF \A j \in 0 .. i : dq[j] # nil THEN nil ELSE dq[i]]

(* Mutants: one event too many before the buffer rolls over; the end of    *)
(* the array taken for the end of the queue.                               *)
DrainedPast(dq, ptr, cur) ==
    IF dq[ptr] = nil THEN cur >= ptr
                     ELSE dq[cur].seq > dq[NextSlot(cur)].seq

DrainedToArrayEnd(dq, ptr, cur) ==
    IF dq[ptr] = nil THEN cur + 1 >= ptr ELSE NextSlot(cur) = 0

(* The loop of drainDeadQueue ends once slot cur has been written: at the  *)
(* pointer while the buffer has not rolled over, before a smaller sequence *)
(* number afterwards.                                                      *)
DrainedTo(dq, ptr, cur) ==
    IF dq[ptr] = nil THEN cur + 1 >= ptr
                     ELSE dq[cur].seq > dq[NextSlot(cur)].seq
=============================================================================
