---------------------------- MODULE ClusterMutex ----------------------------
(***************************************************************************)
(* The Mutex of server/public/pluginapi/cluster: a key of the plugin's     *)
(* key-value store that its holder keeps from expiring. Clients are the    *)
(* goroutines, on any server of the cluster, that lock the mutex of one    *)
(* name.                                                                   *)
(*                                                                         *)
(* Time passes in units. The code gives no bound on how long a call to the *)
(* store takes or a goroutine waits for a processor: Spec lets each such   *)
(* step take at most Delay units, LateSpec drops that and lets a refresh   *)
(* fail as well.                                                           *)
(***************************************************************************)
EXTENDS Integers

CONSTANTS Clients,
          NoClient,         \* for the lock it implements: nobody has it
          ttl,              \* 15 s in the code
          refreshInterval,  \* ttl / 2 in the code
          Delay,            \* bound on a call or a wake-up, in Spec
          MaxFaults         \* bound on failed calls, crashes and late steps

(* With ttl / 2 for the interval, a call that takes up to a sixth of ttl.  *)
ASSUME MutexAssumption ==
    /\ ttl \in Nat \ {0}
    /\ refreshInterval \in Nat \ {0}
    /\ Delay \in Nat
    /\ Delay <= refreshInterval
    /\ refreshInterval + 3 * Delay < ttl
    /\ MaxFaults \in Nat
    /\ NoClient \notin Clients

VARIABLES left,        \* how long the key still lives; 0: it is not there
          pc,          \* where a client is
          refreshing,  \* its refresh goroutine runs
          clock,       \* held: time to the ticker's next tick, below 0 when
                       \* overdue; starting, unlocking: time taken so far
          faults

vars == <<left, pc, refreshing, clock, faults>>

(* idle; waiting in LockWithContext; starting: the key is set and the      *)
(* refresh goroutine does not run yet; held: Lock has returned; unlocking: *)
(* Unlock has joined that goroutine and not yet deleted the key.           *)
Place == {"idle", "waiting", "starting", "held", "unlocking"}

Holding == {"starting", "held", "unlocking"}

Init ==
    /\ left = 0
    /\ pc = [p \in Clients |-> "idle"]
    /\ refreshing = [p \in Clients |-> FALSE]
    /\ clock = [p \in Clients |-> 0]
    /\ faults = 0

Fault == faults < MaxFaults /\ faults' = faults + 1

Goto(p, place) == pc' = [pc EXCEPT ![p] = place]

Lock(p) ==
    /\ pc[p] = "idle"
    /\ Goto(p, "waiting")
    /\ UNCHANGED <<left, refreshing, clock, faults>>

(* The context of LockWithContext is canceled.                             *)
GiveUp(p) ==
    /\ pc[p] = "waiting"
    /\ Goto(p, "idle")
    /\ UNCHANGED <<left, refreshing, clock, faults>>

(* Mutant of tryLock: sets the key whether or not it is there.             *)
tryLockOverwrites(p) ==
    /\ pc[p] = "waiting"
    /\ left' = ttl
    /\ Goto(p, "starting")
    /\ clock' = [clock EXCEPT ![p] = 0]
    /\ UNCHANGED <<refreshing, faults>>

(* tryLock sets the key if there is none or it has expired. An attempt     *)
(* that finds it changes nothing; the next follows about a second later.   *)
tryLock(p) ==
    /\ pc[p] = "waiting"
    /\ left = 0
    /\ left' = ttl
    /\ Goto(p, "starting")
    /\ clock' = [clock EXCEPT ![p] = 0]
    /\ UNCHANGED <<refreshing, faults>>

(* The call fails, perhaps after it has set the key, and is tried again.   *)
tryLockFails(p) ==
    /\ pc[p] = "waiting"
    /\ Fault
    /\ left' \in {left, IF left = 0 THEN ttl ELSE left}
    /\ UNCHANGED <<pc, refreshing, clock>>

(* Mutant of Locked: the interval of the refreshes is the whole ttl.       *)
LockedSlowTicker(p) ==
    /\ pc[p] = "starting"
    /\ Goto(p, "held")
    /\ refreshing' = [refreshing EXCEPT ![p] = TRUE]
    /\ clock' = [clock EXCEPT ![p] = ttl]
    /\ UNCHANGED <<left, faults>>

(* The refresh goroutine starts and Lock returns.                          *)
Locked(p) ==
    /\ pc[p] = "starting"
    /\ Goto(p, "held")
    /\ refreshing' = [refreshing EXCEPT ![p] = TRUE]
    /\ clock' = [clock EXCEPT ![p] = refreshInterval]
    /\ UNCHANGED <<left, faults>>

(* Mutant of refreshLock: the value is rewritten without a new expiry.     *)
refreshLockKeepsExpiry(p) ==
    /\ pc[p] = "held" /\ refreshing[p] /\ clock[p] <= 0
    /\ clock' = [clock EXCEPT ![p] = @ + refreshInterval]
    /\ UNCHANGED <<left, pc, refreshing, faults>>

(* The ticker has fired: the key gets a new expiry. If it is gone the      *)
(* goroutine returns, and the client is not told.                          *)
refreshLock(p) ==
    /\ pc[p] = "held" /\ refreshing[p] /\ clock[p] <= 0
    /\ left' = IF left > 0 THEN ttl ELSE 0
    /\ refreshing' = [refreshing EXCEPT ![p] = left > 0]
    /\ clock' = [clock EXCEPT ![p] = @ + refreshInterval]
    /\ UNCHANGED <<pc, faults>>

(* So it does when the call fails, whether or not it has taken effect.     *)
refreshLockFails(p) ==
    /\ pc[p] = "held" /\ refreshing[p] /\ clock[p] <= 0
    /\ Fault
    /\ left' \in {left, IF left > 0 THEN ttl ELSE left}
    /\ refreshing' = [refreshing EXCEPT ![p] = FALSE]
    /\ UNCHANGED <<pc, clock>>

(* Unlock stops the refresh goroutine and waits for it ...                 *)
Unlock(p) ==
    /\ pc[p] = "held"
    /\ Goto(p, "unlocking")
    /\ refreshing' = [refreshing EXCEPT ![p] = FALSE]
    /\ clock' = [clock EXCEPT ![p] = 0]
    /\ UNCHANGED <<left, faults>>

(* ... and then deletes the key, whoever has set it.                       *)
Unlocked(p) ==
    /\ pc[p] = "unlocking"
    /\ Goto(p, "idle")
    /\ left' = 0
    /\ UNCHANGED <<refreshing, clock, faults>>

(* "If an error occurs deleting, the mutex kv will still expire."          *)
UnlockFails(p) ==
    /\ pc[p] = "unlocking"
    /\ Fault
    /\ Goto(p, "idle")
    /\ UNCHANGED <<left, refreshing, clock>>

(* The server of the client stops; nothing of the client is left.          *)
Crash(p) ==
    /\ pc[p] # "idle"
    /\ Fault
    /\ Goto(p, "idle")
    /\ refreshing' = [refreshing EXCEPT ![p] = FALSE]
    /\ UNCHANGED <<left, clock>>

(* No step that is due is Delay units late.                                *)
OnTime(p) ==
    /\ pc[p] \in {"starting", "unlocking"} => clock[p] < Delay
    /\ pc[p] = "held" /\ refreshing[p] => clock[p] > -Delay

(* Mutant of TimePasses: the key is set without an expiry.                 *)
TimePassesNoExpiry ==
    /\ left' = left
    /\ clock' = [p \in Clients |->
          IF pc[p] \in {"starting", "unlocking"} /\ clock[p] < ttl
            THEN clock[p] + 1
          ELSE IF pc[p] = "held" /\ refreshing[p] /\ clock[p] > -refreshInterval
            THEN clock[p] - 1
          ELSE clock[p]]

(* A ticker that is not read keeps one tick.                               *)
TimePasses ==
    /\ left' = IF left > 0 THEN left - 1 ELSE 0
    /\ clock' = [p \in Clients |->
          IF pc[p] \in {"starting", "unlocking"} /\ clock[p] < ttl
            THEN clock[p] + 1
          ELSE IF pc[p] = "held" /\ refreshing[p] /\ clock[p] > -refreshInterval
            THEN clock[p] - 1
          ELSE clock[p]]

Tick ==
    /\ \A p \in Clients : OnTime(p)
    /\ TimePasses
    /\ UNCHANGED <<pc, refreshing, faults>>

LateTick ==
    /\ \E p \in Clients : ~OnTime(p)
    /\ Fault
    /\ TimePasses
    /\ UNCHANGED <<pc, refreshing>>

Step(p) ==
    \/ Lock(p) \/ GiveUp(p) \/ tryLock(p) \/ tryLockFails(p) \/ Locked(p)
    \/ refreshLock(p) \/ Unlock(p) \/ Unlocked(p) \/ UnlockFails(p)
    \/ Crash(p)

Next == Tick \/ \E p \in Clients : Step(p)

Spec == Init /\ [][Next]_vars

LateNext == Next \/ LateTick \/ \E p \in Clients : refreshLockFails(p)

LateSpec == Init /\ [][LateNext]_vars

(* Time passes, goroutines get on, an attempt follows another, and a       *)
(* client that has locked unlocks.                                         *)
Fairness ==
    /\ WF_vars(Tick)
    /\ \A p \in Clients :
         WF_vars(\/ tryLock(p) \/ Locked(p) \/ refreshLock(p)
                 \/ Unlock(p) \/ Unlocked(p))

FairSpec == Spec /\ Fairness

-----------------------------------------------------------------------------

(* The variables keep their types.                                         *)
TypeOK ==
    /\ left \in 0 .. ttl
    /\ pc \in [Clients -> Place]
    /\ refreshing \in [Clients -> BOOLEAN]
    /\ clock \in [Clients -> Int]
    /\ faults \in 0 .. MaxFaults

(* Lock and Unlock: of two clients at most one is between a Lock that has  *)
(* returned and its Unlock, though the key expires, a client that stops    *)
(* leaves it behind and Unlock deletes it without a look at its value.     *)
MutualExclusion ==
    \A p, q \in Clients : pc[p] = "held" /\ pc[q] = "held" => p = q

(* refreshLock: the key outlives its holder's use of it, from the tryLock  *)
(* that has set it to the delete of Unlock, so that the delete is of the   *)
(* client's own key.                                                       *)
KeyOutlivesHolder ==
    \A p \in Clients : pc[p] \in Holding => left > 0

(* How old the key of a holder may have become.                            *)
Age(p) ==
    CASE pc[p] = "starting" -> clock[p]
      [] pc[p] = "held" -> refreshInterval + Delay - clock[p]
      [] pc[p] = "unlocking" -> refreshInterval + 2 * Delay + clock[p]
      [] OTHER -> ttl

(* The inductive invariant behind both: holders are on time, so the key of *)
(* a holder is younger than ttl, so nobody else can have become one.       *)
MutexInv ==
    /\ TypeOK
    /\ \A p, q \in Clients : pc[p] \in Holding /\ pc[q] \in Holding => p = q
    /\ \A p \in Clients :
         /\ pc[p] \in {"starting", "unlocking"} => clock[p] \in 0 .. Delay
         /\ pc[p] = "held" => /\ refreshing[p]
                              /\ clock[p] >= -Delay
                              /\ clock[p] <= refreshInterval
         /\ pc[p] \in Holding => ttl - left <= Age(p)

(* Unlock, crashes and the ttl: nobody waits on and on while no one has    *)
(* the mutex, even when calls have failed and a holder has crashed.        *)
SomeoneGetsIt ==
    \A p \in Clients :
        []<>(pc[p] # "waiting" \/ \E q \in Clients : pc[q] = "held")

(* The mutex implements the lock of ClusterLock.                           *)
ALock == INSTANCE ClusterLock WITH
            holder <- IF \E p \in Clients : pc[p] \in Holding
                        THEN CHOOSE p \in Clients : pc[p] \in Holding
                        ELSE NoClient

ImplementsLock == ALock!LockSpec
=============================================================================
