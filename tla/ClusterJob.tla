----------------------------- MODULE ClusterJob -----------------------------
(***************************************************************************)
(* A plugin's periodic job (job.go): on each instance of the plugin a      *)
(* goroutine waits, locks the mutex of the job, and runs the callback if   *)
(* the time the job last finished anywhere is long enough ago. The mutex   *)
(* is the lock of ClusterLock, its clients the Job objects.                *)
(*                                                                         *)
(* KVGet reads from a replica of the database, which may be behind.         *)
(***************************************************************************)
EXTENDS Naturals, ClusterLock

CONSTANTS Interval,
          MaxTime, MaxSchedules, MaxFaults   \* bounds

ASSUME ClusterJobAssumption ==
    /\ Interval \in Nat \ {0}
    /\ {MaxTime, MaxSchedules, MaxFaults} \subseteq Nat
    /\ MaxTime > 0

VARIABLES now,
          stored,    \* LastFinished in the store; 0: there is no metadata
          replica,   \* what a read returns
          job,
          lastEnd,   \* when the callback last returned; 0: it never has
          unsaved,   \* that was not saved
          made       \* how many schedules and faults there have been

vars == <<holder, now, stored, replica, job, lastEnd, unsaved, made>>

(* Where the goroutine of run is, which of MakeWaitForInterval and         *)
(* MakeWaitForRoundedInterval it was given, the time its wait ends,        *)
(* LastFinished of its metadata, and whether Close has been called.        *)
Job == [place    : {"stopped", "waiting", "locking", "executing", "saving"},
        rounded  : BOOLEAN,
        until    : Nat,
        finished : 0 .. MaxTime,
        stopping : BOOLEAN]

Stopped == [place |-> "stopped", rounded |-> FALSE, until |-> 0,
            finished |-> 0, stopping |-> FALSE]

Init ==
    /\ LockInit
    /\ now = 1
    /\ stored = 0 /\ replica = 0
    /\ job = [p \in Clients |-> Stopped]
    /\ lastEnd = 0 /\ unsaved = FALSE
    /\ made = [schedules |-> 0, faults |-> 0]

Fault == /\ made.faults < MaxFaults
         /\ made' = [made EXCEPT !.faults = @ + 1]

At(p, place) == job[p].place = place

(* Mutant of NextRun: truncated before the interval is added.              *)
NextRunTruncated(p, last) ==
    IF last = 0 THEN 0
    ELSE IF job[p].rounded THEN (last \div Interval) * Interval
    ELSE last + Interval

(* nextWaitInterval: the time of the next run.                             *)
NextRun(p, last) ==
    IF last = 0 THEN 0
    ELSE IF job[p].rounded THEN ((last + Interval) \div Interval) * Interval
    ELSE last + Interval

Schedule(p, rounded) ==
    /\ At(p, "stopped")
    /\ made.schedules < MaxSchedules
    /\ made' = [made EXCEPT !.schedules = @ + 1]
    /\ job' = [job EXCEPT ![p] = [Stopped EXCEPT !.place = "waiting",
                                                 !.rounded = rounded]]
    /\ UNCHANGED <<holder, now, stored, replica, lastEnd, unsaved>>

Close(p) ==
    /\ ~At(p, "stopped")
    /\ ~job[p].stopping
    /\ job' = [job EXCEPT ![p].stopping = TRUE]
    /\ UNCHANGED <<holder, now, stored, replica, lastEnd, unsaved, made>>

(* The select of run: the goroutine ends, or its time has come; when both  *)
(* are ready it takes either.                                              *)
Stop(p) ==
    /\ At(p, "waiting")
    /\ job[p].stopping
    /\ job' = [job EXCEPT ![p] = Stopped]
    /\ UNCHANGED <<holder, now, stored, replica, lastEnd, unsaved, made>>

Wake(p) ==
    /\ At(p, "waiting")
    /\ now >= job[p].until
    /\ job' = [job EXCEPT ![p].place = "locking"]
    /\ UNCHANGED <<holder, now, stored, replica, lastEnd, unsaved, made>>

(* The mutex is locked and the metadata read; if it is not time yet, the   *)
(* mutex is unlocked again.                                                *)
readMetadata(p) ==
    /\ At(p, "locking")
    /\ holder = NoClient
    /\ IF now < NextRun(p, replica)
         THEN /\ job' = [job EXCEPT ![p].place = "waiting", ![p].until = NextRun(p, replica)]
              /\ UNCHANGED holder
         ELSE /\ job' = [job EXCEPT ![p].place = "executing"]
              /\ Acquire(p)
    /\ UNCHANGED <<now, stored, replica, lastEnd, unsaved, made>>

(* The read fails: once more after some time.                              *)
readMetadataFails(p) ==
    /\ At(p, "locking")
    /\ holder = NoClient
    /\ Fault
    /\ job' = [job EXCEPT ![p].place = "waiting", ![p].until = now]
    /\ UNCHANGED <<holder, now, stored, replica, lastEnd, unsaved>>

callback(p) ==
    /\ At(p, "executing")
    /\ job' = [job EXCEPT ![p].place = "saving", ![p].finished = now]
    /\ lastEnd' = now
    /\ UNCHANGED <<holder, now, stored, replica, unsaved, made>>

(* The goroutine unlocks and waits for the next run.                       *)
WaitAgain(p) ==
    /\ Release(p)
    /\ job' = [job EXCEPT ![p].place = "waiting", ![p].until = NextRun(p, job[p].finished)]

Store(time) == stored' = time /\ unsaved' = FALSE

(* Mutant of saveMetadata: nothing is saved.                               *)
saveMetadataForgets(p) ==
    /\ At(p, "saving")
    /\ Release(p)
    /\ job' = [job EXCEPT ![p].place = "waiting",
                          ![p].until = NextRun(p, job[p].finished)]
    /\ UNCHANGED <<now, stored, replica, lastEnd, unsaved, made>>

(* Mutant of saveMetadata: the mutex stays locked.                         *)
saveMetadataKeepsMutex(p) ==
    /\ At(p, "saving")
    /\ Store(job[p].finished)
    /\ job' = [job EXCEPT ![p].place = "waiting",
                          ![p].until = NextRun(p, job[p].finished)]
    /\ UNCHANGED <<holder, now, replica, lastEnd, made>>

saveMetadata(p) ==
    /\ At(p, "saving")
    /\ Store(job[p].finished)
    /\ WaitAgain(p)
    /\ UNCHANGED <<now, replica, lastEnd, made>>

(* The call fails, perhaps after it has taken effect.                      *)
saveMetadataFails(p) ==
    /\ At(p, "saving")
    /\ Fault
    /\ \/ Store(job[p].finished)
       \/ UNCHANGED stored /\ unsaved' = TRUE
    /\ WaitAgain(p)
    /\ UNCHANGED <<now, replica, lastEnd>>

(* Mutant of Crash: the key of the mutex has no ttl.                       *)
CrashKeepsMutex(p) ==
    /\ ~At(p, "stopped")
    /\ Fault
    /\ job' = [job EXCEPT ![p] = Stopped]
    /\ unsaved' = (unsaved \/ At(p, "saving"))
    /\ UNCHANGED <<holder, now, stored, replica, lastEnd>>

(* The instance of the plugin stops; its mutex expires.                    *)
Crash(p) ==
    /\ ~At(p, "stopped")
    /\ Fault
    /\ job' = [job EXCEPT ![p] = Stopped]
    /\ unsaved' = (unsaved \/ At(p, "saving"))
    /\ holder' = IF holder = p THEN NoClient ELSE holder
    /\ UNCHANGED <<now, stored, replica, lastEnd>>

(* The database: the replica catches up with the master.                   *)
Replicate ==
    /\ replica # stored
    /\ replica' = stored
    /\ UNCHANGED <<holder, now, stored, job, lastEnd, unsaved, made>>

Tick ==
    /\ now < MaxTime
    /\ now' = now + 1
    /\ UNCHANGED <<holder, stored, replica, job, lastEnd, unsaved, made>>

Run(p) == Wake(p) \/ readMetadata(p) \/ callback(p) \/ saveMetadata(p)

Next ==
    \/ Tick \/ Replicate
    \/ \E p \in Clients :
         \/ \E rounded \in BOOLEAN : Schedule(p, rounded)
         \/ Close(p) \/ Run(p) \/ Stop(p) \/ Crash(p)
         \/ readMetadataFails(p) \/ saveMetadataFails(p)

Spec == Init /\ [][Next]_vars

(* Goroutines get on, callbacks return, and select in the end takes the    *)
(* closed channel.                                                         *)
Fairness ==
    /\ WF_vars(Tick) /\ WF_vars(Replicate)
    /\ \A p \in Clients : WF_vars(Run(p)) /\ SF_vars(Stop(p))

FairSpec == Spec /\ Fairness

-----------------------------------------------------------------------------

(* The variables keep their types.                                         *)
TypeOK ==
    /\ holder \in Clients \cup {NoClient}
    /\ now \in 1 .. MaxTime
    /\ {stored, replica, lastEnd} \subseteq 0 .. MaxTime
    /\ job \in [Clients -> Job]
    /\ unsaved \in BOOLEAN
    /\ made \in [schedules : Nat, faults : Nat]

(* The metadata belongs to the holder of the mutex: while nobody is        *)
(* between the end of a callback and saveMetadata, "LastFinished is the    *)
(* last time the job finished anywhere in the cluster", unless that call   *)
(* failed or a crash prevented it.                                         *)
LastFinishedIsLast ==
    /\ \A p \in Clients : At(p, "executing") \/ At(p, "saving") <=> holder = p
    /\ unsaved \/ stored = lastEnd
         \/ \E p \in Clients : At(p, "saving") /\ job[p].finished = lastEnd

(* The inductive invariant.                                                *)
JobInv ==
    /\ TypeOK
    /\ LastFinishedIsLast
    /\ \A p \in Clients : At(p, "saving") => job[p].finished = lastEnd

Apart(p, last, time) ==
    \/ last = 0
    \/ job[p].rounded /\ time \div Interval > last \div Interval
    \/ ~job[p].rounded /\ time - last >= Interval

(* "relative to the last finished timestamp": whichever instance runs the  *)
(* callback, the interval has passed (rounded: another one has begun)      *)
(* since it last returned on any of them, unless that could not be saved   *)
(* or is read from a replica that does not have it yet.                    *)
RunsApart ==
    [][\A p \in Clients :
         ~At(p, "executing") /\ At(p, "executing")' /\ ~unsaved /\ replica = stored =>
             Apart(p, lastEnd, now)]_vars

(* What the instances take turns at goes on: the next run comes when it is *)
(* due, though some of them are closed or crash, while one is not.         *)
RunsAgain ==
    \A t \in 0 .. MaxTime - Interval :
        lastEnd = t ~>
            lastEnd # t \/ \A p \in Clients : At(p, "stopped") \/ job[p].stopping

(* "Close terminates a scheduled job", also one that waits for the mutex.  *)
CloseReturns ==
    \A p \in Clients : job[p].stopping ~> At(p, "stopped")
=============================================================================
