------------------------------ MODULE JobOnce ------------------------------
(***************************************************************************)
(* Jobs that plugins schedule to run once, anywhere in the cluster         *)
(* (job_once.go, job_once_scheduler.go): the stored metadata of one job    *)
(* key, the JobOnce objects of the servers with their run goroutines, the  *)
(* calls of ScheduleOnce and Cancel, and the pollers. The mutex of the key *)
(* is the lock of ClusterLock, which ClusterMutex implements.              *)
(*                                                                         *)
(* Metadata is written to the master of the database and read, by KVGet    *)
(* and KVList, from its replicas in turn, each of which may be behind. It  *)
(* changes only under the mutex, so where the code locks, makes one call   *)
(* to the store and unlocks, the three are one step.                       *)
(***************************************************************************)
EXTENDS Naturals, FiniteSets, ClusterLock

CONSTANTS Servers,       \* the instances of the plugin
          Jobs,          \* the JobOnce objects that may exist at once
          Calls,         \* the calls of plugin code that may be going on
          None,
          RunAts,        \* the times jobs are scheduled for
          maxNumFails,   \* 3 in the code
          MaxTime, MaxSchedules, MaxCancels, MaxFaults   \* bounds

ASSUME JobOnceAssumption ==
    /\ Clients = Jobs \cup Calls
    /\ Jobs \cap Calls = {}
    /\ None \notin Jobs \cup Servers
    /\ RunAts \subseteq Nat \ {0}
    /\ {maxNumFails, MaxTime, MaxSchedules, MaxCancels, MaxFaults} \subseteq Nat

VARIABLES now,
          meta,     \* RunAt of the stored metadata; 0: there is none
          readable, \* what a read may return: meta and what it was since
                    \* the replica that is furthest behind
          active,   \* activeJobs.jobs[key] of each server
          readers,  \* the calls that have read-locked activeJobs.mu
          polled,   \* RunAt that a server's poller has read and not used yet
          job,      \* the JobOnce objects
          call,     \* the calls
          made,     \* how many schedules, cancels and faults there have been
          history   \* of the schedule saved last: how often its metadata has
                    \* been read and run, and whether a job deleted it that
                    \* had not read it

store == <<meta, readable>>
vars == <<holder, now, store, active, readers, polled, job, call, made, history>>

(* Where the run goroutine of a job is: waiting in its select; locking the *)
(* mutex; executing the callback; deleting the metadata; forgetting the    *)
(* job in activeJobs; ended. Or it never began, as runAndTrack had found   *)
(* another job of the key (idle).                                          *)
Job == [place   : {"free", "idle", "waiting", "locking", "executing",
                   "deleting", "forgetting", "ended"},
        server  : Servers \cup {None},
        runAt   : RunAts \cup {0},
        own     : BOOLEAN,   \* ScheduleOnce has returned it
        overdue : BOOLEAN,   \* the time to wait is not positive
        done    : BOOLEAN,   \* the channel done is closed
        behind  : BOOLEAN,   \* history: it has read what meta was once
        numFails : Nat]

FreeJob == [place |-> "free", server |-> None, runAt |-> 0, own |-> FALSE,
            overdue |-> FALSE, done |-> FALSE, behind |-> FALSE, numFails |-> 0]

(* A call: ScheduleOnce saves and then tracks its job; JobOnce.Cancel      *)
(* locks, forgets and joins; Cancel of the scheduler goes on as            *)
(* JobOnce.Cancel, or deletes the metadata of a job it does not know.      *)
Call == [place  : {"none", "save", "track", "lock", "forget", "join", "delete"},
         server : Servers \cup {None},
         runAt  : RunAts \cup {0},
         job    : Jobs \cup {None}]

NoCall == [place |-> "none", server |-> None, runAt |-> 0, job |-> None]

(* The history of a schedule that begins.                                  *)
Saved == [runs |-> 0, dropped |-> FALSE]

Init ==
    /\ LockInit
    /\ now = 0
    /\ meta = 0 /\ readable = {0}
    /\ active = [s \in Servers |-> None]
    /\ readers = {}
    /\ polled = [s \in Servers |-> 0]
    /\ job = [j \in Jobs |-> FreeJob]
    /\ call = [k \in Calls |-> NoCall]
    /\ made = [schedules |-> 0, cancels |-> 0, faults |-> 0]
    /\ history = Saved

Fault == /\ made.faults < MaxFaults
         /\ made' = [made EXCEPT !.faults = @ + 1]

(* activeJobs.mu can be locked for writing.                                *)
CanWrite(s) == \A k \in readers : call[k].server # s

Store(runAt) == meta' = runAt /\ readable' = readable \cup {runAt}

(* KVDelete, whose error is ignored.                                       *)
Erase == \/ Store(0) /\ UNCHANGED made
         \/ meta # 0 /\ UNCHANGED store /\ Fault

(* A job whose run has returned, as far as it is still looked at.          *)
EndedJob(j) ==
    IF job[j].own \/ \E k \in Calls : call[k].job = j
      THEN [FreeJob EXCEPT !.place = "ended", !.server = job[j].server,
                           !.own = job[j].own, !.done = TRUE]
      ELSE FreeJob

(* An object nobody refers to any more.                                    *)
Unused == {j \in Jobs : /\ job[j].place \in {"free", "idle", "ended"}
                        /\ \A k \in Calls : call[k].job # j}

(* runAndTrack of a new job: a key that is active already stays as it is.  *)
runAndTrack(s, runAt, own) ==
    \E j \in Unused :
        /\ job' = [job EXCEPT ![j] =
              IF active[s] = None
                THEN [FreeJob EXCEPT !.place = "waiting", !.server = s, !.own = own,
                                     !.runAt = runAt, !.overdue = now >= runAt]
                ELSE [FreeJob EXCEPT !.place = "idle", !.server = s, !.own = own]]
        /\ active' = [active EXCEPT ![s] = IF @ = None THEN j ELSE @]

-----------------------------------------------------------------------------
(* The run goroutine. When the time has come and done is closed as well,   *)
(* select takes either.                                                    *)

At(j, place) == job[j].place = place

(* Mutant of Fire: the wait is forgotten.                                  *)
FireEarly(j) ==
    /\ At(j, "waiting")
    /\ job' = [job EXCEPT ![j].place = "locking"]
    /\ UNCHANGED <<holder, now, store, active, readers, polled, call, made, history>>

Fire(j) ==
    /\ At(j, "waiting")
    /\ now >= job[j].runAt
    /\ job' = [job EXCEPT ![j].place = "locking"]
    /\ UNCHANGED <<holder, now, store, active, readers, polled, call, made, history>>

Done(j) ==
    /\ At(j, "waiting")
    /\ job[j].done
    /\ job' = [job EXCEPT ![j] = EndedJob(j)]
    /\ UNCHANGED <<holder, now, store, active, readers, polled, call, made, history>>

(* Mutant of ReadMetadata: any metadata of the key will do.                *)
ReadMetadataAnyTime(j) ==
    /\ At(j, "locking")
    /\ Acquire(j)
    /\ \E read \in readable :
          job' = [job EXCEPT ![j].place = IF read # 0 THEN "executing" ELSE "deleting",
                             ![j].behind = read # meta]
    /\ UNCHANGED <<now, store, active, readers, polled, call, made, history>>

(* The mutex is locked and the metadata read: the callback is to run, or   *)
(* the job is taken for one that has been completed already.               *)
ReadMetadata(j) ==
    /\ At(j, "locking")
    /\ Acquire(j)
    /\ \E read \in readable :
          job' = [job EXCEPT ![j].place = IF read = job[j].runAt THEN "executing"
                                                                ELSE "deleting",
                             ![j].behind = read # meta]
    /\ UNCHANGED <<now, store, active, readers, polled, call, made, history>>

(* The read fails: once more after a second, or the job is canceled.       *)
ReadFails(j) ==
    /\ At(j, "locking")
    /\ Fault
    /\ IF job[j].numFails >= maxNumFails
         THEN /\ Acquire(j)
              /\ job' = [job EXCEPT ![j].place = "deleting", ![j].numFails = @ + 1]
         ELSE /\ holder = NoClient /\ UNCHANGED holder
              /\ job' = [job EXCEPT ![j].place = "waiting", ![j].numFails = @ + 1,
                                    ![j].overdue = FALSE]
    /\ UNCHANGED <<now, store, active, readers, polled, call, history>>

Counted(j) == [history EXCEPT !.runs = IF job[j].behind THEN @ ELSE @ + 1]

(* Mutant of executeJob: the metadata stays once the callback has run.     *)
executeJobKeepsMetadata(j) ==
    /\ At(j, "executing")
    /\ history' = Counted(j)
    /\ job' = [job EXCEPT ![j].place = "forgetting"]
    /\ UNCHANGED <<holder, now, store, active, readers, polled, call, made>>

executeJob(j) ==
    /\ At(j, "executing")
    /\ history' = Counted(j)
    /\ job' = [job EXCEPT ![j].place = "deleting"]
    /\ UNCHANGED <<holder, now, store, active, readers, polled, call, made>>

(* cancelWhileHoldingMutex of run, in two steps: the store, where it       *)
(* deletes whatever there is under the key ...                             *)
DeleteMetadata(j) ==
    /\ At(j, "deleting")
    /\ Erase
    /\ job' = [job EXCEPT ![j].place = "forgetting", ![j].behind = FALSE]
    /\ history' = [history EXCEPT !.dropped =
          @ \/ (meta' # meta /\ (job[j].behind \/ meta # job[j].runAt))]
    /\ UNCHANGED <<holder, now, active, readers, polled, call>>

(* ... and this server; then the mutex is unlocked. The next turn of the   *)
(* loop finds done closed; only a job that was overdue might fire again.   *)
Forget(j) ==
    LET s == job[j].server
    IN  /\ At(j, "forgetting")
        /\ CanWrite(s)
        /\ active' = [active EXCEPT ![s] = None]
        /\ job' = [job EXCEPT ![j] =
              IF @.overdue THEN [@ EXCEPT !.done = TRUE, !.place = "waiting"]
                           ELSE EndedJob(j)]
        /\ Release(j)
        /\ UNCHANGED <<now, store, readers, polled, call, made, history>>

-----------------------------------------------------------------------------
(* The calls of plugin code.                                               *)

CallAt(k, place) == call[k].place = place

ScheduleOnce(k, s, runAt) ==
    /\ CallAt(k, "none")
    /\ made.schedules < MaxSchedules
    /\ made' = [made EXCEPT !.schedules = @ + 1]
    /\ call' = [call EXCEPT ![k] = [NoCall EXCEPT !.place = "save", !.server = s,
                                                  !.runAt = runAt]]
    /\ UNCHANGED <<holder, now, store, active, readers, polled, job, history>>

(* saveMetadata does not overwrite.                                        *)
saveMetadata(k) ==
    /\ CallAt(k, "save")
    /\ holder = NoClient
    /\ IF meta = 0
         THEN /\ Store(call[k].runAt)
              /\ history' = Saved
              /\ call' = [call EXCEPT ![k].place = "track"]
         ELSE /\ call' = [call EXCEPT ![k] = NoCall]
              /\ UNCHANGED <<store, history>>
    /\ UNCHANGED <<holder, now, active, readers, polled, job, made>>

(* The call to the store fails, perhaps after it has taken effect.         *)
saveMetadataFails(k) ==
    /\ CallAt(k, "save")
    /\ holder = NoClient
    /\ Fault
    /\ \/ UNCHANGED <<store, history>>
       \/ /\ meta = 0
          /\ Store(call[k].runAt)
          /\ history' = Saved
    /\ call' = [call EXCEPT ![k] = NoCall]
    /\ UNCHANGED <<holder, now, active, readers, polled, job>>

Track(k) ==
    /\ CallAt(k, "track")
    /\ CanWrite(call[k].server)
    /\ runAndTrack(call[k].server, call[k].runAt, TRUE)
    /\ call' = [call EXCEPT ![k] = NoCall]
    /\ UNCHANGED <<holder, now, store, readers, polled, made, history>>

Canceling == /\ made.cancels < MaxCancels
             /\ made' = [made EXCEPT !.cancels = @ + 1]

(* JobOnce.Cancel of a job ScheduleOnce has returned.                      *)
CancelJob(k, j) ==
    /\ CallAt(k, "none")
    /\ job[j].own
    /\ Canceling
    /\ call' = [call EXCEPT ![k] = [NoCall EXCEPT !.place = "lock", !.job = j,
                                                  !.server = job[j].server]]
    /\ UNCHANGED <<holder, now, store, active, readers, polled, job, history>>

(* JobOnceScheduler.Cancel. A key that is not active here leaves           *)
(* activeJobs.mu read-locked until its metadata is deleted.                *)
CancelKey(k, s) ==
    /\ CallAt(k, "none")
    /\ Canceling
    /\ call' = [call EXCEPT ![k] = [NoCall EXCEPT
                  !.place = IF active[s] = None THEN "delete" ELSE "lock",
                  !.job = active[s],
                  !.server = s]]
    /\ readers' = IF active[s] = None THEN readers \cup {k} ELSE readers
    /\ UNCHANGED <<holder, now, store, active, polled, job, history>>

CancelLock(k) ==
    /\ CallAt(k, "lock")
    /\ Acquire(k)
    /\ Erase
    /\ call' = [call EXCEPT ![k].place = "forget"]
    /\ UNCHANGED <<now, active, readers, polled, job, history>>

(* Mutant of CancelForget: the job stays in activeJobs.                    *)
CancelForgetKeepsActive(k) ==
    /\ CallAt(k, "forget")
    /\ CanWrite(call[k].server)
    /\ job' = [job EXCEPT ![call[k].job].done = TRUE]
    /\ call' = [call EXCEPT ![k].place = "join"]
    /\ UNCHANGED <<holder, now, store, active, readers, polled, made, history>>

CancelForget(k) ==
    LET s == call[k].server
    IN  /\ CallAt(k, "forget")
        /\ CanWrite(s)
        /\ active' = [active EXCEPT ![s] = None]
        /\ job' = [job EXCEPT ![call[k].job].done = TRUE]
        /\ call' = [call EXCEPT ![k].place = "join"]
        /\ UNCHANGED <<holder, now, store, readers, polled, made, history>>

(* It waits for the run goroutine, still holding the mutex.                *)
CancelJoin(k) ==
    /\ CallAt(k, "join")
    /\ At(call[k].job, "ended")
    /\ Release(k)
    /\ call' = [call EXCEPT ![k] = NoCall]
    /\ UNCHANGED <<now, store, active, readers, polled, job, made, history>>

CancelDelete(k) ==
    /\ CallAt(k, "delete")
    /\ holder = NoClient
    /\ Erase
    /\ readers' = readers \ {k}
    /\ call' = [call EXCEPT ![k] = NoCall]
    /\ UNCHANGED <<holder, now, active, polled, job, history>>

-----------------------------------------------------------------------------
(* The poller of a server, and Start: ListScheduledJobs reads without the  *)
(* mutex.                                                                  *)
ListScheduledJobs(s) ==
    /\ polled[s] = 0
    /\ \E read \in readable \ {0} : polled' = [polled EXCEPT ![s] = read]
    /\ UNCHANGED <<holder, now, store, active, readers, job, call, made, history>>

scheduleNewJobsFromDB(s) ==
    /\ polled[s] # 0
    /\ CanWrite(s)
    /\ polled' = [polled EXCEPT ![s] = 0]
    /\ IF active[s] = None THEN runAndTrack(s, polled[s], FALSE)
                           ELSE UNCHANGED <<job, active>>
    /\ UNCHANGED <<holder, now, store, readers, call, made, history>>

(* Mutant of Crash: the key of the mutex has no ttl.                       *)
CrashKeepsMutex(s) ==
    LET gone == {j \in Jobs : job[j].server = s}
                \cup {k \in Calls : call[k].server = s}
    IN  /\ Fault
        /\ gone # {}
        /\ job' = [j \in Jobs |-> IF j \in gone THEN FreeJob ELSE job[j]]
        /\ call' = [k \in Calls |-> IF k \in gone THEN NoCall ELSE call[k]]
        /\ active' = [active EXCEPT ![s] = None]
        /\ readers' = readers \ gone
        /\ polled' = [polled EXCEPT ![s] = 0]
        /\ UNCHANGED <<holder, now, store, history>>

(* A server stops and starts again. The mutex it has held expires.         *)
Crash(s) ==
    LET gone == {j \in Jobs : job[j].server = s}
                \cup {k \in Calls : call[k].server = s}
    IN  /\ Fault
        /\ gone # {}
        /\ job' = [j \in Jobs |-> IF j \in gone THEN FreeJob ELSE job[j]]
        /\ call' = [k \in Calls |-> IF k \in gone THEN NoCall ELSE call[k]]
        /\ active' = [active EXCEPT ![s] = None]
        /\ readers' = readers \ gone
        /\ polled' = [polled EXCEPT ![s] = 0]
        /\ holder' = IF holder \in gone THEN NoClient ELSE holder
        /\ UNCHANGED <<now, store, history>>

(* The database: all replicas have caught up with the master.              *)
Replicate ==
    /\ readable # {meta}
    /\ readable' = {meta}
    /\ UNCHANGED <<holder, now, meta, active, readers, polled, job, call, made, history>>

Tick ==
    /\ now < MaxTime
    /\ now' = now + 1
    /\ UNCHANGED <<holder, store, active, readers, polled, job, call, made, history>>

Run(j) ==
    \/ Fire(j) \/ ReadMetadata(j) \/ executeJob(j) \/ DeleteMetadata(j) \/ Forget(j)

CallStep(k) ==
    \/ saveMetadata(k) \/ Track(k)
    \/ CancelLock(k) \/ CancelForget(k) \/ CancelJoin(k) \/ CancelDelete(k)

PollStep(s) == ListScheduledJobs(s) \/ scheduleNewJobsFromDB(s)

Next ==
    \/ Tick \/ Replicate
    \/ \E j \in Jobs : Run(j) \/ Done(j) \/ ReadFails(j)
    \/ \E k \in Calls :
         \/ CallStep(k) \/ saveMetadataFails(k)
         \/ \E s \in Servers, runAt \in RunAts : ScheduleOnce(k, s, runAt)
         \/ \E j \in Jobs : CancelJob(k, j)
         \/ \E s \in Servers : CancelKey(k, s)
    \/ \E s \in Servers : PollStep(s) \/ Crash(s)

Spec == Init /\ [][Next]_vars

(* Goroutines get on, timers fire, select in the end takes the closed      *)
(* channel, and the replicas catch up.                                     *)
Fairness ==
    /\ WF_vars(Tick) /\ WF_vars(Replicate)
    /\ \A j \in Jobs : WF_vars(Run(j)) /\ SF_vars(Done(j))
    /\ \A k \in Calls : WF_vars(CallStep(k))
    /\ \A s \in Servers : WF_vars(PollStep(s))

FairSpec == Spec /\ Fairness

-----------------------------------------------------------------------------

(* The variables keep their types.                                         *)
TypeOK ==
    /\ holder \in Clients \cup {NoClient}
    /\ now \in 0 .. MaxTime
    /\ meta \in RunAts \cup {0}
    /\ readable \subseteq RunAts \cup {0}
    /\ active \in [Servers -> Jobs \cup {None}]
    /\ readers \subseteq Calls
    /\ polled \in [Servers -> RunAts \cup {0}]
    /\ job \in [Jobs -> Job]
    /\ call \in [Calls -> Call]
    /\ made \in [schedules : Nat, cancels : Nat, faults : Nat]
    /\ history \in [runs : Nat, dropped : BOOLEAN]

(* The mutex is held by exactly the goroutine that is between its Lock and *)
(* its Unlock, a crash and the failures of the store included.             *)
MutexIsHeld ==
    /\ \A j \in Jobs :
         holder = j <=> job[j].place \in {"executing", "deleting", "forgetting"}
    /\ \A k \in Calls : holder = k <=> call[k].place \in {"forget", "join"}

(* The callback runs under the mutex and not before the time of the job.   *)
(* If the replica the job has read was not behind, what it runs is still   *)
(* scheduled for that time and has not been canceled, up to the callback   *)
(* itself; if it was, it may run what has been canceled or has been run.   *)
RunsWhatIsScheduled ==
    \A j \in Jobs : At(j, "executing") =>
        /\ holder = j
        /\ job[j].runAt <= now
        /\ ~job[j].behind => meta = job[j].runAt

(* "creates a scheduled job that will run once": on however many servers a *)
(* schedule is active, and whatever others have read from a replica that   *)
(* is behind, of the runs whose read was not behind there is one, and one  *)
(* more for each fault: a crash between the callback and the deletion, or  *)
(* a deletion that fails. A read that is behind may run it again.          *)
RunsAtMostOnce == history.runs <= 1 + made.faults

(* A goroutine that is past its select has waited for its time.            *)
WaitsForItsTime ==
    /\ \A j \in Jobs :
         /\ job[j].place \notin {"free", "idle", "ended"} => job[j].runAt # 0
         /\ job[j].place \in {"locking", "executing"} => job[j].runAt <= now
    /\ \A k \in Calls : call[k].place \in {"save", "track"} => call[k].runAt # 0

(* Metadata that has been run as often as the faults allow is gone, or is  *)
(* to be deleted before the mutex is unlocked.                             *)
DeletesWhatHasRun ==
    /\ history.runs <= 1 + made.faults
    /\ history.runs = 1 + made.faults /\ meta # 0 => \E j \in Jobs : At(j, "deleting")

(* The inductive invariant.                                                *)
JobOnceInv ==
    /\ TypeOK
    /\ MutexIsHeld
    /\ WaitsForItsTime
    /\ RunsWhatIsScheduled
    /\ DeletesWhatHasRun

(* run, runAndTrack and the two Cancels: what a server has under the key   *)
(* is a job of its own whose goroutine has not finished with it.           *)
ActiveIsRunning ==
    \A s \in Servers : active[s] # None =>
        /\ job[active[s]].server = s
        /\ ~job[active[s]].done
        /\ job[active[s]].place \notin {"free", "idle", "ended"}

(* "Cancel terminates a scheduled job": the calls return.                  *)
CallsReturn == \A k \in Calls : call[k].place # "none" ~> call[k].place = "none"

(* "even if a cluster goes down and is restarted, Start will restart       *)
(* previously scheduled jobs": what is scheduled runs, unless a Cancel     *)
(* deletes it or does not return, or its metadata cannot be read too       *)
(* often, or it is deleted by a job that takes itself for completed,       *)
(* because it has read from a replica that is behind or is the job of      *)
(* another schedule of the key.                                            *)
ScheduledRuns ==
    meta # 0 ~> \/ history.runs > 0 \/ history.dropped
                \/ \E k \in Calls : call[k].place \in {"lock", "forget", "join", "delete"}
                \/ \E j \in Jobs : job[j].numFails > maxNumFails
=============================================================================
