---------------------------- MODULE BatchMigration ----------------------------
(***************************************************************************)
(* A migration of the database in batches: the row of its job in the Jobs  *)
(* table, and on every node of the cluster the boot that creates the job,  *)
(* the watcher that finds it and the BatchMigrationWorker that claims and  *)
(* runs it.                                                                *)
(*                                                                         *)
(* A job of these types is neither listed, cancelled nor updated by the    *)
(* REST API, which has no permission for them: its row is written by the   *)
(* actions below only. Each call of the store is a step of its own, the    *)
(* jobs a poll or a boot finds are those of a replica that may be behind,  *)
(* and a write that returns an error may have taken effect.                *)
(***************************************************************************)
EXTENDS Integers

CONSTANTS
    Nodes,
    Jobs,               \* ids a job may get, each once
    None,               \* no job
    NumBatches,         \* batches the migration has
    MaxFaults,          \* calls and batches that fail, and nodes that die
    MaxStops,           \* orderly shutdowns
    MaxDivergences      \* how often nodes of another version join

ASSUME NoneAssumption == None \notin Jobs
ASSUME BatchAssumption == NumBatches \in Nat
ASSUME BoundAssumption ==
    {MaxFaults, MaxStops, MaxDivergences} \subseteq Nat

Batches == 1 .. NumBatches

VARIABLES
    jobs,       \* the Jobs table on the master; data is the last batch done
    key,        \* the migration key is in the Systems table
    replica,    \* the Jobs table as a replica has it
    inSync,     \* the nodes of the cluster run the same version
    pc,         \* where each node is
    job,        \* id of the job the worker of a node has, or None
    data,       \* Data of its copy
    sent,       \* Data of the copy it was sent
    stopping,   \* nodes whose stopCh is closed
    performed,  \* history: batches done for a job since it was new or reset
    used        \* what of the bounds has been used

tables == <<jobs, key, performed>>
worker == <<job, data, sent>>
vars == <<tables, replica, inSync, pc, worker, stopping, used>>

Statuses == {"none", "pending", "in_progress", "success", "error"}
Active == {"pending", "in_progress"}

(* From the claim until the worker has given its job back or ended it.     *)
Holding == {"run", "save", "reset", "fail", "finish", "finishFailed"}
Ending == {"succeed", "succeedFailed"}
Up == {"idle", "claim", "mark"} \cup Holding \cup Ending
Places == {"down", "create"} \cup Up

Init ==
    /\ jobs = [j \in Jobs |-> [status |-> "none", data |-> 0]]
    /\ key = FALSE
    /\ replica = jobs
    /\ inSync = TRUE
    /\ pc = [n \in Nodes |-> "down"]
    /\ job = [n \in Nodes |-> None]
    /\ data = [n \in Nodes |-> 0]
    /\ sent = [n \in Nodes |-> 0]
    /\ stopping = {}
    /\ performed = [j \in Jobs |-> {}]
    /\ used = [faults |-> 0, crashes |-> 0, stops |-> 0, divergences |-> 0]

Use(what) == used' = [used EXCEPT ![what] = @ + 1]

Faults == used.faults + used.crashes
Fault == Faults < MaxFaults /\ Use("faults")

Goto(n, place) == pc' = [pc EXCEPT ![n] = place]

-----------------------------------------------------------------------------
(* The job store. Each operator is the table after the statement.          *)

UpdateStatus(j, status) == [jobs EXCEPT ![j].status = status]

UpdateOptimistically(j, row, current) ==
    IF jobs[j].status = current THEN [jobs EXCEPT ![j] = row] ELSE jobs

(* Mutant of SaveOnce: only jobs that wait are counted.                    *)
SaveOnceCountsPending(j) ==
    IF \E i \in Jobs : jobs[i].status = "pending" THEN jobs
    ELSE [jobs EXCEPT ![j] = [status |-> "pending", data |-> 0]]

SaveOnce(j) ==
    IF \E i \in Jobs : jobs[i].status \in Active THEN jobs
    ELSE [jobs EXCEPT ![j] = [status |-> "pending", data |-> 0]]

(* A write, then the worker goes on to next; or one that returns an error, *)
(* with or without effect, and it goes on to failed.                       *)
Write(n, table, next, failed) ==
    \/ /\ jobs' = table
       /\ Goto(n, next)
       /\ UNCHANGED used
    \/ /\ Fault
       /\ jobs' \in {jobs, table}
       /\ Goto(n, failed)

-----------------------------------------------------------------------------
(* The boot of a node: unless the migration is done or, as far as the      *)
(* replica knows, its job waits, it creates the job. A read of the key     *)
(* that fails is taken for a key that is not there.                        *)

Boot(n) ==
    /\ pc[n] = "down"
    /\ \/ /\ key \/ \E j \in Jobs : replica[j].status = "pending"
          /\ Goto(n, "idle")
          /\ UNCHANGED used
       \/ /\ ~key
          /\ \A j \in Jobs : replica[j].status # "pending"
          /\ Goto(n, "create")
          /\ UNCHANGED used
       \/ /\ key
          /\ \A j \in Jobs : replica[j].status # "pending"
          /\ Fault
          /\ Goto(n, "create")
    /\ UNCHANGED <<tables, replica, inSync, worker, stopping>>

(* A boot that cannot create its job ends the process. A new job has an    *)
(* id never used before, of which the model has as many as Jobs.           *)
NewId == CHOOSE j \in Jobs : jobs[j].status = "none"

CreateJobOnce(n) ==
    /\ pc[n] = "create"
    /\ \E j \in Jobs : jobs[j].status \in Active \cup {"none"}
    /\ Write(n, SaveOnce(NewId), "idle", "down")
    /\ UNCHANGED <<key, performed, replica, inSync, worker, stopping>>

(* The transaction of SaveOnce loses to another: no job is created, and    *)
(* the boot goes on as if there were one.                                  *)
SaveOnceLoses(n) ==
    /\ pc[n] = "create"
    /\ Goto(n, "idle")
    /\ UNCHANGED <<tables, replica, inSync, worker, stopping, used>>

-----------------------------------------------------------------------------
(* The watcher hands a worker that waits a copy of a pending job.          *)

PollAndNotify(n, j) ==
    /\ pc[n] = "idle"
    /\ n \notin stopping
    /\ replica[j].status = "pending"
    /\ Goto(n, "claim")
    /\ job' = [job EXCEPT ![n] = j]
    /\ sent' = [sent EXCEPT ![n] = replica[j].data]
    /\ UNCHANGED <<tables, replica, inSync, data, stopping, used>>

Forget(n) ==
    /\ job' = [job EXCEPT ![n] = None]
    /\ data' = [data EXCEPT ![n] = 0]
    /\ sent' = [sent EXCEPT ![n] = 0]

(* Mutant of Claimed: the worker goes on with the copy it was sent.        *)
ClaimedAsSent(n) == data' = [data EXCEPT ![n] = sent[n]]

(* What the worker works on is the row the claim returned.                 *)
Claimed(n) == data' = [data EXCEPT ![n] = jobs[job[n]].data]

ClaimJob(n) ==
    LET j == job[n]
        claimed == UpdateOptimistically(j, [jobs[j] EXCEPT !.status = "in_progress"], "pending")
    IN  /\ pc[n] = "claim"
        /\ \/ /\ jobs[j].status = "pending"
              /\ jobs' = claimed
              /\ Goto(n, "run")
              /\ Claimed(n)
              /\ UNCHANGED <<job, sent, used>>
           \/ /\ jobs[j].status # "pending"
              /\ Goto(n, "idle")
              /\ Forget(n)
              /\ UNCHANGED <<jobs, used>>
           \/ /\ Fault
              /\ jobs' \in {jobs, claimed}
              /\ Goto(n, "idle")
              /\ Forget(n)
        /\ UNCHANGED <<key, performed, replica, inSync, stopping>>

-----------------------------------------------------------------------------
(* The worker between its batches. The cluster may get out of step between *)
(* the look at it and the batch; the code accepts that.                    *)

(* Mutant of Done: one batch too many.                                     *)
DonePast(n) == data[n] > NumBatches

(* The batch after the last one is empty.                                  *)
Done(n) == data[n] = NumBatches

DoBatch(n) ==
    /\ pc[n] = "run"
    /\ n \notin stopping
    /\ \/ /\ ~inSync
          /\ Goto(n, "reset")
          /\ UNCHANGED <<data, performed, used>>
       \/ /\ inSync
          /\ Done(n)
          /\ Goto(n, "finish")
          /\ UNCHANGED <<data, performed, used>>
       \/ /\ inSync
          /\ ~Done(n)
          /\ Goto(n, "save")
          /\ data' = [data EXCEPT ![n] = @ + 1]
          /\ performed' = [performed EXCEPT ![job[n]] = @ \cup {data[n] + 1}]
          /\ UNCHANGED used
       \/ /\ Fault                                  \* the status of the cluster, or the batch
          /\ \/ Goto(n, "reset")
             \/ inSync /\ Goto(n, "fail")
          /\ UNCHANGED <<data, performed>>
    /\ UNCHANGED <<jobs, key, replica, inSync, job, sent, stopping>>

Row(n, status) == [status |-> status, data |-> data[n]]

(* Mutant of SetJobProgress: the progress is kept in memory only.          *)
SetJobProgressInMemory(n) ==
    /\ pc[n] = "save"
    /\ Goto(n, "run")
    /\ UNCHANGED <<tables, replica, inSync, worker, stopping, used>>

(* SetJobProgress after a batch; an error is only logged.                  *)
SetJobProgress(n) ==
    /\ pc[n] = "save"
    /\ Write(n, UpdateOptimistically(job[n], Row(n, "in_progress"), "in_progress"), "run", "run")
    /\ UNCHANGED <<key, performed, replica, inSync, worker, stopping>>

(* Mutant of resetJob: the status is left as it is.                        *)
resetJobKeepsStatus(n) ==
    /\ pc[n] = "reset"
    /\ jobs' = [jobs EXCEPT ![job[n]].data = 0]
    /\ performed' = [performed EXCEPT ![job[n]] = {}]
    /\ Goto(n, "idle")
    /\ Forget(n)
    /\ UNCHANGED <<key, replica, inSync, stopping, used>>

(* A reset that fails is only logged, and the job stays in progress.       *)
resetJob(n) ==
    LET j == job[n]
    IN  /\ pc[n] = "reset"
        /\ Write(n, UpdateOptimistically(j, [status |-> "pending", data |-> 0], "in_progress"),
                 "idle", "idle")
        /\ performed' = IF jobs'[j].status = "pending" THEN [performed EXCEPT ![j] = {}]
                                                       ELSE performed
        /\ Forget(n)
        /\ UNCHANGED <<key, replica, inSync, stopping>>

-----------------------------------------------------------------------------
(* The end of a job.                                                       *)

SetJobError(n) == UpdateOptimistically(job[n], Row(n, "error"), "in_progress")

(* Mutant of Fail: the worker goes on with its job.                        *)
FailGoesOn(n) ==
    /\ pc[n] = "fail"
    /\ Write(n, SetJobError(n), "run", "run")
    /\ UNCHANGED <<key, performed, replica, inSync, worker, stopping>>

Fail(n) ==
    /\ pc[n] = "fail"
    /\ Write(n, SetJobError(n), "idle", "idle")
    /\ Forget(n)
    /\ UNCHANGED <<key, performed, replica, inSync, stopping>>

(* setJobSuccess: a progress or a success that cannot be saved makes the   *)
(* job an error, and the worker goes on with its next line.                *)
FinishProgress(n) ==
    /\ pc[n] = "finish"
    /\ Write(n, UpdateOptimistically(job[n], Row(n, "in_progress"), "in_progress"),
             "succeed", "finishFailed")
    /\ UNCHANGED <<key, performed, replica, inSync, worker, stopping>>

FinishFailed(n) ==
    /\ \/ pc[n] = "finishFailed" /\ Write(n, SetJobError(n), "succeed", "succeed")
       \/ pc[n] = "succeedFailed" /\ Write(n, SetJobError(n), "mark", "mark")
    /\ UNCHANGED <<key, performed, replica, inSync, worker, stopping>>

SetJobSuccess(n) ==
    /\ pc[n] = "succeed"
    /\ Write(n, UpdateStatus(job[n], "success"), "mark", "succeedFailed")
    /\ UNCHANGED <<key, performed, replica, inSync, worker, stopping>>

markAsComplete(n) ==
    /\ pc[n] = "mark"
    /\ \/ key' = TRUE /\ UNCHANGED used
       \/ key' \in {key, TRUE} /\ Fault
    /\ Goto(n, "idle")
    /\ Forget(n)
    /\ UNCHANGED <<jobs, performed, replica, inSync, stopping>>

-----------------------------------------------------------------------------
(* Shutdowns, crashes, versions and replicas.                              *)

Stop(n) ==
    /\ pc[n] \in Up
    /\ n \notin stopping
    /\ used.stops < MaxStops
    /\ Use("stops")
    /\ stopping' = stopping \cup {n}
    /\ UNCHANGED <<tables, replica, inSync, pc, worker>>

(* A worker that is stopped between its batches puts its job back,         *)
(* whatever its status is.                                                 *)
SetJobPending(n) ==
    /\ pc[n] = "run"
    /\ n \in stopping
    /\ Write(n, UpdateStatus(job[n], "pending"), "idle", "idle")
    /\ Forget(n)
    /\ UNCHANGED <<key, performed, replica, inSync, stopping>>

Stopped(n) ==
    /\ pc[n] = "idle"
    /\ n \in stopping
    /\ Goto(n, "down")
    /\ stopping' = stopping \ {n}
    /\ UNCHANGED <<tables, replica, inSync, worker, used>>

(* A panic in a batch makes the job an error, with the data of the copy    *)
(* that was sent, and then ends the process.                               *)
Crash(n) ==
    /\ pc[n] # "down"
    /\ Faults < MaxFaults
    /\ Use("crashes")
    /\ \/ UNCHANGED jobs
       \/ /\ pc[n] = "run"
          /\ jobs' = UpdateOptimistically(job[n], [status |-> "error", data |-> sent[n]], "in_progress")
    /\ Goto(n, "down")
    /\ stopping' = stopping \ {n}
    /\ Forget(n)
    /\ UNCHANGED <<key, performed, replica, inSync>>

Replicate ==
    /\ replica' = jobs
    /\ UNCHANGED <<tables, inSync, pc, worker, stopping, used>>

Diverge ==
    /\ inSync
    /\ used.divergences < MaxDivergences
    /\ Use("divergences")
    /\ inSync' = FALSE
    /\ UNCHANGED <<tables, replica, pc, worker, stopping>>

Converge ==
    /\ ~inSync
    /\ inSync' = TRUE
    /\ UNCHANGED <<tables, replica, pc, worker, stopping, used>>

-----------------------------------------------------------------------------

Work(n) ==
    \/ ClaimJob(n)
    \/ DoBatch(n)
    \/ SetJobProgress(n)
    \/ resetJob(n)
    \/ Fail(n)
    \/ FinishProgress(n)
    \/ FinishFailed(n)
    \/ SetJobSuccess(n)
    \/ markAsComplete(n)
    \/ SetJobPending(n)

Next ==
    \/ \E n \in Nodes :
          \/ Boot(n)
          \/ CreateJobOnce(n)
          \/ SaveOnceLoses(n)
          \/ \E j \in Jobs : PollAndNotify(n, j)
          \/ Work(n)
          \/ Stop(n)
          \/ Stopped(n)
          \/ Crash(n)
    \/ Replicate
    \/ Diverge
    \/ Converge

Spec == Init /\ [][Next]_vars

(* A node that is down is started again, a boot and a worker go on, the    *)
(* watcher polls, the replica catches up and a rolling upgrade ends.       *)
Fairness ==
    /\ \A n \in Nodes :
          /\ WF_vars(Boot(n))
          /\ WF_vars(CreateJobOnce(n) \/ SaveOnceLoses(n))
          /\ \A j \in Jobs : WF_vars(PollAndNotify(n, j))
          /\ WF_vars(Work(n))
          /\ WF_vars(Stopped(n))
    /\ WF_vars(Replicate)
    /\ WF_vars(Converge)

FairSpec == Spec /\ Fairness

-----------------------------------------------------------------------------

(* Every variable holds what it is declared to hold.                       *)
TypeOK ==
    /\ jobs \in [Jobs -> [status : Statuses, data : 0 .. NumBatches]]
    /\ key \in BOOLEAN
    /\ replica \in [Jobs -> [status : Statuses, data : 0 .. NumBatches]]
    /\ inSync \in BOOLEAN
    /\ pc \in [Nodes -> Places]
    /\ job \in [Nodes -> Jobs \cup {None}]
    /\ data \in [Nodes -> 0 .. NumBatches]
    /\ sent \in [Nodes -> 0 .. NumBatches]
    /\ stopping \subseteq Nodes
    /\ performed \in [Jobs -> SUBSET Batches]
    /\ used \in [faults : Nat, crashes : Nat, stops : Nat, divergences : Nat]

(* At most one node of the cluster runs the migration at a time, whichever *)
(* job it runs it for (batch_migration_worker.go:22-23): through lagging   *)
(* polls, boots that create the job at once, restarts, resets and writes   *)
(* that fail.                                                              *)
OneNodeRuns ==
    \A n, m \in Nodes : pc[n] \in Holding /\ pc[m] \in Holding => n = m

(* A migration recorded as complete, or about to be, has had each of its   *)
(* batches done for one job, since that job was created or last reset: a   *)
(* copy that is older than the reset must not lead on to its end.          *)
NoBatchSkipped ==
    /\ key => \E j \in Jobs : performed[j] = Batches
    /\ \A n \in Nodes :
          pc[n] \in Ending \cup {"finish", "finishFailed", "mark"} => performed[job[n]] = Batches

(* Unless a call failed, a worker that takes up a job goes on right after  *)
(* the last batch done for it, on whichever node that was.                 *)
NothingRepeated ==
    used.faults = 0 =>
        \A n \in Nodes : pc[n] = "run" => performed[job[n]] = 1 .. data[n]

(* An error prevents a job from running again (batch_worker.go:178) and a  *)
(* success stays one, although SetJobPending and SetJobSuccess write the   *)
(* status without looking at it.                                           *)
FinalIsFinal ==
    [][\A j \in Jobs :
          /\ jobs[j].status = "success" => jobs'[j].status = "success"
          /\ jobs[j].status = "error" => jobs'[j].status \in {"error", "success"}]_vars

(* A job in progress that no node works on any more, after a crash or a    *)
(* write that failed. Nothing takes it up again.                           *)
Abandoned(j) ==
    /\ Faults > 0
    /\ jobs[j].status = "in_progress"
    /\ \A n \in Nodes : job[n] # j

(* A job that waits comes to its end, past any number of shutdowns and     *)
(* resets the bounds allow, unless a crash or a failed write loses it.     *)
PendingEnds ==
    \A j \in Jobs :
        jobs[j].status = "pending" ~>
            jobs[j].status \in {"success", "error"} \/ Abandoned(j)

=============================================================================
