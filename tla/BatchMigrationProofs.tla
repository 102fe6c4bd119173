------------------------- MODULE BatchMigrationProofs -------------------------
(***************************************************************************)
(* Proofs about BatchMigration, for any cluster, any number of jobs and    *)
(* batches and any bounds: one node runs the migration at a time, none of  *)
(* its batches is skipped or, without a failed call, done twice, and a job *)
(* that has ended has ended for good.                                      *)
(***************************************************************************)
EXTENDS BatchMigration, TLAPS

Table == [Jobs -> [status : Statuses, data : 0 .. NumBatches]]

(* SaveOnce and the resets leave at most one job to be run.                *)
OneActive ==
    \A i, j \in Jobs :
        jobs[i].status \in Active /\ jobs[j].status \in Active => i = j

(* A worker holds a job that is in progress.                               *)
HeldInProgress ==
    \A n \in Nodes :
        /\ pc[n] \in {"claim", "mark"} \cup Holding \cup Ending => job[n] \in Jobs
        /\ pc[n] \in Holding => jobs[job[n]].status = "in_progress"

(* A job whose batches are all done and that nobody can hold again.        *)
Over(j) ==
    /\ performed[j] = Batches
    /\ jobs[j].status \in {"in_progress", "success", "error"}
    /\ \A n \in Nodes : pc[n] \in Holding => job[n] # j

OverInv ==
    /\ key => \E j \in Jobs : Over(j)
    /\ \A n \in Nodes : pc[n] \in Ending \cup {"mark"} => Over(job[n])

Upto(d) == 1 .. d

(* What is saved has been done.                                            *)
SavedDone ==
    \A j \in Jobs :
        /\ jobs[j].status \in Active => Upto(jobs[j].data) \subseteq performed[j]
        /\ jobs[j].status = "none" => performed[j] = {}

(* What a worker has in memory has been done.                              *)
HeldDone ==
    \A n \in Nodes :
        /\ pc[n] \in Holding => Upto(data[n]) \subseteq performed[job[n]]
        /\ pc[n] \in {"finish", "finishFailed"} => data[n] = NumBatches

(* What is done is what is saved, or about to be.                          *)
PendingExact ==
    \A j \in Jobs : jobs[j].status = "pending" => performed[j] = Upto(jobs[j].data)

HeldExact ==
    \A n \in Nodes :
        /\ pc[n] \in {"run", "save"} => performed[job[n]] = Upto(data[n])
        /\ pc[n] = "run" => jobs[job[n]].data = data[n]

DoneIsSaved == used.faults = 0 => PendingExact /\ HeldExact

(* The inductive invariant.                                                *)
MigrationInv ==
    /\ TypeOK
    /\ OneActive
    /\ HeldInProgress
    /\ OneNodeRuns
    /\ OverInv
    /\ SavedDone
    /\ HeldDone
    /\ DoneIsSaved

(* The id of a new job is one no job has.                                  *)
LEMMA NewIdIsNew ==
  ASSUME \E j \in Jobs : jobs[j].status = "none"
  PROVE  NewId \in Jobs /\ jobs[NewId].status = "none"
BY DEF NewId

(* What is counted stays a count, and a fault is one.                      *)
LEMMA Counted ==
  ASSUME TypeOK
  PROVE  /\ Fault => /\ used' \in [faults : Nat, crashes : Nat, stops : Nat, divergences : Nat]
                     /\ used'.faults # 0
         /\ \A what \in {"crashes", "stops", "divergences"} :
               Use(what) => /\ used' \in [faults : Nat, crashes : Nat, stops : Nat, divergences : Nat]
                            /\ used'.faults = used.faults
<1>1. ASSUME Fault
      PROVE  /\ used' \in [faults : Nat, crashes : Nat, stops : Nat, divergences : Nat]
             /\ used'.faults # 0
  BY <1>1 DEF TypeOK, Fault, Use
<1>2. ASSUME Use("crashes")
      PROVE  /\ used' \in [faults : Nat, crashes : Nat, stops : Nat, divergences : Nat]
             /\ used'.faults = used.faults
  BY <1>2 DEF TypeOK, Use
<1>3. ASSUME Use("stops")
      PROVE  /\ used' \in [faults : Nat, crashes : Nat, stops : Nat, divergences : Nat]
             /\ used'.faults = used.faults
  BY <1>3 DEF TypeOK, Use
<1>4. ASSUME Use("divergences")
      PROVE  /\ used' \in [faults : Nat, crashes : Nat, stops : Nat, divergences : Nat]
             /\ used'.faults = used.faults
  BY <1>4 DEF TypeOK, Use
<1> QED BY <1>1, <1>2, <1>3, <1>4

(* A batch that is not the last has one after it.                          *)
LEMMA NextBatch ==
  ASSUME NEW d \in 0 .. NumBatches, d # NumBatches
  PROVE  /\ d + 1 \in 1 .. NumBatches
         /\ d + 1 \in 0 .. NumBatches
BY BatchAssumption

LEMMA UptoNext ==
  /\ Upto(0) = {}
  /\ \A d \in 0 .. NumBatches : Upto(d + 1) = Upto(d) \cup {d + 1}
<1>1. \A d \in Nat : 1 .. d + 1 = (1 .. d) \cup {d + 1}
  OBVIOUS
<1> QED BY <1>1, BatchAssumption DEF Upto

(* A row is a row, and so is what the statements of the store leave.       *)
LEMMA RowType ==
  ASSUME TypeOK, NEW n \in Nodes, NEW status \in Statuses
  PROVE  Row(n, status) \in [status : Statuses, data : 0 .. NumBatches]
BY DEF TypeOK, Row

LEMMA TableType ==
  ASSUME TypeOK, NEW j \in Jobs
  PROVE  /\ \A status \in Statuses : UpdateStatus(j, status) \in Table
         /\ \A row \in [status : Statuses, data : 0 .. NumBatches], current \in Statuses :
               UpdateOptimistically(j, row, current) \in Table
         /\ SaveOnce(j) \in Table
<1>1. [status |-> "pending", data |-> 0] \in [status : Statuses, data : 0 .. NumBatches]
  BY BatchAssumption DEF Statuses
<1>2. \A status \in Statuses : UpdateStatus(j, status) \in Table
  BY DEF TypeOK, Table, UpdateStatus
<1>3. \A row \in [status : Statuses, data : 0 .. NumBatches], current \in Statuses :
          UpdateOptimistically(j, row, current) \in Table
  BY DEF TypeOK, Table, UpdateOptimistically
<1>4. SaveOnce(j) \in Table
  BY <1>1 DEF TypeOK, Table, SaveOnce
<1> QED BY <1>2, <1>3, <1>4

(* A claim changes the status of its job, if that is still pending.        *)
LEMMA ClaimShape ==
  ASSUME TypeOK, NEW n \in Nodes, job[n] \in Jobs, ClaimJob(n)
  PROVE  /\ \A j \in Jobs : jobs'[j].data = jobs[j].data
         /\ \A j \in Jobs : \/ jobs'[j].status = jobs[j].status
                            \/ /\ jobs[j].status = "pending"
                               /\ jobs'[j].status = "in_progress"
<1>1. CASE jobs' = jobs
  BY <1>1
<1>2. CASE /\ jobs[job[n]].status = "pending"
           /\ jobs' = [jobs EXCEPT ![job[n]] = [jobs[job[n]] EXCEPT !.status = "in_progress"]]
  <2>1. jobs[job[n]] \in [status : Statuses, data : 0 .. NumBatches]
    BY DEF TypeOK
  <2>2. /\ jobs'[job[n]].data = jobs[job[n]].data
        /\ jobs'[job[n]].status = "in_progress"
        /\ \A j \in Jobs : j # job[n] => jobs'[j] = jobs[j]
    BY <1>2, <2>1 DEF TypeOK
  <2> QED
    BY <1>2, <2>2
<1>3. jobs' = jobs \/ (/\ jobs[job[n]].status = "pending"
                      /\ jobs' = [jobs EXCEPT ![job[n]] =
                                     [jobs[job[n]] EXCEPT !.status = "in_progress"]])
  BY DEF ClaimJob, UpdateOptimistically
<1> QED
  BY <1>1, <1>2, <1>3

(* What a write leaves.                                                    *)
LEMMA WriteType ==
  ASSUME TypeOK, NEW n \in Nodes, NEW table \in Table,
         NEW next \in Places, NEW failed \in Places, Write(n, table, next, failed)
  PROVE  /\ jobs' \in Table
         /\ pc' \in [Nodes -> Places]
         /\ used' \in [faults : Nat, crashes : Nat, stops : Nat, divergences : Nat]
<1>1. CASE jobs' = table /\ Goto(n, next) /\ UNCHANGED used
  BY <1>1 DEF TypeOK, Goto
<1>2. CASE Fault /\ jobs' \in {jobs, table} /\ Goto(n, failed)
  BY <1>2, Counted DEF TypeOK, Goto, Table
<1> QED BY <1>1, <1>2 DEF Write

(* A worker that lets go of its job has none.                              *)
LEMMA ForgetType ==
  ASSUME TypeOK, NEW n \in Nodes, Forget(n)
  PROVE  /\ job' \in [Nodes -> Jobs \cup {None}]
         /\ data' \in [Nodes -> 0 .. NumBatches]
         /\ sent' \in [Nodes -> 0 .. NumBatches]
BY BatchAssumption DEF TypeOK, Forget

(* The type invariant.                                                     *)
LEMMA TypeStep == MigrationInv /\ [Next]_vars => TypeOK'
<1> SUFFICES ASSUME MigrationInv, [Next]_vars PROVE TypeOK'
  OBVIOUS
<1> USE NoneAssumption, BatchAssumption, BoundAssumption
    DEF MigrationInv, TypeOK, Statuses, Active, Holding, Ending, Up, Places, Goto,
        vars, tables, worker, HeldInProgress, Batches
<1>1. ASSUME NEW n \in Nodes, Boot(n) PROVE TypeOK'
  BY <1>1, Counted DEF Boot
<1>2. ASSUME NEW n \in Nodes, CreateJobOnce(n) PROVE TypeOK'
  <2>1. CASE \E j \in Jobs : jobs[j].status = "none"
    <3>1. SaveOnce(NewId) \in Table
      BY <2>1, NewIdIsNew, TableType
    <3>2. /\ jobs' \in Table
          /\ pc' \in [Nodes -> Places]
          /\ used' \in [faults : Nat, crashes : Nat, stops : Nat, divergences : Nat]
      BY <3>1, <1>2, WriteType DEF CreateJobOnce
    <3> QED
      BY <3>2, <1>2 DEF CreateJobOnce, Table
  <2>2. CASE \A j \in Jobs : jobs[j].status # "none"
    <3>1. SaveOnce(NewId) = jobs /\ jobs \in Table
      BY <2>2, <1>2 DEF CreateJobOnce, SaveOnce, Table
    <3>2. /\ jobs' \in Table
          /\ pc' \in [Nodes -> Places]
          /\ used' \in [faults : Nat, crashes : Nat, stops : Nat, divergences : Nat]
      BY <3>1, <1>2, WriteType DEF CreateJobOnce
    <3> QED
      BY <3>2, <1>2 DEF CreateJobOnce, Table
  <2> QED
    BY <2>1, <2>2
<1>3. ASSUME NEW n \in Nodes, NEW j \in Jobs, PollAndNotify(n, j) PROVE TypeOK'
  BY <1>3 DEF PollAndNotify
<1>4. ASSUME NEW n \in Nodes, ClaimJob(n) PROVE TypeOK'
  <2>1. jobs' \in Table
    <3>1. [jobs[job[n]] EXCEPT !.status = "in_progress"] \in [status : Statuses, data : 0 .. NumBatches]
      BY <1>4 DEF ClaimJob
    <3>2. UpdateOptimistically(job[n], [jobs[job[n]] EXCEPT !.status = "in_progress"], "pending") \in Table
      BY <3>1, <1>4, TableType DEF ClaimJob
    <3> QED
      BY <3>2, <1>4 DEF ClaimJob, Table
  <2>2. used' \in [faults : Nat, crashes : Nat, stops : Nat, divergences : Nat]
    BY <1>4, Counted DEF ClaimJob
  <2>3. pc' \in [Nodes -> Places]
    <3>1. Goto(n, "run") \/ Goto(n, "idle")
      BY <1>4 DEF ClaimJob
    <3> QED
      BY <3>1
  <2>4. /\ job' \in [Nodes -> Jobs \cup {None}]
        /\ data' \in [Nodes -> 0 .. NumBatches]
        /\ sent' \in [Nodes -> 0 .. NumBatches]
    BY <1>4, ForgetType DEF ClaimJob, Claimed
  <2> QED
    BY <2>1, <2>2, <2>3, <2>4, <1>4 DEF ClaimJob, Table
<1>5. ASSUME NEW n \in Nodes, DoBatch(n) PROVE TypeOK'
  <2>1. pc' \in [Nodes -> Places]
    <3>1. \E place \in Places : Goto(n, place)
      <4> HIDE DEF TypeOK, MigrationInv, HeldInProgress, Goto
      <4> QED BY <1>5 DEF DoBatch
    <3> QED
      BY <3>1
  <2>2. data' \in [Nodes -> 0 .. NumBatches] /\ performed' \in [Jobs -> SUBSET Batches]
    <3>1. CASE ~Done(n) /\ data' = [data EXCEPT ![n] = @ + 1]
               /\ performed' = [performed EXCEPT ![job[n]] = @ \cup {data[n] + 1}]
      <4>1. data[n] + 1 \in 1 .. NumBatches
        BY <3>1, NextBatch DEF Done
      <4>2. data' \in [Nodes -> 0 .. NumBatches]
        BY <4>1, <3>1
      <4>3. job[n] \in Jobs
        BY <1>5 DEF DoBatch
      <4>4. performed[job[n]] \cup {data[n] + 1} \in SUBSET Batches
        BY <4>1, <4>3
      <4> QED
        BY <4>2, <4>3, <4>4, <3>1
    <3>2. CASE UNCHANGED <<data, performed>>
      BY <3>2
    <3> QED
      BY <3>1, <3>2, <1>5 DEF DoBatch
  <2>3. used' \in [faults : Nat, crashes : Nat, stops : Nat, divergences : Nat]
    BY <1>5, Counted DEF DoBatch
  <2> QED
    BY <2>1, <2>2, <2>3, <1>5 DEF DoBatch
<1>6. ASSUME NEW n \in Nodes, SetJobProgress(n) PROVE TypeOK'
  <2>1. Row(n, "in_progress") \in [status : Statuses, data : 0 .. NumBatches]
    BY RowType
  <2>2. UpdateOptimistically(job[n], Row(n, "in_progress"), "in_progress") \in Table
    BY <2>1, <1>6, TableType DEF SetJobProgress
  <2>3. /\ jobs' \in Table
        /\ pc' \in [Nodes -> Places]
        /\ used' \in [faults : Nat, crashes : Nat, stops : Nat, divergences : Nat]
    BY <2>2, <1>6, WriteType DEF SetJobProgress
  <2> QED
    BY <2>3, <1>6 DEF SetJobProgress, Table
<1>7. ASSUME NEW n \in Nodes, resetJob(n) PROVE TypeOK'
  <2>1. [status |-> "pending", data |-> 0] \in [status : Statuses, data : 0 .. NumBatches]
    OBVIOUS
  <2>2. UpdateOptimistically(job[n], [status |-> "pending", data |-> 0], "in_progress") \in Table
    BY <2>1, <1>7, TableType DEF resetJob
  <2>3. /\ jobs' \in Table
        /\ pc' \in [Nodes -> Places]
        /\ used' \in [faults : Nat, crashes : Nat, stops : Nat, divergences : Nat]
    BY <2>2, <1>7, WriteType DEF resetJob
  <2>4. performed' \in [Jobs -> SUBSET Batches]
    BY <1>7 DEF resetJob
  <2> QED
    BY <2>3, <2>4, <1>7, ForgetType DEF resetJob, Table
<1>8. ASSUME NEW n \in Nodes, Fail(n) PROVE TypeOK'
  <2>1. Row(n, "error") \in [status : Statuses, data : 0 .. NumBatches]
    BY RowType
  <2>2. SetJobError(n) \in Table
    BY <2>1, <1>8, TableType DEF Fail, SetJobError
  <2>3. /\ jobs' \in Table
        /\ pc' \in [Nodes -> Places]
        /\ used' \in [faults : Nat, crashes : Nat, stops : Nat, divergences : Nat]
    BY <2>2, <1>8, WriteType DEF Fail
  <2> QED
    BY <2>3, <1>8, ForgetType DEF Fail, Table
<1>9. ASSUME NEW n \in Nodes, FinishProgress(n) PROVE TypeOK'
  <2>1. Row(n, "in_progress") \in [status : Statuses, data : 0 .. NumBatches]
    BY RowType
  <2>2. UpdateOptimistically(job[n], Row(n, "in_progress"), "in_progress") \in Table
    BY <2>1, <1>9, TableType DEF FinishProgress
  <2>3. /\ jobs' \in Table
        /\ pc' \in [Nodes -> Places]
        /\ used' \in [faults : Nat, crashes : Nat, stops : Nat, divergences : Nat]
    BY <2>2, <1>9, WriteType DEF FinishProgress
  <2> QED
    BY <2>3, <1>9 DEF FinishProgress, Table
<1>10. ASSUME NEW n \in Nodes, FinishFailed(n) PROVE TypeOK'
  <2>1. Row(n, "error") \in [status : Statuses, data : 0 .. NumBatches]
    BY RowType
  <2>2. SetJobError(n) \in Table
    BY <2>1, <1>10, TableType DEF FinishFailed, SetJobError
  <2>3. /\ jobs' \in Table
        /\ pc' \in [Nodes -> Places]
        /\ used' \in [faults : Nat, crashes : Nat, stops : Nat, divergences : Nat]
    BY <2>2, <1>10, WriteType DEF FinishFailed
  <2> QED
    BY <2>3, <1>10 DEF FinishFailed, Table
<1>11. ASSUME NEW n \in Nodes, SetJobSuccess(n) PROVE TypeOK'
  <2>1. UpdateStatus(job[n], "success") \in Table
    BY <1>11, TableType DEF SetJobSuccess
  <2>2. /\ jobs' \in Table
        /\ pc' \in [Nodes -> Places]
        /\ used' \in [faults : Nat, crashes : Nat, stops : Nat, divergences : Nat]
    BY <2>1, <1>11, WriteType DEF SetJobSuccess
  <2> QED
    BY <2>2, <1>11 DEF SetJobSuccess, Table
<1>12. ASSUME NEW n \in Nodes, markAsComplete(n) PROVE TypeOK'
  <2>1. used' \in [faults : Nat, crashes : Nat, stops : Nat, divergences : Nat]
    BY <1>12, Counted DEF markAsComplete
  <2>2. key' \in BOOLEAN
    BY <1>12 DEF markAsComplete
  <2>3. pc' \in [Nodes -> Places]
    BY <1>12 DEF markAsComplete
  <2> QED
    BY <2>1, <2>2, <2>3, <1>12, ForgetType DEF markAsComplete
<1>13. ASSUME NEW n \in Nodes, SetJobPending(n) PROVE TypeOK'
  <2>1. UpdateStatus(job[n], "pending") \in Table
    BY <1>13, TableType DEF SetJobPending
  <2>2. /\ jobs' \in Table
        /\ pc' \in [Nodes -> Places]
        /\ used' \in [faults : Nat, crashes : Nat, stops : Nat, divergences : Nat]
    BY <2>1, <1>13, WriteType DEF SetJobPending
  <2> QED
    BY <2>2, <1>13, ForgetType DEF SetJobPending, Table
<1>14. ASSUME NEW n \in Nodes, Stop(n) PROVE TypeOK'
  BY <1>14, Counted DEF Stop
<1>15. ASSUME NEW n \in Nodes, Stopped(n) PROVE TypeOK'
  BY <1>15 DEF Stopped
<1>16. ASSUME NEW n \in Nodes, Crash(n) PROVE TypeOK'
  <2>1. jobs' \in Table
    <3>1. [status |-> "error", data |-> sent[n]] \in [status : Statuses, data : 0 .. NumBatches]
      OBVIOUS
    <3>2. CASE pc[n] = "run"
      <4>1. UpdateOptimistically(job[n], [status |-> "error", data |-> sent[n]], "in_progress") \in Table
        BY <3>1, <3>2, TableType
      <4> QED
        BY <4>1, <1>16 DEF Crash, Table
    <3> QED
      BY <3>2, <1>16 DEF Crash, Table
  <2>2. used' \in [faults : Nat, crashes : Nat, stops : Nat, divergences : Nat]
    BY <1>16, Counted DEF Crash
  <2>3. pc' \in [Nodes -> Places] /\ stopping' \subseteq Nodes
    BY <1>16 DEF Crash
  <2> QED
    BY <2>1, <2>2, <2>3, <1>16, ForgetType DEF Crash, Table
<1>17. ASSUME Replicate PROVE TypeOK'
  BY <1>17 DEF Replicate
<1>18. ASSUME Diverge PROVE TypeOK'
  BY <1>18, Counted DEF Diverge
<1>19. ASSUME Converge PROVE TypeOK'
  BY <1>19 DEF Converge
<1>20. ASSUME UNCHANGED vars PROVE TypeOK'
  BY <1>20
<1>21. ASSUME NEW n \in Nodes, SaveOnceLoses(n) PROVE TypeOK'
  BY <1>21 DEF SaveOnceLoses
<1> QED
  BY <1>1, <1>2, <1>3, <1>4, <1>5, <1>6, <1>7, <1>8, <1>9, <1>10, <1>11,
     <1>12, <1>13, <1>14, <1>15, <1>16, <1>17, <1>18, <1>19, <1>20, <1>21 DEF Next, Work

(* A job becomes active only when none is: created by SaveOnce, or given   *)
(* back by the worker that holds the only one.                             *)
LEMMA OneActiveStep == MigrationInv /\ [Next]_vars => OneActive'
<1> SUFFICES ASSUME MigrationInv, [Next]_vars PROVE OneActive'
  OBVIOUS
<1> USE NoneAssumption, BatchAssumption, BoundAssumption
    DEF MigrationInv, TypeOK, Statuses, Active, Holding, Ending, Up, Places, Goto,
        vars, tables, worker, OneActive, HeldInProgress
<1>1. ASSUME NEW n \in Nodes, Boot(n) PROVE OneActive'
  BY <1>1 DEF Boot
<1>2. ASSUME NEW n \in Nodes, CreateJobOnce(n) PROVE OneActive'
  BY <1>2, NewIdIsNew DEF CreateJobOnce, Write, SaveOnce
<1>3. ASSUME NEW n \in Nodes, NEW j \in Jobs, PollAndNotify(n, j) PROVE OneActive'
  BY <1>3 DEF PollAndNotify
<1>4. ASSUME NEW n \in Nodes, ClaimJob(n) PROVE OneActive'
  BY <1>4, SMTT(20) DEF ClaimJob, UpdateOptimistically, Claimed, Forget
<1>5. ASSUME NEW n \in Nodes, DoBatch(n) PROVE OneActive'
  BY <1>5 DEF DoBatch, Done
<1>6. ASSUME NEW n \in Nodes, SetJobProgress(n) PROVE OneActive'
  BY <1>6 DEF SetJobProgress, Write, UpdateOptimistically, Row
<1>7. ASSUME NEW n \in Nodes, resetJob(n) PROVE OneActive'
  BY <1>7 DEF resetJob, Write, UpdateOptimistically, Forget
<1>8. ASSUME NEW n \in Nodes, Fail(n) PROVE OneActive'
  BY <1>8, SMTT(20) DEF Fail, SetJobError, Write, UpdateOptimistically, Row, Forget
<1>9. ASSUME NEW n \in Nodes, FinishProgress(n) PROVE OneActive'
  BY <1>9 DEF FinishProgress, Write, UpdateOptimistically, Row
<1>10. ASSUME NEW n \in Nodes, FinishFailed(n) PROVE OneActive'
  <2>1. \A j \in Jobs : jobs'[j] = jobs[j] \/ jobs'[j].status = "error"
    BY <1>10 DEF FinishFailed, SetJobError, Write, UpdateOptimistically, Row
  <2> QED
    BY <2>1
<1>11. ASSUME NEW n \in Nodes, SetJobSuccess(n) PROVE OneActive'
  BY SMTT(30), <1>11 DEF SetJobSuccess, Write, UpdateStatus
<1>12. ASSUME NEW n \in Nodes, markAsComplete(n) PROVE OneActive'
  BY <1>12 DEF markAsComplete, Forget
<1>13. ASSUME NEW n \in Nodes, SetJobPending(n) PROVE OneActive'
  BY <1>13 DEF SetJobPending, Write, UpdateStatus, Forget
<1>14. ASSUME NEW n \in Nodes, Stop(n) PROVE OneActive'
  BY <1>14 DEF Stop
<1>15. ASSUME NEW n \in Nodes, Stopped(n) PROVE OneActive'
  BY <1>15 DEF Stopped
<1>16. ASSUME NEW n \in Nodes, Crash(n) PROVE OneActive'
  BY <1>16 DEF Crash, UpdateOptimistically, Forget
<1>17. ASSUME Replicate PROVE OneActive'
  BY <1>17 DEF Replicate
<1>18. ASSUME Diverge PROVE OneActive'
  BY <1>18 DEF Diverge
<1>19. ASSUME Converge PROVE OneActive'
  BY <1>19 DEF Converge
<1>20. ASSUME UNCHANGED vars PROVE OneActive'
  BY <1>20
<1>21. ASSUME NEW n \in Nodes, SaveOnceLoses(n) PROVE OneActive'
  BY <1>21 DEF SaveOnceLoses
<1> QED
  BY <1>1, <1>2, <1>3, <1>4, <1>5, <1>6, <1>7, <1>8, <1>9, <1>10, <1>11,
     <1>12, <1>13, <1>14, <1>15, <1>16, <1>17, <1>18, <1>19, <1>20, <1>21 DEF Next, Work

(* The row of a job that is held is written by its holder alone.           *)
LEMMA HeldStep == MigrationInv /\ [Next]_vars => HeldInProgress'
<1> SUFFICES ASSUME MigrationInv, [Next]_vars PROVE HeldInProgress'
  OBVIOUS
<1> USE NoneAssumption, BatchAssumption, BoundAssumption
    DEF MigrationInv, TypeOK, Statuses, Active, Holding, Ending, Up, Places, Goto,
        vars, tables, worker, HeldInProgress, OneNodeRuns
<1>1. ASSUME NEW n \in Nodes, Boot(n) PROVE HeldInProgress'
  BY <1>1 DEF Boot
<1>2. ASSUME NEW n \in Nodes, CreateJobOnce(n) PROVE HeldInProgress'
  BY <1>2, NewIdIsNew DEF CreateJobOnce, Write, SaveOnce
<1>3. ASSUME NEW n \in Nodes, NEW j \in Jobs, PollAndNotify(n, j) PROVE HeldInProgress'
  BY <1>3 DEF PollAndNotify
<1>4. ASSUME NEW n \in Nodes, ClaimJob(n) PROVE HeldInProgress'
  <2>1. \A j \in Jobs : jobs[j].status = "in_progress" => jobs'[j].status = "in_progress"
    BY <1>4 DEF ClaimJob, UpdateOptimistically
  <2>2. pc'[n] = "run" => jobs'[job[n]].status = "in_progress" /\ job' = job
    BY <1>4 DEF ClaimJob, UpdateOptimistically
  <2>3. ASSUME NEW m \in Nodes, m # n
        PROVE  pc'[m] = pc[m] /\ job'[m] = job[m]
    BY <1>4, <2>3 DEF ClaimJob, Forget
  <2>4. pc'[n] \in {"run", "idle"}
    BY <1>4 DEF ClaimJob
  <2> QED
    BY <2>1, <2>2, <2>3, <2>4, <1>4 DEF ClaimJob
<1>5. ASSUME NEW n \in Nodes, DoBatch(n) PROVE HeldInProgress'
  BY <1>5 DEF DoBatch, Done
<1>6. ASSUME NEW n \in Nodes, SetJobProgress(n) PROVE HeldInProgress'
  BY <1>6 DEF SetJobProgress, Write, UpdateOptimistically, Row
<1>7. ASSUME NEW n \in Nodes, resetJob(n) PROVE HeldInProgress'
  BY <1>7 DEF resetJob, Write, UpdateOptimistically, Forget
<1>8. ASSUME NEW n \in Nodes, Fail(n) PROVE HeldInProgress'
  BY <1>8 DEF Fail, SetJobError, Write, UpdateOptimistically, Row, Forget
<1>9. ASSUME NEW n \in Nodes, FinishProgress(n) PROVE HeldInProgress'
  BY <1>9 DEF FinishProgress, Write, UpdateOptimistically, Row
<1>10. ASSUME NEW n \in Nodes, FinishFailed(n) PROVE HeldInProgress'
  <2>1. \A m \in Nodes : m # n /\ pc[m] \in Holding => job[m] # job[n]
    BY <1>10 DEF FinishFailed, OverInv, Over
  <2>2. \A j \in Jobs : j # job[n] => jobs'[j] = jobs[j]
    BY <1>10 DEF FinishFailed, SetJobError, Write, UpdateOptimistically
  <2>3. /\ \A m \in Nodes : m # n => pc'[m] = pc[m]
        /\ pc'[n] \in {"succeed", "mark"}
        /\ job' = job
    BY <1>10 DEF FinishFailed, Write
  <2>4. pc[n] \in {"finishFailed", "succeedFailed"}
    BY <1>10 DEF FinishFailed
  <2> QED
    BY <2>1, <2>2, <2>3, <2>4
<1>11. ASSUME NEW n \in Nodes, SetJobSuccess(n) PROVE HeldInProgress'
  <2>1. \A m \in Nodes : m # n /\ pc[m] \in Holding => job[m] # job[n]
    BY <1>11 DEF SetJobSuccess, OverInv, Over
  <2>2. \A j \in Jobs : j # job[n] => jobs'[j] = jobs[j]
    BY <1>11 DEF SetJobSuccess, Write, UpdateStatus
  <2>3. /\ \A m \in Nodes : m # n => pc'[m] = pc[m]
        /\ pc'[n] \in {"mark", "succeedFailed"}
        /\ job' = job
    BY <1>11 DEF SetJobSuccess, Write
  <2>4. pc[n] = "succeed"
    BY <1>11 DEF SetJobSuccess
  <2> QED
    BY <2>1, <2>2, <2>3, <2>4
<1>12. ASSUME NEW n \in Nodes, markAsComplete(n) PROVE HeldInProgress'
  BY <1>12 DEF markAsComplete, Forget
<1>13. ASSUME NEW n \in Nodes, SetJobPending(n) PROVE HeldInProgress'
  BY <1>13 DEF SetJobPending, Write, UpdateStatus, Forget
<1>14. ASSUME NEW n \in Nodes, Stop(n) PROVE HeldInProgress'
  BY <1>14 DEF Stop
<1>15. ASSUME NEW n \in Nodes, Stopped(n) PROVE HeldInProgress'
  BY <1>15 DEF Stopped
<1>16. ASSUME NEW n \in Nodes, Crash(n) PROVE HeldInProgress'
  BY <1>16 DEF Crash, UpdateOptimistically, Forget
<1>17. ASSUME Replicate PROVE HeldInProgress'
  BY <1>17 DEF Replicate
<1>18. ASSUME Diverge PROVE HeldInProgress'
  BY <1>18 DEF Diverge
<1>19. ASSUME Converge PROVE HeldInProgress'
  BY <1>19 DEF Converge
<1>20. ASSUME UNCHANGED vars PROVE HeldInProgress'
  BY <1>20
<1>21. ASSUME NEW n \in Nodes, SaveOnceLoses(n) PROVE HeldInProgress'
  BY <1>21 DEF SaveOnceLoses
<1> QED
  BY <1>1, <1>2, <1>3, <1>4, <1>5, <1>6, <1>7, <1>8, <1>9, <1>10, <1>11,
     <1>12, <1>13, <1>14, <1>15, <1>16, <1>17, <1>18, <1>19, <1>20, <1>21 DEF Next, Work

(* A claim succeeds only when the one active job waits, and then no node   *)
(* holds one.                                                              *)
LEMMA OneNodeRunsStep == MigrationInv /\ [Next]_vars => OneNodeRuns'
<1> SUFFICES ASSUME MigrationInv, [Next]_vars PROVE OneNodeRuns'
  OBVIOUS
<1> USE NoneAssumption, BatchAssumption, BoundAssumption
    DEF MigrationInv, TypeOK, Statuses, Active, Holding, Ending, Up, Places, Goto,
        vars, tables, worker, HeldInProgress, OneNodeRuns, OneActive
<1>1. ASSUME NEW n \in Nodes, Boot(n) PROVE OneNodeRuns'
  BY <1>1 DEF Boot
<1>2. ASSUME NEW n \in Nodes, CreateJobOnce(n) PROVE OneNodeRuns'
  BY <1>2, NewIdIsNew DEF CreateJobOnce, Write, SaveOnce
<1>3. ASSUME NEW n \in Nodes, NEW j \in Jobs, PollAndNotify(n, j) PROVE OneNodeRuns'
  BY <1>3 DEF PollAndNotify
<1>4. ASSUME NEW n \in Nodes, ClaimJob(n) PROVE OneNodeRuns'
  BY <1>4 DEF ClaimJob, UpdateOptimistically, Claimed, Forget
<1>5. ASSUME NEW n \in Nodes, DoBatch(n) PROVE OneNodeRuns'
  BY <1>5 DEF DoBatch, Done
<1>6. ASSUME NEW n \in Nodes, SetJobProgress(n) PROVE OneNodeRuns'
  BY <1>6 DEF SetJobProgress, Write, UpdateOptimistically, Row
<1>7. ASSUME NEW n \in Nodes, resetJob(n) PROVE OneNodeRuns'
  BY <1>7 DEF resetJob, Write, UpdateOptimistically, Forget
<1>8. ASSUME NEW n \in Nodes, Fail(n) PROVE OneNodeRuns'
  BY <1>8 DEF Fail, SetJobError, Write, UpdateOptimistically, Row, Forget
<1>9. ASSUME NEW n \in Nodes, FinishProgress(n) PROVE OneNodeRuns'
  BY <1>9 DEF FinishProgress, Write, UpdateOptimistically, Row
<1>10. ASSUME NEW n \in Nodes, FinishFailed(n) PROVE OneNodeRuns'
  BY <1>10 DEF FinishFailed, SetJobError, Write, UpdateOptimistically, Row
<1>11. ASSUME NEW n \in Nodes, SetJobSuccess(n) PROVE OneNodeRuns'
  BY <1>11 DEF SetJobSuccess, Write, UpdateStatus
<1>12. ASSUME NEW n \in Nodes, markAsComplete(n) PROVE OneNodeRuns'
  BY <1>12 DEF markAsComplete, Forget
<1>13. ASSUME NEW n \in Nodes, SetJobPending(n) PROVE OneNodeRuns'
  BY <1>13 DEF SetJobPending, Write, UpdateStatus, Forget
<1>14. ASSUME NEW n \in Nodes, Stop(n) PROVE OneNodeRuns'
  BY <1>14 DEF Stop
<1>15. ASSUME NEW n \in Nodes, Stopped(n) PROVE OneNodeRuns'
  BY <1>15 DEF Stopped
<1>16. ASSUME NEW n \in Nodes, Crash(n) PROVE OneNodeRuns'
  BY <1>16 DEF Crash, UpdateOptimistically, Forget
<1>17. ASSUME Replicate PROVE OneNodeRuns'
  BY <1>17 DEF Replicate
<1>18. ASSUME Diverge PROVE OneNodeRuns'
  BY <1>18 DEF Diverge
<1>19. ASSUME Converge PROVE OneNodeRuns'
  BY <1>19 DEF Converge
<1>20. ASSUME UNCHANGED vars PROVE OneNodeRuns'
  BY <1>20
<1>21. ASSUME NEW n \in Nodes, SaveOnceLoses(n) PROVE OneNodeRuns'
  BY <1>21 DEF SaveOnceLoses
<1> QED
  BY <1>1, <1>2, <1>3, <1>4, <1>5, <1>6, <1>7, <1>8, <1>9, <1>10, <1>11,
     <1>12, <1>13, <1>14, <1>15, <1>16, <1>17, <1>18, <1>19, <1>20, <1>21 DEF Next, Work

(* A job that is over stays over: no claim finds it pending.               *)
LEMMA OverStays ==
  ASSUME MigrationInv, [Next]_vars, NEW k \in Jobs, Over(k)
  PROVE  Over(k)'
<1> USE NoneAssumption, BatchAssumption, BoundAssumption
    DEF MigrationInv, TypeOK, Statuses, Active, Holding, Ending, Up, Places, Goto,
        vars, tables, worker, HeldInProgress, Over
<1>1. ASSUME NEW n \in Nodes, Boot(n) PROVE Over(k)'
  BY <1>1 DEF Boot
<1>2. ASSUME NEW n \in Nodes, CreateJobOnce(n) PROVE Over(k)'
  BY <1>2, NewIdIsNew, SMTT(20) DEF CreateJobOnce, Write, SaveOnce
<1>3. ASSUME NEW n \in Nodes, NEW j \in Jobs, PollAndNotify(n, j) PROVE Over(k)'
  BY <1>3 DEF PollAndNotify
<1>4. ASSUME NEW n \in Nodes, ClaimJob(n) PROVE Over(k)'
  BY SMTT(30), <1>4 DEF ClaimJob, UpdateOptimistically, Claimed, Forget
<1>5. ASSUME NEW n \in Nodes, DoBatch(n) PROVE Over(k)'
  BY <1>5 DEF DoBatch, Done
<1>6. ASSUME NEW n \in Nodes, SetJobProgress(n) PROVE Over(k)'
  BY <1>6 DEF SetJobProgress, Write, UpdateOptimistically, Row
<1>7. ASSUME NEW n \in Nodes, resetJob(n) PROVE Over(k)'
  BY <1>7 DEF resetJob, Write, UpdateOptimistically, Forget
<1>8. ASSUME NEW n \in Nodes, Fail(n) PROVE Over(k)'
  BY <1>8 DEF Fail, SetJobError, Write, UpdateOptimistically, Row, Forget
<1>9. ASSUME NEW n \in Nodes, FinishProgress(n) PROVE Over(k)'
  BY <1>9 DEF FinishProgress, Write, UpdateOptimistically, Row
<1>10. ASSUME NEW n \in Nodes, FinishFailed(n) PROVE Over(k)'
  BY <1>10 DEF FinishFailed, SetJobError, Write, UpdateOptimistically, Row
<1>11. ASSUME NEW n \in Nodes, SetJobSuccess(n) PROVE Over(k)'
  BY <1>11 DEF SetJobSuccess, Write, UpdateStatus
<1>12. ASSUME NEW n \in Nodes, markAsComplete(n) PROVE Over(k)'
  BY <1>12 DEF markAsComplete, Forget
<1>13. ASSUME NEW n \in Nodes, SetJobPending(n) PROVE Over(k)'
  BY <1>13 DEF SetJobPending, Write, UpdateStatus, Forget
<1>14. ASSUME NEW n \in Nodes, Stop(n) PROVE Over(k)'
  BY <1>14 DEF Stop
<1>15. ASSUME NEW n \in Nodes, Stopped(n) PROVE Over(k)'
  BY <1>15 DEF Stopped
<1>16. ASSUME NEW n \in Nodes, Crash(n) PROVE Over(k)'
  BY <1>16 DEF Crash, UpdateOptimistically, Forget
<1>17. ASSUME Replicate PROVE Over(k)'
  BY <1>17 DEF Replicate
<1>18. ASSUME Diverge PROVE Over(k)'
  BY <1>18 DEF Diverge
<1>19. ASSUME Converge PROVE Over(k)'
  BY <1>19 DEF Converge
<1>20. ASSUME UNCHANGED vars PROVE Over(k)'
  BY <1>20
<1>21. ASSUME NEW n \in Nodes, SaveOnceLoses(n) PROVE Over(k)'
  BY <1>21 DEF SaveOnceLoses
<1> QED
  BY <1>1, <1>2, <1>3, <1>4, <1>5, <1>6, <1>7, <1>8, <1>9, <1>10, <1>11,
     <1>12, <1>13, <1>14, <1>15, <1>16, <1>17, <1>18, <1>19, <1>20, <1>21 DEF Next, Work

(* How a worker comes to the end of its job.                               *)
EndStep(n) ==
    \/ pc[n] \in Ending \cup {"mark"} /\ job'[n] = job[n]
    \/ /\ pc[n] \in {"finish", "finishFailed"}
       /\ pc'[n] = "succeed"
       /\ FinishProgress(n) \/ FinishFailed(n)

LEMMA EndSteps == MigrationInv /\ [Next]_vars => (\A e \in Nodes : pc'[e] \in Ending \cup {"mark"} => EndStep(e))
<1> SUFFICES ASSUME MigrationInv, [Next]_vars PROVE (\A e \in Nodes : pc'[e] \in Ending \cup {"mark"} => EndStep(e))
  OBVIOUS
<1> USE NoneAssumption, BatchAssumption, BoundAssumption
    DEF MigrationInv, TypeOK, Statuses, Active, Holding, Ending, Up, Places, Goto,
        vars, tables, worker, EndStep
<1>1. ASSUME NEW n \in Nodes, Boot(n) PROVE (\A e \in Nodes : pc'[e] \in Ending \cup {"mark"} => EndStep(e))
  BY <1>1 DEF Boot
<1>2. ASSUME NEW n \in Nodes, CreateJobOnce(n) PROVE (\A e \in Nodes : pc'[e] \in Ending \cup {"mark"} => EndStep(e))
  BY <1>2 DEF CreateJobOnce, Write, SaveOnce
<1>3. ASSUME NEW n \in Nodes, NEW j \in Jobs, PollAndNotify(n, j) PROVE (\A e \in Nodes : pc'[e] \in Ending \cup {"mark"} => EndStep(e))
  BY <1>3 DEF PollAndNotify
<1>4. ASSUME NEW n \in Nodes, ClaimJob(n) PROVE (\A e \in Nodes : pc'[e] \in Ending \cup {"mark"} => EndStep(e))
  BY <1>4 DEF ClaimJob, UpdateOptimistically, Claimed, Forget
<1>5. ASSUME NEW n \in Nodes, DoBatch(n) PROVE (\A e \in Nodes : pc'[e] \in Ending \cup {"mark"} => EndStep(e))
  BY <1>5 DEF DoBatch, Done
<1>6. ASSUME NEW n \in Nodes, SetJobProgress(n) PROVE (\A e \in Nodes : pc'[e] \in Ending \cup {"mark"} => EndStep(e))
  BY <1>6 DEF SetJobProgress, Write, UpdateOptimistically, Row
<1>7. ASSUME NEW n \in Nodes, resetJob(n) PROVE (\A e \in Nodes : pc'[e] \in Ending \cup {"mark"} => EndStep(e))
  BY <1>7 DEF resetJob, Write, UpdateOptimistically, Forget
<1>8. ASSUME NEW n \in Nodes, Fail(n) PROVE (\A e \in Nodes : pc'[e] \in Ending \cup {"mark"} => EndStep(e))
  BY <1>8 DEF Fail, SetJobError, Write, UpdateOptimistically, Row, Forget
<1>9. ASSUME NEW n \in Nodes, FinishProgress(n) PROVE (\A e \in Nodes : pc'[e] \in Ending \cup {"mark"} => EndStep(e))
  BY <1>9 DEF FinishProgress, Write, UpdateOptimistically, Row
<1>10. ASSUME NEW n \in Nodes, FinishFailed(n) PROVE (\A e \in Nodes : pc'[e] \in Ending \cup {"mark"} => EndStep(e))
  BY <1>10 DEF FinishFailed, SetJobError, Write, UpdateOptimistically, Row
<1>11. ASSUME NEW n \in Nodes, SetJobSuccess(n) PROVE (\A e \in Nodes : pc'[e] \in Ending \cup {"mark"} => EndStep(e))
  BY <1>11 DEF SetJobSuccess, Write, UpdateStatus
<1>12. ASSUME NEW n \in Nodes, markAsComplete(n) PROVE (\A e \in Nodes : pc'[e] \in Ending \cup {"mark"} => EndStep(e))
  BY <1>12 DEF markAsComplete, Forget
<1>13. ASSUME NEW n \in Nodes, SetJobPending(n) PROVE (\A e \in Nodes : pc'[e] \in Ending \cup {"mark"} => EndStep(e))
  BY <1>13 DEF SetJobPending, Write, UpdateStatus, Forget
<1>14. ASSUME NEW n \in Nodes, Stop(n) PROVE (\A e \in Nodes : pc'[e] \in Ending \cup {"mark"} => EndStep(e))
  BY <1>14 DEF Stop
<1>15. ASSUME NEW n \in Nodes, Stopped(n) PROVE (\A e \in Nodes : pc'[e] \in Ending \cup {"mark"} => EndStep(e))
  BY <1>15 DEF Stopped
<1>16. ASSUME NEW n \in Nodes, Crash(n) PROVE (\A e \in Nodes : pc'[e] \in Ending \cup {"mark"} => EndStep(e))
  BY <1>16 DEF Crash, UpdateOptimistically, Forget
<1>17. ASSUME Replicate PROVE (\A e \in Nodes : pc'[e] \in Ending \cup {"mark"} => EndStep(e))
  BY <1>17 DEF Replicate
<1>18. ASSUME Diverge PROVE (\A e \in Nodes : pc'[e] \in Ending \cup {"mark"} => EndStep(e))
  BY <1>18 DEF Diverge
<1>19. ASSUME Converge PROVE (\A e \in Nodes : pc'[e] \in Ending \cup {"mark"} => EndStep(e))
  BY <1>19 DEF Converge
<1>20. ASSUME UNCHANGED vars PROVE (\A e \in Nodes : pc'[e] \in Ending \cup {"mark"} => EndStep(e))
  BY <1>20
<1>21. ASSUME NEW n \in Nodes, SaveOnceLoses(n) PROVE (\A e \in Nodes : pc'[e] \in Ending \cup {"mark"} => EndStep(e))
  BY <1>21 DEF SaveOnceLoses
<1> QED
  BY <1>1, <1>2, <1>3, <1>4, <1>5, <1>6, <1>7, <1>8, <1>9, <1>10, <1>11,
     <1>12, <1>13, <1>14, <1>15, <1>16, <1>17, <1>18, <1>19, <1>20, <1>21 DEF Next, Work

(* A job at its end has all its batches done, and nobody else holds it.    *)
LEMMA BecomesOver ==
  ASSUME MigrationInv, [Next]_vars, NEW n \in Nodes, NEW k \in Jobs,
         pc'[n] \in Ending \cup {"mark"}, job'[n] = k
  PROVE  Over(k)'
<1> USE NoneAssumption, BatchAssumption, BoundAssumption
    DEF MigrationInv, TypeOK, Holding, Ending, Up, Places, Goto, vars, tables, worker
<1>1. ASSUME pc[n] \in Ending \cup {"mark"}, job[n] = k
      PROVE  Over(k)'
  <2>1. Over(k)
    BY <1>1 DEF OverInv
  <2> QED
    BY <2>1, OverStays
<1>2. ASSUME FinishProgress(n) \/ FinishFailed(n), pc[n] \in {"finish", "finishFailed"}, pc'[n] = "succeed"
      PROVE  Over(k)'
  <2>1. job' = job /\ performed' = performed /\ \A m \in Nodes : m # n => pc'[m] = pc[m]
    BY <1>2 DEF FinishProgress, FinishFailed, Write
  <2>2. job[n] = k /\ jobs[k].status = "in_progress" /\ data[n] = NumBatches
    BY <1>2, <2>1 DEF HeldInProgress, HeldDone
  <2>3. performed[k] = Batches
    BY <1>2, <2>2 DEF HeldDone, Upto, Batches
  <2>4. jobs'[k].status \in {"in_progress", "error"}
    BY <1>2, <2>2 DEF FinishProgress, FinishFailed, SetJobError, Write, UpdateOptimistically, Row
  <2>5. \A m \in Nodes : pc'[m] \in Holding => job'[m] # k
    BY <1>2, <2>1, <2>2 DEF OneNodeRuns
  <2>6. performed'[k] = Batches
    BY <2>1, <2>3
  <2> QED
    BY <2>4, <2>5, <2>6 DEF Over, Batches
<1> QED BY <1>1, <1>2, EndSteps DEF EndStep

(* Only markAsComplete records a migration as complete.                    *)
LEMMA KeySteps == MigrationInv /\ [Next]_vars => (key' /\ ~key => \E e \in Nodes : markAsComplete(e))
<1> SUFFICES ASSUME MigrationInv, [Next]_vars PROVE (key' /\ ~key => \E e \in Nodes : markAsComplete(e))
  OBVIOUS
<1> USE NoneAssumption, BatchAssumption, BoundAssumption
    DEF MigrationInv, TypeOK, Statuses, Active, Holding, Ending, Up, Places, Goto,
        vars, tables, worker
<1>1. ASSUME NEW n \in Nodes, Boot(n) PROVE (key' /\ ~key => \E e \in Nodes : markAsComplete(e))
  BY <1>1 DEF Boot
<1>2. ASSUME NEW n \in Nodes, CreateJobOnce(n) PROVE (key' /\ ~key => \E e \in Nodes : markAsComplete(e))
  BY <1>2 DEF CreateJobOnce, Write, SaveOnce
<1>3. ASSUME NEW n \in Nodes, NEW j \in Jobs, PollAndNotify(n, j) PROVE (key' /\ ~key => \E e \in Nodes : markAsComplete(e))
  BY <1>3 DEF PollAndNotify
<1>4. ASSUME NEW n \in Nodes, ClaimJob(n) PROVE (key' /\ ~key => \E e \in Nodes : markAsComplete(e))
  BY <1>4 DEF ClaimJob, UpdateOptimistically, Claimed, Forget
<1>5. ASSUME NEW n \in Nodes, DoBatch(n) PROVE (key' /\ ~key => \E e \in Nodes : markAsComplete(e))
  BY <1>5 DEF DoBatch, Done
<1>6. ASSUME NEW n \in Nodes, SetJobProgress(n) PROVE (key' /\ ~key => \E e \in Nodes : markAsComplete(e))
  BY <1>6 DEF SetJobProgress, Write, UpdateOptimistically, Row
<1>7. ASSUME NEW n \in Nodes, resetJob(n) PROVE (key' /\ ~key => \E e \in Nodes : markAsComplete(e))
  BY <1>7 DEF resetJob, Write, UpdateOptimistically, Forget
<1>8. ASSUME NEW n \in Nodes, Fail(n) PROVE (key' /\ ~key => \E e \in Nodes : markAsComplete(e))
  BY <1>8 DEF Fail, SetJobError, Write, UpdateOptimistically, Row, Forget
<1>9. ASSUME NEW n \in Nodes, FinishProgress(n) PROVE (key' /\ ~key => \E e \in Nodes : markAsComplete(e))
  BY <1>9 DEF FinishProgress, Write, UpdateOptimistically, Row
<1>10. ASSUME NEW n \in Nodes, FinishFailed(n) PROVE (key' /\ ~key => \E e \in Nodes : markAsComplete(e))
  BY <1>10 DEF FinishFailed, SetJobError, Write, UpdateOptimistically, Row
<1>11. ASSUME NEW n \in Nodes, SetJobSuccess(n) PROVE (key' /\ ~key => \E e \in Nodes : markAsComplete(e))
  BY <1>11 DEF SetJobSuccess, Write, UpdateStatus
<1>12. ASSUME NEW n \in Nodes, markAsComplete(n) PROVE (key' /\ ~key => \E e \in Nodes : markAsComplete(e))
  BY <1>12 DEF markAsComplete, Forget
<1>13. ASSUME NEW n \in Nodes, SetJobPending(n) PROVE (key' /\ ~key => \E e \in Nodes : markAsComplete(e))
  BY <1>13 DEF SetJobPending, Write, UpdateStatus, Forget
<1>14. ASSUME NEW n \in Nodes, Stop(n) PROVE (key' /\ ~key => \E e \in Nodes : markAsComplete(e))
  BY <1>14 DEF Stop
<1>15. ASSUME NEW n \in Nodes, Stopped(n) PROVE (key' /\ ~key => \E e \in Nodes : markAsComplete(e))
  BY <1>15 DEF Stopped
<1>16. ASSUME NEW n \in Nodes, Crash(n) PROVE (key' /\ ~key => \E e \in Nodes : markAsComplete(e))
  BY <1>16 DEF Crash, UpdateOptimistically, Forget
<1>17. ASSUME Replicate PROVE (key' /\ ~key => \E e \in Nodes : markAsComplete(e))
  BY <1>17 DEF Replicate
<1>18. ASSUME Diverge PROVE (key' /\ ~key => \E e \in Nodes : markAsComplete(e))
  BY <1>18 DEF Diverge
<1>19. ASSUME Converge PROVE (key' /\ ~key => \E e \in Nodes : markAsComplete(e))
  BY <1>19 DEF Converge
<1>20. ASSUME UNCHANGED vars PROVE (key' /\ ~key => \E e \in Nodes : markAsComplete(e))
  BY <1>20
<1>21. ASSUME NEW n \in Nodes, SaveOnceLoses(n) PROVE (key' /\ ~key => \E e \in Nodes : markAsComplete(e))
  BY <1>21 DEF SaveOnceLoses
<1> QED
  BY <1>1, <1>2, <1>3, <1>4, <1>5, <1>6, <1>7, <1>8, <1>9, <1>10, <1>11,
     <1>12, <1>13, <1>14, <1>15, <1>16, <1>17, <1>18, <1>19, <1>20, <1>21 DEF Next, Work

LEMMA OverStep == MigrationInv /\ [Next]_vars => OverInv'
<1> SUFFICES ASSUME MigrationInv, [Next]_vars PROVE OverInv'
  OBVIOUS
<1>1. HeldInProgress'
  BY HeldStep
<1>2. ASSUME NEW n \in Nodes, pc'[n] \in Ending \cup {"mark"} PROVE Over(job[n])'
  <2>1. PICK k \in Jobs : job'[n] = k
    BY <1>1, <1>2 DEF HeldInProgress
  <2>2. Over(k)'
    BY <1>2, <2>1, BecomesOver
  <2> QED
    BY <2>1, <2>2 DEF Over
<1>3. ASSUME key' PROVE \E j \in Jobs : Over(j)'
  <2>1. CASE key
    BY <2>1, OverStays DEF MigrationInv, OverInv
  <2>2. CASE ~key
    <3>1. PICK n \in Nodes : markAsComplete(n)
      BY <1>3, <2>2, KeySteps
    <3>2. PICK k \in Jobs : k = job[n]
      BY <3>1 DEF markAsComplete, MigrationInv, HeldInProgress
    <3>3. Over(k)
      BY <3>1, <3>2 DEF markAsComplete, MigrationInv, OverInv
    <3> QED
      BY <3>3, OverStays
  <2> QED
    BY <2>1, <2>2
<1> QED
  BY <1>2, <1>3 DEF OverInv

(* What is saved has been done: a row is written with what its holder has, *)
(* and a reset forgets both at once.                                       *)
LEMMA SavedDoneStep == MigrationInv /\ [Next]_vars => SavedDone'
<1> SUFFICES ASSUME MigrationInv, [Next]_vars PROVE SavedDone'
  OBVIOUS
<1> USE NoneAssumption, BatchAssumption, BoundAssumption
    DEF MigrationInv, TypeOK, Statuses, Active, Holding, Ending, Up, Places, Goto,
        vars, tables, worker, HeldInProgress, OneNodeRuns, SavedDone, HeldDone
<1>1. ASSUME NEW n \in Nodes, Boot(n) PROVE SavedDone'
  BY <1>1 DEF Boot
<1>2. ASSUME NEW n \in Nodes, CreateJobOnce(n) PROVE SavedDone'
  BY <1>2, NewIdIsNew, UptoNext, SMTT(20) DEF CreateJobOnce, Write, SaveOnce
<1>3. ASSUME NEW n \in Nodes, NEW j \in Jobs, PollAndNotify(n, j) PROVE SavedDone'
  BY <1>3 DEF PollAndNotify
<1>4. ASSUME NEW n \in Nodes, ClaimJob(n) PROVE SavedDone'
  <2>1. /\ \A j \in Jobs : jobs'[j].data = jobs[j].data
        /\ \A j \in Jobs : \/ jobs'[j].status = jobs[j].status
                           \/ jobs[j].status = "pending" /\ jobs'[j].status = "in_progress"
    <3>1. job[n] \in Jobs
      BY <1>4 DEF ClaimJob
    <3> QED
      <4> HIDE DEF TypeOK, HeldInProgress, SavedDone, HeldDone, OneNodeRuns
      <4> QED BY <3>1, <1>4, ClaimShape
  <2>2. performed' = performed
    BY <1>4 DEF ClaimJob
  <2> QED
    BY <2>1, <2>2
<1>5. ASSUME NEW n \in Nodes, DoBatch(n) PROVE SavedDone'
  BY SMTT(30), <1>5, UptoNext DEF DoBatch, Done
<1>6. ASSUME NEW n \in Nodes, SetJobProgress(n) PROVE SavedDone'
  <2>1. /\ job[n] \in Jobs /\ performed' = performed
        /\ Upto(data[n]) \subseteq performed[job[n]]
    BY <1>6 DEF SetJobProgress
  <2>2. jobs' = jobs \/ jobs' = [jobs EXCEPT ![job[n]] = Row(n, "in_progress")]
    BY <1>6 DEF SetJobProgress, Write, UpdateOptimistically
  <2>3. \A j \in Jobs : j # job[n] => jobs'[j] = jobs[j]
    BY <2>2
  <2>4. \/ jobs'[job[n]] = jobs[job[n]]
        \/ jobs'[job[n]].status = "in_progress" /\ jobs'[job[n]].data = data[n]
    BY <2>1, <2>2 DEF Row
  <2> QED
    BY <2>1, <2>3, <2>4
<1>7. ASSUME NEW n \in Nodes, resetJob(n) PROVE SavedDone'
  BY <1>7, UptoNext DEF resetJob, Write, UpdateOptimistically, Forget
<1>8. ASSUME NEW n \in Nodes, Fail(n) PROVE SavedDone'
  <2>1. \A j \in Jobs : j # job[n] => jobs'[j] = jobs[j]
    BY <1>8 DEF Fail, SetJobError, Write, UpdateOptimistically, Row
  <2>2. jobs'[job[n]] = jobs[job[n]] \/ jobs'[job[n]].status = "error"
    BY <1>8 DEF Fail, SetJobError, Write, UpdateOptimistically, Row
  <2>3. performed' = performed /\ job[n] \in Jobs
    BY <1>8 DEF Fail
  <2>4. ASSUME NEW j \in Jobs
        PROVE  /\ jobs'[j].status \in Active => Upto(jobs'[j].data) \subseteq performed'[j]
               /\ jobs'[j].status = "none" => performed'[j] = {}
    <3>1. CASE jobs'[j] = jobs[j]
      BY <3>1, <2>3
    <3>2. CASE j = job[n] /\ jobs'[job[n]].status = "error"
      BY <3>2, <2>3, <1>8
    <3> QED
      BY <3>1, <3>2, <2>1, <2>2
  <2> QED
    BY <2>4
<1>9. ASSUME NEW n \in Nodes, FinishProgress(n) PROVE SavedDone'
  BY <1>9 DEF FinishProgress, Write, UpdateOptimistically, Row
<1>10. ASSUME NEW n \in Nodes, FinishFailed(n) PROVE SavedDone'
  <2>1. \A j \in Jobs : j # job[n] => jobs'[j] = jobs[j]
    BY <1>10 DEF FinishFailed, SetJobError, Write, UpdateOptimistically, Row
  <2>2. jobs'[job[n]] = jobs[job[n]] \/ jobs'[job[n]].status = "error"
    BY <1>10 DEF FinishFailed, SetJobError, Write, UpdateOptimistically, Row
  <2>3. performed' = performed /\ job[n] \in Jobs
    BY <1>10 DEF FinishFailed
  <2>4. ASSUME NEW j \in Jobs
        PROVE  /\ jobs'[j].status \in Active => Upto(jobs'[j].data) \subseteq performed'[j]
               /\ jobs'[j].status = "none" => performed'[j] = {}
    <3>1. CASE jobs'[j] = jobs[j]
      BY <3>1, <2>3
    <3>2. CASE j = job[n] /\ jobs'[job[n]].status = "error"
      BY <3>2, <2>3, <1>10
    <3> QED
      BY <3>1, <3>2, <2>1, <2>2
  <2> QED
    BY <2>4
<1>11. ASSUME NEW n \in Nodes, SetJobSuccess(n) PROVE SavedDone'
  <2>1. \A j \in Jobs : j # job[n] => jobs'[j] = jobs[j]
    BY <1>11 DEF SetJobSuccess, Write, UpdateStatus
  <2>2. jobs'[job[n]] = jobs[job[n]] \/ jobs'[job[n]].status = "success"
    BY <1>11 DEF SetJobSuccess, Write, UpdateStatus
  <2>3. performed' = performed /\ job[n] \in Jobs
    BY <1>11 DEF SetJobSuccess
  <2>4. ASSUME NEW j \in Jobs
        PROVE  /\ jobs'[j].status \in Active => Upto(jobs'[j].data) \subseteq performed'[j]
               /\ jobs'[j].status = "none" => performed'[j] = {}
    <3>1. CASE jobs'[j] = jobs[j]
      BY <3>1, <2>3
    <3>2. CASE j = job[n] /\ jobs'[job[n]].status = "success"
      BY <3>2, <2>3, <1>11
    <3> QED
      BY <3>1, <3>2, <2>1, <2>2
  <2> QED
    BY <2>4
<1>12. ASSUME NEW n \in Nodes, markAsComplete(n) PROVE SavedDone'
  BY <1>12 DEF markAsComplete, Forget
<1>13. ASSUME NEW n \in Nodes, SetJobPending(n) PROVE SavedDone'
  <2>1. \A j \in Jobs : j # job[n] => jobs'[j] = jobs[j]
    BY <1>13 DEF SetJobPending, Write, UpdateStatus
  <2>2. jobs'[job[n]] = jobs[job[n]] \/ jobs'[job[n]] = [jobs[job[n]] EXCEPT !.status = "pending"]
    BY <1>13 DEF SetJobPending, Write, UpdateStatus
  <2>3. performed' = performed /\ job[n] \in Jobs
    BY <1>13 DEF SetJobPending
  <2>4. ASSUME NEW j \in Jobs
        PROVE  /\ jobs'[j].status \in Active => Upto(jobs'[j].data) \subseteq performed'[j]
               /\ jobs'[j].status = "none" => performed'[j] = {}
    <3>1. CASE jobs'[j] = jobs[j]
      BY <3>1, <2>3
    <3>2. CASE j = job[n] /\ jobs'[job[n]] = [jobs[job[n]] EXCEPT !.status = "pending"]
      BY <3>2, <2>3, <1>13 DEF SetJobPending
    <3> QED
      BY <3>1, <3>2, <2>1, <2>2
  <2> QED
    BY <2>4
<1>14. ASSUME NEW n \in Nodes, Stop(n) PROVE SavedDone'
  BY <1>14 DEF Stop
<1>15. ASSUME NEW n \in Nodes, Stopped(n) PROVE SavedDone'
  BY <1>15 DEF Stopped
<1>16. ASSUME NEW n \in Nodes, Crash(n) PROVE SavedDone'
  BY <1>16 DEF Crash, UpdateOptimistically, Forget
<1>17. ASSUME Replicate PROVE SavedDone'
  BY <1>17 DEF Replicate
<1>18. ASSUME Diverge PROVE SavedDone'
  BY <1>18 DEF Diverge
<1>19. ASSUME Converge PROVE SavedDone'
  BY <1>19 DEF Converge
<1>20. ASSUME UNCHANGED vars PROVE SavedDone'
  BY <1>20
<1>21. ASSUME NEW n \in Nodes, SaveOnceLoses(n) PROVE SavedDone'
  BY <1>21 DEF SaveOnceLoses
<1> QED
  BY <1>1, <1>2, <1>3, <1>4, <1>5, <1>6, <1>7, <1>8, <1>9, <1>10, <1>11,
     <1>12, <1>13, <1>14, <1>15, <1>16, <1>17, <1>18, <1>19, <1>20, <1>21 DEF Next, Work

(* What a worker has is the row it claimed and what it has done since.     *)
LEMMA HeldDoneStep == MigrationInv /\ [Next]_vars => HeldDone'
<1> SUFFICES ASSUME MigrationInv, [Next]_vars PROVE HeldDone'
  OBVIOUS
<1> USE NoneAssumption, BatchAssumption, BoundAssumption
    DEF MigrationInv, TypeOK, Statuses, Active, Holding, Ending, Up, Places, Goto,
        vars, tables, worker, HeldInProgress, OneNodeRuns, SavedDone, HeldDone
<1>1. ASSUME NEW n \in Nodes, Boot(n) PROVE HeldDone'
  BY <1>1 DEF Boot
<1>2. ASSUME NEW n \in Nodes, CreateJobOnce(n) PROVE HeldDone'
  BY <1>2, NewIdIsNew, UptoNext DEF CreateJobOnce, Write, SaveOnce
<1>3. ASSUME NEW n \in Nodes, NEW j \in Jobs, PollAndNotify(n, j) PROVE HeldDone'
  BY <1>3 DEF PollAndNotify
<1>4. ASSUME NEW n \in Nodes, ClaimJob(n) PROVE HeldDone'
  BY <1>4 DEF ClaimJob, UpdateOptimistically, Claimed, Forget
<1>5. ASSUME NEW n \in Nodes, DoBatch(n) PROVE HeldDone'
  BY <1>5, UptoNext DEF DoBatch, Done
<1>6. ASSUME NEW n \in Nodes, SetJobProgress(n) PROVE HeldDone'
  BY <1>6 DEF SetJobProgress, Write, UpdateOptimistically, Row
<1>7. ASSUME NEW n \in Nodes, resetJob(n) PROVE HeldDone'
  BY <1>7, UptoNext DEF resetJob, Write, UpdateOptimistically, Forget
<1>8. ASSUME NEW n \in Nodes, Fail(n) PROVE HeldDone'
  BY <1>8 DEF Fail, SetJobError, Write, UpdateOptimistically, Row, Forget
<1>9. ASSUME NEW n \in Nodes, FinishProgress(n) PROVE HeldDone'
  BY <1>9 DEF FinishProgress, Write, UpdateOptimistically, Row
<1>10. ASSUME NEW n \in Nodes, FinishFailed(n) PROVE HeldDone'
  BY <1>10 DEF FinishFailed, SetJobError, Write, UpdateOptimistically, Row
<1>11. ASSUME NEW n \in Nodes, SetJobSuccess(n) PROVE HeldDone'
  BY <1>11 DEF SetJobSuccess, Write, UpdateStatus
<1>12. ASSUME NEW n \in Nodes, markAsComplete(n) PROVE HeldDone'
  BY <1>12 DEF markAsComplete, Forget
<1>13. ASSUME NEW n \in Nodes, SetJobPending(n) PROVE HeldDone'
  BY <1>13 DEF SetJobPending, Write, UpdateStatus, Forget
<1>14. ASSUME NEW n \in Nodes, Stop(n) PROVE HeldDone'
  BY <1>14 DEF Stop
<1>15. ASSUME NEW n \in Nodes, Stopped(n) PROVE HeldDone'
  BY <1>15 DEF Stopped
<1>16. ASSUME NEW n \in Nodes, Crash(n) PROVE HeldDone'
  BY <1>16 DEF Crash, UpdateOptimistically, Forget
<1>17. ASSUME Replicate PROVE HeldDone'
  BY <1>17 DEF Replicate
<1>18. ASSUME Diverge PROVE HeldDone'
  BY <1>18 DEF Diverge
<1>19. ASSUME Converge PROVE HeldDone'
  BY <1>19 DEF Converge
<1>20. ASSUME UNCHANGED vars PROVE HeldDone'
  BY <1>20
<1>21. ASSUME NEW n \in Nodes, SaveOnceLoses(n) PROVE HeldDone'
  BY <1>21 DEF SaveOnceLoses
<1> QED
  BY <1>1, <1>2, <1>3, <1>4, <1>5, <1>6, <1>7, <1>8, <1>9, <1>10, <1>11,
     <1>12, <1>13, <1>14, <1>15, <1>16, <1>17, <1>18, <1>19, <1>20, <1>21 DEF Next, Work

(* Without a fault each batch is saved before the next step.               *)
LEMMA DoneIsSavedStep == MigrationInv /\ [Next]_vars => DoneIsSaved'
<1> SUFFICES ASSUME MigrationInv, [Next]_vars PROVE DoneIsSaved'
  OBVIOUS
<1> USE NoneAssumption, BatchAssumption, BoundAssumption
    DEF MigrationInv, TypeOK, Statuses, Active, Holding, Ending, Up, Places, Goto,
        vars, tables, worker, HeldInProgress
<1>1. ASSUME NEW n \in Nodes, Boot(n) PROVE DoneIsSaved'
  <2> SUFFICES ASSUME used'.faults = 0 PROVE PendingExact' /\ HeldExact'
    BY DEF DoneIsSaved
  <2>1. used.faults = 0 /\ PendingExact /\ HeldExact /\ ~Fault
    BY <1>1, Counted DEF DoneIsSaved, Boot
  <2>2. /\ UNCHANGED <<jobs, performed, job, data>>
        /\ \A m \in Nodes : m # n => pc'[m] = pc[m] /\ job'[m] = job[m] /\ data'[m] = data[m]
        /\ pc'[n] \in {"idle", "create"}
    BY <1>1, <2>1 DEF Boot
  <2>3. PendingExact'
    BY <2>1, <2>2 DEF PendingExact
  <2>4. HeldExact'
    BY <2>1, <2>2 DEF HeldExact
  <2> QED
    BY <2>3, <2>4
<1>2. ASSUME NEW n \in Nodes, CreateJobOnce(n) PROVE DoneIsSaved'
  <2> SUFFICES ASSUME used'.faults = 0 PROVE PendingExact' /\ HeldExact'
    BY DEF DoneIsSaved
  <2>1. used.faults = 0 /\ PendingExact /\ HeldExact /\ ~Fault
    BY <1>2, Counted DEF DoneIsSaved, CreateJobOnce, Write
  <2>2. /\ UNCHANGED <<performed, job, data>>
        /\ \A m \in Nodes : pc'[m] = pc[m] \/ pc'[m] = "idle"
    BY <1>2, <2>1 DEF CreateJobOnce, Write
  <2>3. jobs' = SaveOnce(NewId)
    BY <1>2, <2>1 DEF CreateJobOnce, Write
  <2>4. CASE \E i \in Jobs : jobs[i].status \in Active
    BY <2>1, <2>2, <2>3, <2>4 DEF SaveOnce, PendingExact, HeldExact
  <2>5. CASE \A i \in Jobs : jobs[i].status \notin Active
    <3>1. NewId \in Jobs /\ jobs[NewId].status = "none"
      BY <2>5, <1>2, NewIdIsNew DEF CreateJobOnce
    <3>2. jobs' = [jobs EXCEPT ![NewId] = [status |-> "pending", data |-> 0]]
      BY <2>3, <2>5 DEF SaveOnce
    <3>3. performed'[NewId] = Upto(0)
      BY <2>2, <3>1, UptoNext DEF SavedDone
    <3>4. \A m \in Nodes : pc'[m] \notin Holding
      BY <2>2, <2>5
    <3> QED
      BY <2>1, <2>2, <3>1, <3>2, <3>3, <3>4 DEF PendingExact, HeldExact
  <2> QED
    BY <2>4, <2>5
<1>3. ASSUME NEW n \in Nodes, NEW j \in Jobs, PollAndNotify(n, j) PROVE DoneIsSaved'
  <2> SUFFICES ASSUME used'.faults = 0 PROVE PendingExact' /\ HeldExact'
    BY DEF DoneIsSaved
  <2>1. used.faults = 0 /\ PendingExact /\ HeldExact
    BY <1>3, Counted DEF DoneIsSaved, PollAndNotify
  <2>2. /\ UNCHANGED <<jobs, performed, data, used>>
        /\ \A m \in Nodes : m # n => pc'[m] = pc[m] /\ job'[m] = job[m] /\ data'[m] = data[m]
        /\ pc'[n] = "claim"
    BY <1>3, <2>1 DEF PollAndNotify
  <2>3. PendingExact'
    BY <2>1, <2>2 DEF PendingExact
  <2>4. HeldExact'
    BY <2>1, <2>2 DEF HeldExact
  <2> QED
    BY <2>3, <2>4
<1>4. ASSUME NEW n \in Nodes, ClaimJob(n) PROVE DoneIsSaved'
  <2> SUFFICES ASSUME used'.faults = 0 PROVE PendingExact' /\ HeldExact'
    BY DEF DoneIsSaved
  <2>1. used.faults = 0 /\ PendingExact /\ HeldExact /\ ~Fault
    BY <1>4, Counted DEF DoneIsSaved, ClaimJob
  <2>2. /\ performed' = performed
        /\ job[n] \in Jobs
        /\ \A j \in Jobs : jobs'[j].data = jobs[j].data
        /\ \A j \in Jobs : jobs'[j].status = "pending" => jobs[j].status = "pending"
    <3>1. performed' = performed /\ job[n] \in Jobs
      BY <1>4 DEF ClaimJob
    <3>2. /\ \A j \in Jobs : jobs'[j].data = jobs[j].data
          /\ \A j \in Jobs : \/ jobs'[j].status = jobs[j].status
                             \/ jobs[j].status = "pending" /\ jobs'[j].status = "in_progress"
      BY <3>1, <1>4, ClaimShape
    <3>3. \A j \in Jobs : jobs'[j].status = "pending" => jobs[j].status = "pending"
      BY <3>2
    <3> QED
      BY <3>1, <3>2, <3>3
  <2>3. /\ \A m \in Nodes : m # n => pc'[m] = pc[m] /\ job'[m] = job[m] /\ data'[m] = data[m]
        /\ \/ pc'[n] = "idle"
           \/ /\ pc'[n] = "run"
              /\ job'[n] = job[n]
              /\ jobs[job[n]].status = "pending"
              /\ data'[n] = jobs[job[n]].data
    BY <1>4, <2>1 DEF ClaimJob, Claimed, Forget
  <2>4. PendingExact'
    BY <2>1, <2>2 DEF PendingExact
  <2>5. HeldExact'
    BY <2>1, <2>2, <2>3 DEF PendingExact, HeldExact
  <2> QED
    BY <2>4, <2>5
<1>5. ASSUME NEW n \in Nodes, DoBatch(n) PROVE DoneIsSaved'
  <2> SUFFICES ASSUME used'.faults = 0 PROVE PendingExact' /\ HeldExact'
    BY DEF DoneIsSaved
  <2>1. used.faults = 0 /\ PendingExact /\ HeldExact /\ ~Fault
    BY <1>5, Counted DEF DoneIsSaved, DoBatch
  <2>2. /\ UNCHANGED <<jobs, job>>
        /\ job[n] \in Jobs
        /\ jobs[job[n]].status = "in_progress"
        /\ \A m \in Nodes : m # n => pc'[m] = pc[m] /\ pc[m] \notin Holding
        /\ pc[n] = "run"
    BY <1>5 DEF DoBatch, OneNodeRuns
  <2>3. CASE ~Done(n) /\ pc'[n] = "save" /\ data' = [data EXCEPT ![n] = @ + 1]
             /\ performed' = [performed EXCEPT ![job[n]] = @ \cup {data[n] + 1}]
    <3>1. performed'[job[n]] = Upto(data'[n])
      BY <2>1, <2>2, <2>3, UptoNext DEF HeldExact
    <3>2. \A j \in Jobs : j # job[n] => performed'[j] = performed[j]
      BY <2>2, <2>3
    <3>3. PendingExact'
      BY <2>1, <2>2, <3>2 DEF PendingExact
    <3>4. HeldExact'
      <4>1. \A m \in Nodes : pc'[m] \in {"run", "save"} => m = n /\ pc'[m] = "save"
        BY <2>2, <2>3
      <4> QED
        BY <2>2, <3>1, <4>1 DEF HeldExact
    <3> QED
      BY <3>3, <3>4
  <2>4. CASE UNCHANGED <<data, performed>> /\ pc'[n] \in {"reset", "finish"}
    BY <2>1, <2>2, <2>4 DEF PendingExact, HeldExact
  <2> QED
    BY <1>5, <2>1, <2>3, <2>4 DEF DoBatch
<1>6. ASSUME NEW n \in Nodes, SetJobProgress(n) PROVE DoneIsSaved'
  <2> SUFFICES ASSUME used'.faults = 0 PROVE PendingExact' /\ HeldExact'
    BY DEF DoneIsSaved
  <2>1. used.faults = 0 /\ PendingExact /\ HeldExact /\ ~Fault
    BY <1>6, Counted DEF DoneIsSaved, SetJobProgress, Write
  <2>2. /\ UNCHANGED <<performed, job, data>>
        /\ job[n] \in Jobs
        /\ \A j \in Jobs : j # job[n] => jobs'[j] = jobs[j] /\ performed'[j] = performed[j]
        /\ jobs'[job[n]] = Row(n, "in_progress")
        /\ \A m \in Nodes : m # n => pc'[m] = pc[m] /\ pc[m] \notin Holding
        /\ pc[n] = "save" /\ pc'[n] = "run"
    BY <1>6, <2>1 DEF SetJobProgress, Write, UpdateOptimistically, OneNodeRuns
  <2>3. PendingExact'
    BY <2>1, <2>2, RowType DEF PendingExact, Row
  <2>4. HeldExact'
    BY <2>1, <2>2 DEF HeldExact, Row
  <2> QED
    BY <2>3, <2>4
<1>7. ASSUME NEW n \in Nodes, resetJob(n) PROVE DoneIsSaved'
  <2> SUFFICES ASSUME used'.faults = 0 PROVE PendingExact' /\ HeldExact'
    BY DEF DoneIsSaved
  <2>1. used.faults = 0 /\ PendingExact /\ HeldExact /\ ~Fault
    BY <1>7, Counted DEF DoneIsSaved, resetJob, Write
  <2>2. /\ job[n] \in Jobs
        /\ \A j \in Jobs : j # job[n] => jobs'[j] = jobs[j] /\ performed'[j] = performed[j]
        /\ jobs'[job[n]] = [status |-> "pending", data |-> 0]
        /\ performed'[job[n]] = Upto(0)
        /\ \A m \in Nodes : m # n => pc'[m] = pc[m] /\ pc[m] \notin Holding
        /\ pc'[n] = "idle"
    BY <1>7, <2>1, UptoNext DEF resetJob, Write, UpdateOptimistically, OneNodeRuns
  <2>3. PendingExact'
    BY <2>1, <2>2 DEF PendingExact
  <2>4. HeldExact'
    BY <2>1, <2>2 DEF HeldExact
  <2> QED
    BY <2>3, <2>4
<1>8. ASSUME NEW n \in Nodes, Fail(n) PROVE DoneIsSaved'
  <2> SUFFICES ASSUME used'.faults = 0 PROVE PendingExact' /\ HeldExact'
    BY DEF DoneIsSaved
  <2>1. used.faults = 0 /\ PendingExact /\ HeldExact /\ ~Fault
    BY <1>8, Counted DEF DoneIsSaved, Fail, Write
  <2>2. /\ performed' = performed
        /\ job[n] \in Jobs
        /\ \A j \in Jobs : j # job[n] => jobs'[j] = jobs[j] /\ performed'[j] = performed[j]
        /\ jobs'[job[n]].status = "error"
        /\ \A m \in Nodes : m # n => pc'[m] = pc[m] /\ pc[m] \notin Holding
        /\ pc'[n] = "idle"
    BY <1>8, <2>1 DEF Fail, SetJobError, Row, Write, UpdateOptimistically, OneNodeRuns
  <2>3. PendingExact'
    BY <2>1, <2>2 DEF PendingExact
  <2>4. HeldExact'
    BY <2>1, <2>2 DEF HeldExact
  <2> QED
    BY <2>3, <2>4
<1>9. ASSUME NEW n \in Nodes, FinishProgress(n) PROVE DoneIsSaved'
  <2> SUFFICES ASSUME used'.faults = 0 PROVE PendingExact' /\ HeldExact'
    BY DEF DoneIsSaved
  <2>1. used.faults = 0 /\ PendingExact /\ HeldExact /\ ~Fault
    BY <1>9, Counted DEF DoneIsSaved, FinishProgress, Write
  <2>2. /\ performed' = performed
        /\ job[n] \in Jobs
        /\ \A j \in Jobs : j # job[n] => jobs'[j] = jobs[j] /\ performed'[j] = performed[j]
        /\ jobs'[job[n]].status = "in_progress"
        /\ \A m \in Nodes : m # n => pc'[m] = pc[m] /\ pc[m] \notin Holding
        /\ pc'[n] = "succeed"
    BY <1>9, <2>1 DEF FinishProgress, Row, Write, UpdateOptimistically, OneNodeRuns
  <2>3. PendingExact'
    BY <2>1, <2>2 DEF PendingExact
  <2>4. HeldExact'
    BY <2>1, <2>2 DEF HeldExact
  <2> QED
    BY <2>3, <2>4
<1>10. ASSUME NEW n \in Nodes, FinishFailed(n) PROVE DoneIsSaved'
  <2> SUFFICES ASSUME used'.faults = 0 PROVE PendingExact' /\ HeldExact'
    BY DEF DoneIsSaved
  <2>1. used.faults = 0 /\ PendingExact /\ HeldExact
    BY <1>10, Counted DEF DoneIsSaved, FinishFailed, Write
  <2>2. UNCHANGED <<performed, job, data>>
    BY <1>10 DEF FinishFailed
  <2>3. \A j \in Jobs : jobs'[j] = jobs[j] \/ (j = job[n] /\ jobs'[j].status = "error")
    <3>1. job[n] \in Jobs
      BY <1>10 DEF FinishFailed
    <3>2. CASE jobs' = jobs
      BY <3>2
    <3>3. CASE jobs' = [jobs EXCEPT ![job[n]] = Row(n, "error")]
      BY <3>1, <3>3 DEF Row
    <3> QED
      BY <3>2, <3>3, <1>10 DEF FinishFailed, SetJobError, Write, UpdateOptimistically
  <2>4. \A m \in Nodes : m # n /\ pc[m] \in Holding => job[m] # job[n]
    BY <1>10 DEF FinishFailed, OneNodeRuns, OverInv, Over
  <2>5. pc'[n] \in {"succeed", "mark"} /\ \A m \in Nodes : m # n => pc'[m] = pc[m]
    BY <1>10 DEF FinishFailed, Write
  <2>6. PendingExact'
    BY <2>1, <2>2, <2>3 DEF PendingExact
  <2>7. HeldExact'
    BY <2>1, <2>2, <2>3, <2>4, <2>5 DEF HeldExact
  <2> QED
    BY <2>6, <2>7
<1>11. ASSUME NEW n \in Nodes, SetJobSuccess(n) PROVE DoneIsSaved'
  <2> SUFFICES ASSUME used'.faults = 0 PROVE PendingExact' /\ HeldExact'
    BY DEF DoneIsSaved
  <2>1. used.faults = 0 /\ PendingExact /\ HeldExact /\ ~Fault
    BY <1>11, Counted DEF DoneIsSaved, SetJobSuccess, Write
  <2>2. /\ UNCHANGED <<performed, job, data>>
        /\ \A j \in Jobs : jobs'[j].data = jobs[j].data
        /\ \A j \in Jobs : jobs'[j].status = "pending" => jobs[j].status = "pending"
        /\ \A m \in Nodes : m # n => pc'[m] = pc[m]
        /\ pc'[n] = "mark"
    <3>1. UNCHANGED <<performed, job, data>>
      BY <1>11, <2>1 DEF SetJobSuccess, Write, UpdateStatus
    <3>2. \A j \in Jobs : jobs'[j].data = jobs[j].data
      BY <1>11, <2>1, SMTT(20) DEF SetJobSuccess, Write, UpdateStatus
    <3>3. \A j \in Jobs : jobs'[j].status = "pending" => jobs[j].status = "pending"
      BY <1>11, <2>1 DEF SetJobSuccess, Write, UpdateStatus
    <3>4. \A m \in Nodes : m # n => pc'[m] = pc[m]
      BY <1>11, <2>1 DEF SetJobSuccess, Write, UpdateStatus
    <3>5. pc'[n] = "mark"
      BY <1>11, <2>1 DEF SetJobSuccess, Write, UpdateStatus
    <3> QED
      BY <3>1, <3>2, <3>3, <3>4, <3>5
  <2>3. PendingExact'
    BY <2>1, <2>2 DEF PendingExact
  <2>4. HeldExact'
    BY <2>1, <2>2 DEF HeldExact
  <2> QED
    BY <2>3, <2>4
<1>12. ASSUME NEW n \in Nodes, markAsComplete(n) PROVE DoneIsSaved'
  <2> SUFFICES ASSUME used'.faults = 0 PROVE PendingExact' /\ HeldExact'
    BY DEF DoneIsSaved
  <2>1. used.faults = 0 /\ PendingExact /\ HeldExact /\ ~Fault
    BY <1>12, Counted DEF DoneIsSaved, markAsComplete
  <2>2. /\ UNCHANGED <<jobs, performed>>
        /\ \A m \in Nodes : m # n => pc'[m] = pc[m] /\ job'[m] = job[m] /\ data'[m] = data[m]
        /\ pc'[n] = "idle"
    BY <1>12, <2>1 DEF markAsComplete, Forget
  <2>3. PendingExact'
    BY <2>1, <2>2 DEF PendingExact
  <2>4. HeldExact'
    BY <2>1, <2>2 DEF HeldExact
  <2> QED
    BY <2>3, <2>4
<1>13. ASSUME NEW n \in Nodes, SetJobPending(n) PROVE DoneIsSaved'
  <2> SUFFICES ASSUME used'.faults = 0 PROVE PendingExact' /\ HeldExact'
    BY DEF DoneIsSaved
  <2>1. used.faults = 0 /\ PendingExact /\ HeldExact /\ ~Fault
    BY <1>13, Counted DEF DoneIsSaved, SetJobPending, Write
  <2>2. /\ UNCHANGED performed
        /\ job[n] \in Jobs
        /\ \A j \in Jobs : j # job[n] => jobs'[j] = jobs[j] /\ performed'[j] = performed[j]
        /\ jobs'[job[n]].data = jobs[job[n]].data
        /\ performed[job[n]] = Upto(jobs[job[n]].data)
        /\ \A m \in Nodes : m # n => pc'[m] = pc[m] /\ pc[m] \notin Holding
        /\ pc'[n] = "idle"
    BY <1>13, <2>1 DEF SetJobPending, Write, UpdateStatus, OneNodeRuns, HeldExact
  <2>3. PendingExact'
    BY <2>1, <2>2 DEF PendingExact
  <2>4. HeldExact'
    BY <2>1, <2>2 DEF HeldExact
  <2> QED
    BY <2>3, <2>4
<1>14. ASSUME NEW n \in Nodes, Stop(n) PROVE DoneIsSaved'
  <2> SUFFICES ASSUME used'.faults = 0 PROVE PendingExact' /\ HeldExact'
    BY DEF DoneIsSaved
  <2>1. used.faults = 0 /\ PendingExact /\ HeldExact
    BY <1>14, Counted DEF DoneIsSaved, Stop
  <2>2. /\ UNCHANGED <<jobs, performed, job, data, pc>>
    BY <1>14, <2>1 DEF Stop
  <2>3. PendingExact'
    BY <2>1, <2>2 DEF PendingExact
  <2>4. HeldExact'
    BY <2>1, <2>2 DEF HeldExact
  <2> QED
    BY <2>3, <2>4
<1>15. ASSUME NEW n \in Nodes, Stopped(n) PROVE DoneIsSaved'
  <2> SUFFICES ASSUME used'.faults = 0 PROVE PendingExact' /\ HeldExact'
    BY DEF DoneIsSaved
  <2>1. used.faults = 0 /\ PendingExact /\ HeldExact
    BY <1>15, Counted DEF DoneIsSaved, Stopped
  <2>2. /\ UNCHANGED <<jobs, performed, job, data, used>>
        /\ \A m \in Nodes : m # n => pc'[m] = pc[m] /\ job'[m] = job[m] /\ data'[m] = data[m]
        /\ pc'[n] = "down"
    BY <1>15, <2>1 DEF Stopped
  <2>3. PendingExact'
    BY <2>1, <2>2 DEF PendingExact
  <2>4. HeldExact'
    BY <2>1, <2>2 DEF HeldExact
  <2> QED
    BY <2>3, <2>4
<1>16. ASSUME NEW n \in Nodes, Crash(n) PROVE DoneIsSaved'
  <2> SUFFICES ASSUME used'.faults = 0 PROVE PendingExact' /\ HeldExact'
    BY DEF DoneIsSaved
  <2>1. used.faults = 0 /\ PendingExact /\ HeldExact
    BY <1>16, Counted DEF DoneIsSaved, Crash
  <2>2. /\ performed' = performed
        /\ \A j \in Jobs : j # job[n] => jobs'[j] = jobs[j] /\ performed'[j] = performed[j]
        /\ pc[n] = "run" \/ jobs' = jobs
        /\ job[n] \in Jobs => jobs'[job[n]] = jobs[job[n]] \/ jobs'[job[n]].status = "error"
        /\ \A m \in Nodes : m # n => pc'[m] = pc[m] /\ job'[m] = job[m] /\ data'[m] = data[m]
        /\ \A m \in Nodes : m # n /\ pc[m] \in Holding /\ pc[n] = "run" => FALSE
        /\ pc'[n] = "down"
    BY <1>16, <2>1 DEF Crash, UpdateOptimistically, Forget, OneNodeRuns
  <2>3. PendingExact'
    BY <2>1, <2>2 DEF PendingExact
  <2>4. HeldExact'
    BY <2>1, <2>2 DEF HeldExact
  <2> QED
    BY <2>3, <2>4
<1>17. ASSUME Replicate PROVE DoneIsSaved'
  BY <1>17 DEF Replicate, DoneIsSaved, PendingExact, HeldExact
<1>18. ASSUME Diverge PROVE DoneIsSaved'
  <2>1. used'.faults = used.faults /\ UNCHANGED <<jobs, performed, pc, job, data>>
    BY <1>18, Counted DEF Diverge
  <2> QED
    BY <2>1 DEF DoneIsSaved, PendingExact, HeldExact
<1>19. ASSUME Converge PROVE DoneIsSaved'
  BY <1>19 DEF Converge, DoneIsSaved, PendingExact, HeldExact
<1>20. ASSUME UNCHANGED vars PROVE DoneIsSaved'
  BY <1>20 DEF DoneIsSaved, PendingExact, HeldExact
<1>21. ASSUME NEW n \in Nodes, SaveOnceLoses(n) PROVE DoneIsSaved'
  BY <1>21 DEF SaveOnceLoses, DoneIsSaved, PendingExact, HeldExact
<1> QED
  BY <1>1, <1>2, <1>3, <1>4, <1>5, <1>6, <1>7, <1>8, <1>9, <1>10, <1>11,
     <1>12, <1>13, <1>14, <1>15, <1>16, <1>17, <1>18, <1>19, <1>20, <1>21 DEF Next, Work

LEMMA InitInv == Init => MigrationInv
<1> SUFFICES ASSUME Init PROVE MigrationInv
  OBVIOUS
<1> USE NoneAssumption, BatchAssumption, BoundAssumption DEF Init
<1>1. TypeOK
  <2>1. 0 \in 0 .. NumBatches /\ "none" \in Statuses /\ "down" \in Places
    BY DEF Statuses, Places
  <2>2. jobs \in [Jobs -> [status : Statuses, data : 0 .. NumBatches]]
    BY <2>1
  <2>3. used \in [faults : Nat, crashes : Nat, stops : Nat, divergences : Nat]
    OBVIOUS
  <2>4. performed \in [Jobs -> SUBSET Batches]
    OBVIOUS
  <2> QED
    BY <2>1, <2>2, <2>3, <2>4 DEF TypeOK
<1>2. OneActive /\ HeldInProgress /\ OneNodeRuns
  BY DEF OneActive, HeldInProgress, OneNodeRuns, Active, Holding, Ending
<1>3. OverInv /\ HeldDone
  BY DEF OverInv, HeldDone, Holding, Ending
<1>4. SavedDone
  BY DEF SavedDone, Active
<1>5. DoneIsSaved
  BY DEF DoneIsSaved, PendingExact, HeldExact
<1> QED BY <1>1, <1>2, <1>3, <1>4, <1>5 DEF MigrationInv

(* The invariant holds of every state: each part is preserved because the  *)
(* others hold before the step.                                            *)
THEOREM MigrationInvariant == Spec => []MigrationInv
<1>1. MigrationInv /\ [Next]_vars => MigrationInv'
  BY TypeStep, OneActiveStep, HeldStep, OneNodeRunsStep, OverStep, SavedDoneStep,
     HeldDoneStep, DoneIsSavedStep DEF MigrationInv
<1> QED BY <1>1, InitInv, PTL DEF Spec

(* Every variable of the migration holds what it is declared to hold.      *)
THEOREM TypeCorrect == Spec => []TypeOK
<1>1. MigrationInv => TypeOK
  BY DEF MigrationInv
<1> QED BY <1>1, MigrationInvariant, PTL

(* At most one node runs the migration at a time.                          *)
THEOREM OneNodeRunsAlways == Spec => []OneNodeRuns
<1>1. MigrationInv => OneNodeRuns
  BY DEF MigrationInv
<1> QED BY <1>1, MigrationInvariant, PTL

(* A migration that ends, or is recorded as complete, had every batch.     *)
THEOREM NoBatchIsSkipped == Spec => []NoBatchSkipped
<1>1. MigrationInv => NoBatchSkipped
  <2> SUFFICES ASSUME MigrationInv PROVE NoBatchSkipped
    OBVIOUS
  <2>1. key => \E j \in Jobs : performed[j] = Batches
    BY DEF MigrationInv, OverInv, Over
  <2>2. ASSUME NEW n \in Nodes, pc[n] \in Ending \cup {"mark"}
        PROVE  performed[job[n]] = Batches
    BY <2>2 DEF MigrationInv, OverInv, Over
  <2>3. ASSUME NEW n \in Nodes, pc[n] \in {"finish", "finishFailed"}
        PROVE  performed[job[n]] = Batches
    <3>1. job[n] \in Jobs /\ data[n] = NumBatches /\ Upto(data[n]) \subseteq performed[job[n]]
      BY <2>3 DEF MigrationInv, HeldInProgress, HeldDone, Holding
    <3>2. performed[job[n]] \subseteq Batches
      BY <3>1 DEF MigrationInv, TypeOK
    <3> QED
      BY <3>1, <3>2 DEF Upto, Batches
  <2> QED
    BY <2>1, <2>2, <2>3 DEF NoBatchSkipped
<1> QED BY <1>1, MigrationInvariant, PTL

(* Unless a call fails, a worker takes up a job right after its last batch.*)
THEOREM NothingIsRepeated == Spec => []NothingRepeated
<1>1. MigrationInv => NothingRepeated
  BY DEF MigrationInv, DoneIsSaved, HeldExact, NothingRepeated, Upto
<1> QED BY <1>1, MigrationInvariant, PTL

Final(j) ==
    /\ jobs[j].status = "success" => jobs'[j].status = "success"
    /\ jobs[j].status = "error" => jobs'[j].status \in {"error", "success"}

(* The row of a job that has ended is not written by anyone who puts it    *)
(* back: a worker that is stopped holds a job in progress.                 *)
LEMMA FinalStep == MigrationInv /\ [Next]_vars => (\A k \in Jobs : Final(k))
<1> SUFFICES ASSUME MigrationInv, [Next]_vars PROVE (\A k \in Jobs : Final(k))
  OBVIOUS
<1> USE NoneAssumption, BatchAssumption, BoundAssumption
    DEF MigrationInv, TypeOK, Statuses, Active, Holding, Ending, Up, Places, Goto,
        vars, tables, worker, HeldInProgress, Final
<1>1. ASSUME NEW n \in Nodes, Boot(n) PROVE (\A k \in Jobs : Final(k))
  BY <1>1 DEF Boot
<1>2. ASSUME NEW n \in Nodes, CreateJobOnce(n) PROVE (\A k \in Jobs : Final(k))
  BY <1>2, NewIdIsNew DEF CreateJobOnce, Write, SaveOnce
<1>3. ASSUME NEW n \in Nodes, NEW j \in Jobs, PollAndNotify(n, j) PROVE (\A k \in Jobs : Final(k))
  BY <1>3 DEF PollAndNotify
<1>4. ASSUME NEW n \in Nodes, ClaimJob(n) PROVE (\A k \in Jobs : Final(k))
  BY <1>4 DEF ClaimJob, UpdateOptimistically, Claimed, Forget
<1>5. ASSUME NEW n \in Nodes, DoBatch(n) PROVE (\A k \in Jobs : Final(k))
  BY <1>5 DEF DoBatch, Done
<1>6. ASSUME NEW n \in Nodes, SetJobProgress(n) PROVE (\A k \in Jobs : Final(k))
  BY <1>6 DEF SetJobProgress, Write, UpdateOptimistically, Row
<1>7. ASSUME NEW n \in Nodes, resetJob(n) PROVE (\A k \in Jobs : Final(k))
  BY <1>7 DEF resetJob, Write, UpdateOptimistically, Forget
<1>8. ASSUME NEW n \in Nodes, Fail(n) PROVE (\A k \in Jobs : Final(k))
  BY <1>8 DEF Fail, SetJobError, Write, UpdateOptimistically, Row, Forget
<1>9. ASSUME NEW n \in Nodes, FinishProgress(n) PROVE (\A k \in Jobs : Final(k))
  BY <1>9 DEF FinishProgress, Write, UpdateOptimistically, Row
<1>10. ASSUME NEW n \in Nodes, FinishFailed(n) PROVE (\A k \in Jobs : Final(k))
  BY <1>10 DEF FinishFailed, SetJobError, Write, UpdateOptimistically, Row
<1>11. ASSUME NEW n \in Nodes, SetJobSuccess(n) PROVE (\A k \in Jobs : Final(k))
  BY <1>11 DEF SetJobSuccess, Write, UpdateStatus
<1>12. ASSUME NEW n \in Nodes, markAsComplete(n) PROVE (\A k \in Jobs : Final(k))
  BY <1>12 DEF markAsComplete, Forget
<1>13. ASSUME NEW n \in Nodes, SetJobPending(n) PROVE (\A k \in Jobs : Final(k))
  BY <1>13 DEF SetJobPending, Write, UpdateStatus, Forget
<1>14. ASSUME NEW n \in Nodes, Stop(n) PROVE (\A k \in Jobs : Final(k))
  BY <1>14 DEF Stop
<1>15. ASSUME NEW n \in Nodes, Stopped(n) PROVE (\A k \in Jobs : Final(k))
  BY <1>15 DEF Stopped
<1>16. ASSUME NEW n \in Nodes, Crash(n) PROVE (\A k \in Jobs : Final(k))
  BY <1>16 DEF Crash, UpdateOptimistically, Forget
<1>17. ASSUME Replicate PROVE (\A k \in Jobs : Final(k))
  BY <1>17 DEF Replicate
<1>18. ASSUME Diverge PROVE (\A k \in Jobs : Final(k))
  BY <1>18 DEF Diverge
<1>19. ASSUME Converge PROVE (\A k \in Jobs : Final(k))
  BY <1>19 DEF Converge
<1>20. ASSUME UNCHANGED vars PROVE (\A k \in Jobs : Final(k))
  BY <1>20
<1>21. ASSUME NEW n \in Nodes, SaveOnceLoses(n) PROVE (\A k \in Jobs : Final(k))
  BY <1>21 DEF SaveOnceLoses
<1> QED
  BY <1>1, <1>2, <1>3, <1>4, <1>5, <1>6, <1>7, <1>8, <1>9, <1>10, <1>11,
     <1>12, <1>13, <1>14, <1>15, <1>16, <1>17, <1>18, <1>19, <1>20, <1>21 DEF Next, Work

(* A success stays a success and an error never runs again.                *)
THEOREM FinalStaysFinal == Spec => FinalIsFinal
<1>1. MigrationInv /\ [Next]_vars =>
        [\A j \in Jobs :
            /\ jobs[j].status = "success" => jobs'[j].status = "success"
            /\ jobs[j].status = "error" => jobs'[j].status \in {"error", "success"}]_vars
  BY FinalStep DEF Final
<1> QED BY <1>1, MigrationInvariant, PTL DEF Spec, FinalIsFinal

=============================================================================
