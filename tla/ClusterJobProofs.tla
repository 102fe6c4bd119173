-------------------------- MODULE ClusterJobProofs --------------------------
(***************************************************************************)
(* Periodic jobs of plugins, for any number of instances, any interval and *)
(* any times: two runs are apart unless the metadata was not saved or is   *)
(* read from a replica that is behind, and it is of the last one, wherever *)
(* that was.                                                               *)
(***************************************************************************)
EXTENDS ClusterJob, TLAPS

(* The parts of JobInv next to the types.                                  *)
HolderRuns ==
    \A p \in Clients : At(p, "executing") \/ At(p, "saving") <=> holder = p

LastIsStored ==
    unsaved \/ stored = lastEnd
      \/ \E p \in Clients : At(p, "saving") /\ job[p].finished = lastEnd

SavesLast == \A p \in Clients : At(p, "saving") => job[p].finished = lastEnd

ScheduleAny(p) == \E rounded \in BOOLEAN : Schedule(p, rounded)

LEMMA JobInvParts ==
  JobInv <=> TypeOK /\ HolderRuns /\ LastIsStored /\ SavesLast
  BY DEF JobInv, LastFinishedIsLast, HolderRuns, LastIsStored, SavesLast

LEMMA NextRunType ==
  ASSUME NEW p, NEW last \in Nat
  PROVE  NextRun(p, last) \in Nat
  <1>1. (last + Interval) \div Interval \in Nat
    BY ClusterJobAssumption
  <1>2. ((last + Interval) \div Interval) * Interval \in Nat
    BY <1>1, ClusterJobAssumption
  <1> QED
    BY <1>2, ClusterJobAssumption DEF NextRun

(* A run that waited for NextRun is apart from the last one.               *)
LEMMA NextRunApart ==
  ASSUME NEW p, NEW last \in Nat, NEW time \in Nat,
         job[p].rounded \in BOOLEAN, time >= NextRun(p, last)
  PROVE  Apart(p, last, time)
  <1>1. CASE job[p].rounded /\ last # 0
    <2> DEFINE q == last \div Interval
    <2>1. q \in Nat /\ (last + Interval) \div Interval = q + 1
      BY ClusterJobAssumption
    <2>2. time >= (q + 1) * Interval
      BY <1>1, <2>1 DEF NextRun
    <2> HIDE DEF q
    <2>3. time \div Interval >= q + 1
      BY <2>1, <2>2, ClusterJobAssumption
    <2> QED
      BY <1>1, <2>1, <2>3, ClusterJobAssumption DEF Apart, q
  <1>2. CASE ~job[p].rounded \/ last = 0
    BY <1>2, ClusterJobAssumption DEF NextRun, Apart
  <1> QED
    BY <1>1, <1>2

LEMMA InitJobInv == Init => JobInv
  <1> SUFFICES ASSUME Init PROVE JobInv
    OBVIOUS
  <1>1. Stopped \in Job
    BY ClusterJobAssumption DEF Stopped, Job
  <1>2. TypeOK
    <2>1. job \in [Clients -> Job]
      BY <1>1 DEF Init
    <2>2. now \in 1 .. MaxTime /\ 0 \in 0 .. MaxTime
      BY ClusterJobAssumption DEF Init
    <2>3. made \in [schedules : Nat, faults : Nat]
      BY DEF Init
    <2> QED
      BY <2>1, <2>2, <2>3 DEF Init, LockInit, TypeOK
  <1>3. LastFinishedIsLast
    BY NoClientAssumption DEF Init, LockInit, LastFinishedIsLast, Stopped, At
  <1> QED
    BY <1>2, <1>3 DEF Init, JobInv, Stopped, At

LEMMA TypesStep == TypeOK /\ [Next]_vars => TypeOK'
  <1> SUFFICES ASSUME TypeOK, [Next]_vars PROVE TypeOK'
    OBVIOUS
  <1> USE ClusterJobAssumption DEF At
  <1>1. CASE Tick \/ Replicate
    BY <1>1 DEF Tick, Replicate, TypeOK
  <1>2. CASE UNCHANGED vars
    BY <1>2 DEF vars, TypeOK
  <1>3. ASSUME NEW p \in Clients,
               \/ ScheduleAny(p) \/ Close(p) \/ Run(p) \/ Stop(p) \/ Crash(p)
               \/ readMetadataFails(p) \/ saveMetadataFails(p)
        PROVE  TypeOK'
    <2>1. job[p] \in Job /\ Stopped \in Job
      BY DEF TypeOK, Job, Stopped
    <2>0. now \in 0 .. MaxTime /\ now \in Nat
      BY DEF TypeOK
    <2>2. CASE ScheduleAny(p)
      <3>1. PICK rounded \in BOOLEAN : Schedule(p, rounded)
        BY <2>2 DEF ScheduleAny
      <3>2. [Stopped EXCEPT !.place = "waiting", !.rounded = rounded] \in Job
        BY <2>1 DEF Job
      <3> QED
        BY <3>1, <3>2 DEF Schedule, TypeOK
    <2>3. CASE Close(p)
      <3>1. [job[p] EXCEPT !.stopping = TRUE] \in Job
        BY <2>1 DEF Job
      <3> QED
        BY <2>3, <3>1 DEF Close, TypeOK
    <2>4. CASE Stop(p)
      BY <2>1, <2>4 DEF Stop, TypeOK
    <2>5. CASE Wake(p)
      <3>1. [job[p] EXCEPT !.place = "locking"] \in Job
        BY <2>1 DEF Job
      <3> QED
        BY <2>5, <3>1 DEF Wake, TypeOK
    <2>6. CASE readMetadata(p)
      <3>1. NextRun(p, replica) \in Nat
        BY NextRunType DEF TypeOK
      <3>2. /\ [job[p] EXCEPT !.place = "waiting", !.until = NextRun(p, replica)] \in Job
            /\ [job[p] EXCEPT !.place = "executing"] \in Job
        BY <2>1, <3>1 DEF Job
      <3> QED
        BY <2>6, <3>2 DEF readMetadata, Acquire, TypeOK
    <2>7. CASE readMetadataFails(p)
      <3>1. [job[p] EXCEPT !.place = "waiting", !.until = now] \in Job
        BY <2>0, <2>1 DEF Job
      <3> QED
        BY <2>7, <3>1 DEF readMetadataFails, Fault, TypeOK
    <2>8. CASE callback(p)
      <3>1. [job[p] EXCEPT !.place = "saving", !.finished = now] \in Job
        BY <2>0, <2>1 DEF Job
      <3> QED
        BY <2>8, <3>1 DEF callback, TypeOK
    <2>9. CASE saveMetadata(p) \/ saveMetadataFails(p)
      <3>1. job[p].finished \in 0 .. MaxTime /\ NextRun(p, job[p].finished) \in Nat
        BY <2>1, NextRunType DEF Job
      <3>2. [job[p] EXCEPT !.place = "waiting", !.until = NextRun(p, job[p].finished)] \in Job
        BY <2>1, <3>1 DEF Job
      <3>3. job' \in [Clients -> Job] /\ holder' \in Clients \cup {NoClient}
        BY <2>9, <3>2
           DEF saveMetadata, saveMetadataFails, WaitAgain, Release, TypeOK
      <3>4. {stored', replica'} \subseteq 0 .. MaxTime /\ unsaved' \in BOOLEAN
        BY <2>9, <3>1 DEF saveMetadata, saveMetadataFails, Store, TypeOK
      <3> QED
        BY <2>9, <3>3, <3>4 DEF saveMetadata, saveMetadataFails, Fault, TypeOK
    <2>10. CASE Crash(p)
      BY <2>1, <2>10 DEF Crash, Fault, TypeOK
    <2> QED
      BY <1>3, <2>2, <2>3, <2>4, <2>5, <2>6, <2>7, <2>8, <2>9, <2>10 DEF Run, ScheduleAny
  <1> QED
    BY <1>1, <1>2, <1>3 DEF Next, ScheduleAny

-----------------------------------------------------------------------------
LEMMA ScheduledWaits ==
  ASSUME TypeOK, NEW p \in Clients, ScheduleAny(p)
  PROVE  /\ job[p].place = "stopped" /\ job'[p].place = "waiting"
         /\ \A q \in Clients : q # p => job'[q] = job[q]
         /\ lastEnd' = lastEnd
  <1>1. PICK rounded \in BOOLEAN : Schedule(p, rounded)
    BY DEF ScheduleAny
  <1>2. [Stopped EXCEPT !.place = "waiting", !.rounded = rounded].place = "waiting"
    BY DEF Stopped
  <1> QED
    BY <1>1, <1>2 DEF Schedule, At, TypeOK

(* The goroutine that runs the callback, and saves, has the mutex.         *)
LEMMA HolderStep == TypeOK /\ HolderRuns /\ [Next]_vars => HolderRuns'
  <1> SUFFICES ASSUME TypeOK, HolderRuns, [Next]_vars PROVE HolderRuns'
    OBVIOUS
  <1> USE NoClientAssumption DEF TypeOK, HolderRuns, At, Acquire, Release
  <1>1. CASE Tick \/ Replicate \/ UNCHANGED vars
    BY <1>1 DEF Tick, Replicate, vars
  <1>2. ASSUME NEW p \in Clients, ScheduleAny(p) PROVE HolderRuns'
    BY <1>2 DEF ScheduleAny, Schedule, Stopped
  <1>3. ASSUME NEW p \in Clients, Close(p) PROVE HolderRuns'
    <2>1. \A q \in Clients : job'[q].place = job[q].place
      BY <1>3 DEF Close, Job
    <2> QED
      BY <1>3, <2>1 DEF Close
  <1>4. ASSUME NEW p \in Clients, Stop(p) PROVE HolderRuns'
    BY <1>4 DEF Stop, Stopped
  <1>5. ASSUME NEW p \in Clients, Wake(p) PROVE HolderRuns'
    BY <1>5 DEF Wake
  <1>6. ASSUME NEW p \in Clients, readMetadata(p) PROVE HolderRuns'
    <2>1. CASE now < NextRun(p, replica)
      <3>1. /\ job[p].place = "locking" /\ job'[p].place = "waiting"
            /\ holder = NoClient /\ holder' = NoClient
            /\ \A q \in Clients : q # p => job'[q] = job[q]
        BY <1>6, <2>1 DEF readMetadata, Job
      <3> QED
        BY <3>1
    <2>2. CASE ~(now < NextRun(p, replica))
      <3>1. /\ job[p].place = "locking" /\ job'[p].place = "executing"
            /\ holder = NoClient /\ holder' = p
            /\ \A q \in Clients : q # p => job'[q] = job[q]
        BY <1>6, <2>2 DEF readMetadata, Job
      <3> QED
        BY <3>1
    <2> QED
      BY <2>1, <2>2
  <1>7. ASSUME NEW p \in Clients, readMetadataFails(p) PROVE HolderRuns'
    BY <1>7 DEF readMetadataFails
  <1>8. ASSUME NEW p \in Clients, callback(p) PROVE HolderRuns'
    BY <1>8 DEF callback
  <1>9. ASSUME NEW p \in Clients, saveMetadata(p) \/ saveMetadataFails(p)
        PROVE  HolderRuns'
    <2>1. /\ job[p].place = "saving" /\ holder = p /\ holder' = NoClient
          /\ job' = [job EXCEPT ![p].place = "waiting",
                                ![p].until = NextRun(p, job[p].finished)]
      BY <1>9 DEF saveMetadata, saveMetadataFails, WaitAgain
    <2>2. /\ job'[p].place = "waiting"
          /\ \A q \in Clients : q # p => job'[q] = job[q]
      BY <2>1 DEF Job
    <2> QED
      BY <2>1, <2>2
  <1>10. ASSUME NEW p \in Clients, Crash(p) PROVE HolderRuns'
    BY <1>10 DEF Crash, Stopped
  <1> QED
    BY <1>1, <1>2, <1>3, <1>4, <1>5, <1>6, <1>7, <1>8, <1>9, <1>10 DEF Next, Run, ScheduleAny

(* What is saved is the end of the callback that its goroutine has run,    *)
(* and no other has run since.                                             *)
LEMMA SavesLastStep ==
  TypeOK /\ HolderRuns /\ SavesLast /\ [Next]_vars => SavesLast'
  <1> SUFFICES ASSUME TypeOK, HolderRuns, SavesLast, [Next]_vars PROVE SavesLast'
    OBVIOUS
  <1> USE DEF TypeOK, SavesLast, At
  <1>1. CASE Tick \/ Replicate \/ UNCHANGED vars
    BY <1>1 DEF Tick, Replicate, vars
  <1>2. ASSUME NEW p \in Clients, callback(p) PROVE SavesLast'
    <2>1. \A q \in Clients : q # p => ~At(q, "saving")
      BY <1>2 DEF callback, HolderRuns
    <2> QED
      BY <1>2, <2>1 DEF callback, Job
  <1>3. ASSUME NEW p \in Clients, ScheduleAny(p) \/ Stop(p) \/ Crash(p) PROVE SavesLast'
    <2>1. /\ job'[p].place # "saving"
          /\ \A q \in Clients : q # p => job'[q] = job[q]
          /\ lastEnd' = lastEnd
      <3>1. CASE ScheduleAny(p)
        BY <3>1, ScheduledWaits
      <3>2. CASE Stop(p) \/ Crash(p)
        BY <3>2 DEF Stop, Crash, Stopped
      <3> QED
        BY <1>3, <3>1, <3>2
    <2> QED
      BY <2>1
  <1>4. ASSUME NEW p \in Clients, Close(p) PROVE SavesLast'
    <2>1. \A q \in Clients : /\ job'[q].place = job[q].place
                             /\ job'[q].finished = job[q].finished
      BY <1>4 DEF Close, Job
    <2> QED
      BY <1>4, <2>1 DEF Close
  <1>5. ASSUME NEW p \in Clients,
               Wake(p) \/ readMetadataFails(p) \/ readMetadata(p)
        PROVE  SavesLast'
    <2>1. /\ job'[p].place # "saving"
          /\ \A q \in Clients : q # p => job'[q] = job[q]
          /\ lastEnd' = lastEnd
      <3>1. CASE Wake(p)
        BY <3>1 DEF Wake, Job
      <3>2. CASE readMetadataFails(p)
        BY <3>2 DEF readMetadataFails, Job
      <3>3. CASE readMetadata(p)
        BY <3>3 DEF readMetadata, Job
      <3> QED
        BY <1>5, <3>1, <3>2, <3>3
    <2> QED
      BY <2>1
  <1>6. ASSUME NEW p \in Clients, saveMetadata(p) \/ saveMetadataFails(p)
        PROVE  SavesLast'
    <2>1. /\ job' = [job EXCEPT ![p].place = "waiting",
                                ![p].until = NextRun(p, job[p].finished)]
          /\ lastEnd' = lastEnd
      BY <1>6 DEF saveMetadata, saveMetadataFails, WaitAgain
    <2>2. /\ job'[p].place = "waiting"
          /\ \A q \in Clients : q # p => job'[q] = job[q]
      BY <2>1 DEF Job
    <2> QED
      BY <2>1, <2>2
  <1> QED
    BY <1>1, <1>2, <1>3, <1>4, <1>5, <1>6 DEF Next, Run, ScheduleAny

(* The metadata is of the last run.                                        *)
LEMMA LastStep ==
  TypeOK /\ SavesLast /\ LastIsStored /\ [Next]_vars => LastIsStored'
  <1> SUFFICES ASSUME TypeOK, SavesLast, LastIsStored, [Next]_vars
               PROVE  LastIsStored'
    OBVIOUS
  <1> USE DEF TypeOK, LastIsStored, At
  <1>1. CASE Tick \/ Replicate \/ UNCHANGED vars
    BY <1>1 DEF Tick, Replicate, vars
  <1>2. ASSUME NEW p \in Clients, callback(p) PROVE LastIsStored'
    <2>1. job'[p].place = "saving" /\ job'[p].finished = lastEnd'
      BY <1>2 DEF callback, Job
    <2> QED
      BY <2>1
  <1>3. ASSUME NEW p \in Clients, saveMetadata(p) \/ saveMetadataFails(p)
        PROVE  LastIsStored'
    BY <1>3 DEF saveMetadata, saveMetadataFails, Store, SavesLast
  <1>4. ASSUME NEW p \in Clients, Crash(p) PROVE LastIsStored'
    BY <1>4 DEF Crash
  <1>5. ASSUME NEW p \in Clients, Close(p) PROVE LastIsStored'
    <2>1. \A q \in Clients : /\ job'[q].place = job[q].place
                             /\ job'[q].finished = job[q].finished
      BY <1>5 DEF Close, Job
    <2> QED
      BY <1>5, <2>1 DEF Close
  <1>6. ASSUME NEW p \in Clients,
               \/ ScheduleAny(p) \/ Stop(p) \/ Wake(p)
               \/ readMetadata(p) \/ readMetadataFails(p)
        PROVE  LastIsStored'
    <2>1. /\ ~At(p, "saving")
          /\ \A q \in Clients : q # p => job'[q] = job[q]
          /\ stored' = stored /\ lastEnd' = lastEnd /\ unsaved' = unsaved
      BY <1>6 DEF ScheduleAny, Schedule, Stop, Wake, readMetadata, readMetadataFails
    <2> QED
      BY <2>1
  <1> QED
    BY <1>1, <1>2, <1>3, <1>4, <1>5, <1>6 DEF Next, Run, ScheduleAny

-----------------------------------------------------------------------------
(* The invariant: the holder of the mutex is the one that runs, and the    *)
(* metadata is of the last run unless it was not saved.                    *)
THEOREM JobInvariant == Spec => []JobInv
  <1>1. Init => JobInv
    BY InitJobInv
  <1>2. JobInv /\ [Next]_vars => JobInv'
    <2> SUFFICES ASSUME JobInv, [Next]_vars PROVE JobInv'
      OBVIOUS
    <2>1. TypeOK /\ HolderRuns /\ LastIsStored /\ SavesLast
      BY JobInvParts
    <2>2. TypeOK' /\ HolderRuns' /\ LastIsStored' /\ SavesLast'
      BY <2>1, TypesStep, HolderStep, LastStep, SavesLastStep
    <2> QED
      BY <2>2 DEF JobInv, LastFinishedIsLast, HolderRuns, LastIsStored,
                  SavesLast
  <1> QED
    BY <1>1, <1>2, PTL DEF Spec

(* The metadata belongs to the holder of the mutex.                        *)
THEOREM LastFinished == Spec => []LastFinishedIsLast
  <1>1. JobInv => LastFinishedIsLast
    BY DEF JobInv
  <1> QED
    BY <1>1, JobInvariant, PTL

(* A callback that begins has been waited for, wherever the last one ran.  *)
LEMMA RunsApartStep ==
  ASSUME JobInv, Next, NEW p \in Clients,
         ~At(p, "executing"), At(p, "executing")', ~unsaved, replica = stored
  PROVE  Apart(p, lastEnd, now)
  <1> USE DEF At
  <1>1. TypeOK /\ HolderRuns /\ LastIsStored
    BY JobInvParts
  <1>2. readMetadata(p) /\ ~(now < NextRun(p, replica))
    <2>1. CASE Tick \/ Replicate
      BY <2>1 DEF Tick, Replicate
    <2>2. ASSUME NEW q \in Clients, readMetadata(q)
          PROVE  q = p /\ ~(now < NextRun(q, replica))
      <3>1. \A r \in Clients : r # q => job'[r] = job[r]
        BY <1>1, <2>2 DEF readMetadata, TypeOK, Job
      <3>2. ASSUME now < NextRun(q, replica) PROVE job'[q].place = "waiting"
        BY <1>1, <2>2, <3>2 DEF readMetadata, TypeOK, Job
      <3> QED
        BY <3>1, <3>2
    <2>3. ASSUME NEW q \in Clients, saveMetadata(q) \/ saveMetadataFails(q)
          PROVE  FALSE
      <3>1. job' = [job EXCEPT ![q].place = "waiting",
                               ![q].until = NextRun(q, job[q].finished)]
        BY <2>3 DEF saveMetadata, saveMetadataFails, WaitAgain
      <3>2. /\ job'[q].place = "waiting"
            /\ \A r \in Clients : r # q => job'[r] = job[r]
        BY <1>1, <3>1 DEF TypeOK, Job
      <3> QED
        BY <3>2
    <2>4. ASSUME NEW q \in Clients,
                 \/ ScheduleAny(q) \/ Stop(q) \/ Crash(q) \/ Wake(q)
                 \/ readMetadataFails(q) \/ callback(q)
          PROVE  FALSE
      <3>1. /\ job'[q].place # "executing"
            /\ \A r \in Clients : r # q => job'[r] = job[r]
        BY <1>1, <2>4, ScheduledWaits
           DEF Stop, Crash, Wake, readMetadataFails, callback, Stopped, TypeOK, Job
      <3> QED
        BY <3>1
    <2>5. ASSUME NEW q \in Clients, Close(q) PROVE FALSE
      <3>1. \A r \in Clients : job'[r].place = job[r].place
        BY <1>1, <2>5 DEF Close, TypeOK, Job
      <3> QED
        BY <3>1
    <2> QED
      BY <2>1, <2>2, <2>3, <2>4, <2>5 DEF Next, Run, ScheduleAny
  <1>3. holder = NoClient
    BY <1>2 DEF readMetadata
  <1>4. stored = lastEnd
    BY <1>1, <1>3, NoClientAssumption DEF LastIsStored, HolderRuns
  <1>5. replica = lastEnd
    BY <1>4
  <1>6. /\ lastEnd \in Nat /\ now \in Nat /\ NextRun(p, lastEnd) \in Nat
        /\ job[p].rounded \in BOOLEAN
    BY <1>1, NextRunType DEF TypeOK, Job
  <1> QED
    BY <1>2, <1>5, <1>6, NextRunApart

(* Runs are apart, whichever instances they are on and whichever rules     *)
(* these follow.                                                           *)
THEOREM RunsAreApart == Spec => RunsApart
  <1>1. JobInv /\ [Next]_vars =>
          [\A p \in Clients :
             ~At(p, "executing") /\ At(p, "executing")' /\ ~unsaved /\ replica = stored =>
                 Apart(p, lastEnd, now)]_vars
    BY RunsApartStep
  <1> QED
    BY <1>1, JobInvariant, PTL DEF Spec, RunsApart
=============================================================================
