---------------------------- MODULE JobOnceProofs ----------------------------
(***************************************************************************)
(* The jobs that run once, for any number of servers, objects, calls and   *)
(* schedules, and however far the replicas are behind: the callback runs   *)
(* under the mutex and not before its time. Of the runs whose read of the  *)
(* metadata was not behind, each is of what is still scheduled, and there  *)
(* is one of a schedule, and one more for each fault.                      *)
(***************************************************************************)
EXTENDS JobOnce, TLAPS

USE DEF store, Store

LEMMA InitTypes == Init => TypeOK
  BY JobOnceAssumption
     DEF Init, LockInit, TypeOK, Job, FreeJob, Call, NoCall, Saved

LEMMA EndedJobType ==
  ASSUME TypeOK, NEW j \in Jobs
  PROVE  EndedJob(j) \in Job
  BY JobOnceAssumption DEF TypeOK, EndedJob, FreeJob, Job

(* What a run goroutine has read, and whether that was behind.             *)
LEMMA ReadShape ==
  ASSUME TypeOK, NEW j \in Jobs, ReadMetadata(j)
  PROVE  /\ job' \in [Jobs -> Job]
         /\ \A i \in Jobs : i # j => job'[i] = job[i]
         /\ job'[j].place \in {"executing", "deleting"}
         /\ job'[j].runAt = job[j].runAt
         /\ job'[j].server = job[j].server
         /\ job'[j].done = job[j].done
         /\ job'[j].place = "executing" /\ ~job'[j].behind => meta = job[j].runAt
  <1>1. PICK place \in {"executing", "deleting"}, behind \in BOOLEAN :
           /\ job' = [job EXCEPT ![j].place = place, ![j].behind = behind]
           /\ place = "executing" /\ ~behind => meta = job[j].runAt
    BY DEF ReadMetadata
  <1> DEFINE new == [job[j] EXCEPT !.place = place, !.behind = behind]
  <1>2. job \in [Jobs -> Job] /\ job[j] \in Job
    BY DEF TypeOK
  <1>3. /\ new \in Job
        /\ new.place = place /\ new.behind = behind
        /\ new.runAt = job[j].runAt /\ new.server = job[j].server /\ new.done = job[j].done
    BY <1>2 DEF Job
  <1>4. job' = [job EXCEPT ![j] = new]
    BY <1>1, <1>2 DEF Job
  <1> HIDE DEF new
  <1>5. job'[j] = new /\ job' \in [Jobs -> Job] /\ \A i \in Jobs : i # j => job'[i] = job[i]
    BY <1>2, <1>3, <1>4
  <1> QED
    BY <1>1, <1>3, <1>5

LEMMA DeletedType ==
  ASSUME NEW r \in Job
  PROVE  [r EXCEPT !.place = "forgetting", !.behind = FALSE] \in Job
  BY DEF Job

(* The steps of a run goroutine.                                           *)
LEMMA RunTypes ==
  ASSUME TypeOK, NEW j \in Jobs, Run(j) \/ Done(j) \/ ReadFails(j)
  PROVE  TypeOK'
  <1> USE JobOnceAssumption DEF TypeOK, Acquire, Release, Job
  <1>0. \A place \in {"locking", "executing", "deleting", "forgetting"} :
           [job[j] EXCEPT !.place = place] \in Job
    <2>1. job[j] \in Job
      OBVIOUS
    <2> QED
      BY <2>1
  <1>1. CASE Fire(j)
    BY <1>0, <1>1 DEF Fire
  <1>2. CASE ReadMetadata(j)
    BY <1>2, ReadShape DEF ReadMetadata
  <1>3. CASE executeJob(j)
    <2>1. job' \in [Jobs -> Job]
      BY <1>0, <1>3 DEF executeJob
    <2>2. history' \in [runs : Nat, dropped : BOOLEAN]
      BY <1>3 DEF executeJob, Counted
    <2> QED
      BY <1>3, <2>1, <2>2 DEF executeJob
  <1>4. CASE DeleteMetadata(j)
    <2>1. job' \in [Jobs -> Job]
      <3>1. [job[j] EXCEPT !.place = "forgetting", !.behind = FALSE] \in Job
        BY DeletedType
      <3> QED
        BY <1>4, <3>1 DEF DeleteMetadata
    <2>2. made' \in [schedules : Nat, cancels : Nat, faults : Nat]
      BY <1>4 DEF DeleteMetadata, Erase, Fault
    <2>3. meta' \in RunAts \cup {0} /\ readable' \subseteq RunAts \cup {0}
      BY <1>4 DEF DeleteMetadata, Erase
    <2>4. history' \in [runs : Nat, dropped : BOOLEAN]
      <3>1. PICK dropped \in BOOLEAN : history' = [history EXCEPT !.dropped = dropped]
        BY <1>4 DEF DeleteMetadata
      <3> QED
        BY <3>1
    <2> QED
      BY <1>4, <2>1, <2>2, <2>3, <2>4 DEF DeleteMetadata
  <1>5. CASE Forget(j)
    <2>1. [job[j] EXCEPT !.done = TRUE, !.place = "waiting"] \in Job
      <3>1. job[j] \in Job
        OBVIOUS
      <3> QED
        BY <3>1 DEF Job
    <2>2. EndedJob(j) \in Job
      BY EndedJobType
    <2>3. job' \in [Jobs -> Job]
      BY <1>5, <2>1, <2>2 DEF Forget
    <2>4. holder' \in Clients \cup {NoClient} /\ active' \in [Servers -> Jobs \cup {None}]
      BY <1>5 DEF Forget
    <2> QED
      BY <1>5, <2>3, <2>4 DEF Forget
  <1>6. CASE Done(j)
    BY <1>6, EndedJobType DEF Done
  <1>7. CASE ReadFails(j)
    BY <1>7 DEF ReadFails, Fault
  <1> QED
    BY <1>1, <1>2, <1>3, <1>4, <1>5, <1>6, <1>7 DEF Run

LEMMA runAndTrackTypes ==
  ASSUME TypeOK, NEW s \in Servers \cup {None}, NEW runAt \in RunAts, NEW own \in BOOLEAN,
         runAndTrack(s, runAt, own)
  PROVE  job' \in [Jobs -> Job] /\ active' \in [Servers -> Jobs \cup {None}]
  <1> DEFINE new == IF active[s] = None
                      THEN [FreeJob EXCEPT !.place = "waiting", !.server = s, !.own = own,
                                           !.runAt = runAt, !.overdue = now >= runAt]
                      ELSE [FreeJob EXCEPT !.place = "idle", !.server = s, !.own = own]
  <1>1. PICK j \in Jobs :
          /\ job' = [job EXCEPT ![j] = new]
          /\ active' = [active EXCEPT ![s] = IF @ = None THEN j ELSE @]
    BY DEF runAndTrack, Unused
  <1>2. new \in Job
    <2>1. (now >= runAt) \in BOOLEAN
      OBVIOUS
    <2> DEFINE late == now >= runAt
    <2> HIDE DEF late
    <2> QED
      BY <2>1, JobOnceAssumption DEF FreeJob, Job, late
  <1> HIDE DEF new
  <1>3. job' \in [Jobs -> Job]
    BY <1>1, <1>2 DEF TypeOK
  <1>4. active' \in [Servers -> Jobs \cup {None}]
    BY <1>1 DEF TypeOK
  <1> QED
    BY <1>3, <1>4

LEMMA DoneType ==
  ASSUME NEW r \in Job
  PROVE  [r EXCEPT !.done = TRUE] \in Job
  BY DEF Job

LEMMA MadeType ==
  ASSUME TypeOK,
         \/ made' = [made EXCEPT !.schedules = @ + 1]
         \/ made' = [made EXCEPT !.cancels = @ + 1]
  PROVE  made' \in [schedules : Nat, cancels : Nat, faults : Nat]
  BY DEF TypeOK

LEMMA CallTypes ==
  ASSUME TypeOK, WaitsForItsTime, NEW k \in Calls, CallStep(k)
  PROVE  TypeOK'
  <1> USE JobOnceAssumption DEF CallAt
  <1>1. /\ call[k] \in Call
        /\ NoCall \in Call
        /\ Saved \in [runs : Nat, dropped : BOOLEAN]
        /\ call[k].place \in {"save", "track"} => call[k].runAt \in RunAts
    <2>1. call[k] \in Call /\ NoCall \in Call
      BY DEF TypeOK, Call, NoCall
    <2>2. Saved \in [runs : Nat, dropped : BOOLEAN]
      BY DEF TypeOK, Saved
    <2>3. call[k].place \in {"save", "track"} => call[k].runAt \in RunAts
      BY <2>1 DEF Call, WaitsForItsTime
    <2> QED
      BY <2>1, <2>2, <2>3
  <1>2. /\ [call[k] EXCEPT !.place = "track"] \in Call
        /\ [call[k] EXCEPT !.place = "forget"] \in Call
        /\ [call[k] EXCEPT !.place = "join"] \in Call
    BY <1>1 DEF Call
  <1>3. CASE saveMetadata(k)
    <2>1. call' \in [Calls -> Call]
      BY <1>1, <1>2, <1>3 DEF TypeOK, saveMetadata
    <2> QED
      BY <1>1, <1>3, <2>1 DEF TypeOK, Call, saveMetadata
  <1>4. CASE Track(k)
    <2>1. job' \in [Jobs -> Job] /\ active' \in [Servers -> Jobs \cup {None}]
      <3>1. call[k].server \in Servers \cup {None}
        BY <1>1 DEF Call
      <3> QED
        BY <1>1, <1>4, <3>1, runAndTrackTypes DEF Track
    <2>2. call' \in [Calls -> Call]
      BY <1>1, <1>4 DEF TypeOK, Track
    <2> QED
      BY <1>4, <2>1, <2>2 DEF TypeOK, Track
  <1>5. CASE CancelLock(k)
    <2>1. call' \in [Calls -> Call]
      BY <1>2, <1>5 DEF TypeOK, CancelLock
    <2>2. /\ meta' \in RunAts \cup {0} /\ readable' \subseteq RunAts \cup {0}
          /\ made' \in [schedules : Nat, cancels : Nat, faults : Nat]
      BY <1>5 DEF TypeOK, CancelLock, Erase, Fault
    <2> QED
      BY <1>1, <1>5, <2>1, <2>2 DEF TypeOK, CancelLock, Acquire
  <1>6. CASE CancelForget(k)
    <2>1. call' \in [Calls -> Call]
      BY <1>2, <1>6 DEF TypeOK, CancelForget
    <2>2. job' \in [Jobs -> Job]
      <3>1. CASE call[k].job \in Jobs
        <4>1. [job[call[k].job] EXCEPT !.done = TRUE] \in Job
          BY <3>1, DoneType DEF TypeOK
        <4> QED
          BY <1>6, <4>1 DEF TypeOK, CancelForget
      <3>2. CASE call[k].job \notin Jobs
        <4>1. job' = job
          BY <1>6, <3>2 DEF TypeOK, CancelForget
        <4> QED
          BY <4>1 DEF TypeOK
      <3> QED
        BY <3>1, <3>2
    <2>3. active' \in [Servers -> Jobs \cup {None}]
      BY <1>6 DEF TypeOK, CancelForget
    <2> QED
      BY <1>6, <2>1, <2>2, <2>3 DEF TypeOK, CancelForget
  <1>7. CASE CancelJoin(k)
    <2>1. call' \in [Calls -> Call]
      BY <1>1, <1>7 DEF TypeOK, CancelJoin
    <2> QED
      BY <1>7, <2>1 DEF TypeOK, CancelJoin, Release
  <1>8. CASE CancelDelete(k)
    <2>1. call' \in [Calls -> Call]
      BY <1>1, <1>8 DEF TypeOK, CancelDelete
    <2>2. /\ meta' \in RunAts \cup {0} /\ readable' \subseteq RunAts \cup {0}
          /\ made' \in [schedules : Nat, cancels : Nat, faults : Nat]
      BY <1>8 DEF TypeOK, CancelDelete, Erase, Fault
    <2> QED
      BY <1>1, <1>8, <2>1, <2>2 DEF TypeOK, CancelDelete
  <1> QED
    BY <1>3, <1>4, <1>5, <1>6, <1>7, <1>8 DEF CallStep

(* A call begins, or saving fails.                                         *)
LEMMA NewCallTypes ==
  ASSUME TypeOK, WaitsForItsTime, NEW k \in Calls,
         \/ saveMetadataFails(k)
         \/ \E s \in Servers, runAt \in RunAts : ScheduleOnce(k, s, runAt)
         \/ \E j \in Jobs : CancelJob(k, j)
         \/ \E s \in Servers : CancelKey(k, s)
  PROVE  TypeOK'
  <1> USE JobOnceAssumption DEF TypeOK
  <1>1. CASE saveMetadataFails(k)
    <2>1. call' \in [Calls -> Call]
      BY <1>1 DEF saveMetadataFails, Call, NoCall
    <2>2. /\ meta' \in RunAts \cup {0} /\ readable' \subseteq RunAts \cup {0}
          /\ made' \in [schedules : Nat, cancels : Nat, faults : Nat]
      BY <1>1 DEF saveMetadataFails, CallAt, Fault, Call
    <2>3. history' \in [runs : Nat, dropped : BOOLEAN]
      <3>1. Saved \in [runs : Nat, dropped : BOOLEAN]
        BY DEF Saved
      <3> QED
        BY <1>1, <3>1 DEF saveMetadataFails
    <2> QED
      BY <1>1, <2>1, <2>2, <2>3 DEF saveMetadataFails
  <1>2. ASSUME NEW s \in Servers, NEW runAt \in RunAts, ScheduleOnce(k, s, runAt)
        PROVE  TypeOK'
    <2>1. call' \in [Calls -> Call]
      BY <1>2 DEF ScheduleOnce, Call, NoCall
    <2>2. made' \in [schedules : Nat, cancels : Nat, faults : Nat]
      <3>1. made' = [made EXCEPT !.schedules = @ + 1]
        BY <1>2 DEF ScheduleOnce
      <3> QED
        BY <3>1, MadeType
    <2> QED
      BY <1>2, <2>1, <2>2 DEF ScheduleOnce
  <1>3. ASSUME NEW j \in Jobs, CancelJob(k, j) PROVE TypeOK'
    <2>1. call' \in [Calls -> Call]
      BY <1>3 DEF CancelJob, Call, NoCall, Job
    <2>2. made' \in [schedules : Nat, cancels : Nat, faults : Nat]
      <3>1. made' = [made EXCEPT !.cancels = @ + 1]
        BY <1>3 DEF CancelJob, Canceling
      <3> QED
        BY <3>1, MadeType
    <2> QED
      BY <1>3, <2>1, <2>2 DEF CancelJob
  <1>4. ASSUME NEW s \in Servers, CancelKey(k, s) PROVE TypeOK'
    <2>1. call' \in [Calls -> Call]
      BY <1>4 DEF CancelKey, Call, NoCall
    <2>2. made' \in [schedules : Nat, cancels : Nat, faults : Nat]
      <3>1. made' = [made EXCEPT !.cancels = @ + 1]
        BY <1>4 DEF CancelKey, Canceling
      <3> QED
        BY <3>1, MadeType
    <2> QED
      BY <1>4, <2>1, <2>2 DEF CancelKey
  <1> QED
    BY <1>1, <1>2, <1>3, <1>4

(* Pollers, crashes and time.                                              *)
LEMMA PollTypes ==
  ASSUME TypeOK, NEW s \in Servers, PollStep(s)
  PROVE  TypeOK'
  <1> USE JobOnceAssumption DEF TypeOK
  <1>1. CASE ListScheduledJobs(s)
    BY <1>1 DEF ListScheduledJobs
  <1>2. CASE scheduleNewJobsFromDB(s)
    <2>1. polled[s] \in RunAts
      BY <1>2 DEF scheduleNewJobsFromDB
    <2>2. job' \in [Jobs -> Job] /\ active' \in [Servers -> Jobs \cup {None}]
      BY <1>2, <2>1, runAndTrackTypes DEF scheduleNewJobsFromDB
    <2> QED
      BY <1>2, <2>2 DEF scheduleNewJobsFromDB
  <1> QED
    BY <1>1, <1>2 DEF PollStep

LEMMA CrashTypes ==
  ASSUME TypeOK, NEW s \in Servers, Crash(s)
  PROVE  TypeOK'
  <1> USE DEF TypeOK, Crash
  <1>1. job' \in [Jobs -> Job]
    BY DEF FreeJob, Job
  <1>2. call' \in [Calls -> Call]
    BY DEF NoCall, Call
  <1>3. made' \in [schedules : Nat, cancels : Nat, faults : Nat]
    BY DEF Fault
  <1>4. active' \in [Servers -> Jobs \cup {None}] /\ polled' \in [Servers -> RunAts \cup {0}]
    OBVIOUS
  <1>5. readers' \subseteq Calls
    OBVIOUS
  <1>6. holder' \in Clients \cup {NoClient}
    OBVIOUS
  <1> QED
    BY <1>1, <1>2, <1>3, <1>4, <1>5, <1>6

LEMMA TypesStep == TypeOK /\ WaitsForItsTime /\ [Next]_vars => TypeOK'
  <1> SUFFICES ASSUME TypeOK, WaitsForItsTime, [Next]_vars PROVE TypeOK'
    OBVIOUS
  <1>1. CASE Tick
    BY <1>1, JobOnceAssumption DEF Tick, TypeOK
  <1>2. CASE Replicate
    BY <1>2 DEF Replicate, TypeOK
  <1>3. CASE UNCHANGED vars
    BY <1>3 DEF vars, TypeOK
  <1> QED
    BY <1>1, <1>2, <1>3, RunTypes, CallTypes, NewCallTypes, PollTypes, CrashTypes DEF Next

-----------------------------------------------------------------------------
(* The mutex changes hands only between a Lock and an Unlock.              *)
LEMMA EndedJobPlace ==
  ASSUME NEW j \in Jobs
  PROVE  EndedJob(j).place \in {"free", "ended"}
  BY DEF EndedJob, FreeJob

(* Only an object out of use is taken by runAndTrack.                      *)
TakesUnused(runAt) ==
    \A j \in Jobs :
        \/ job'[j] = job[j]
        \/ /\ job[j].place \in {"free", "idle", "ended"}
           /\ \/ job'[j].place = "waiting" /\ job'[j].runAt = runAt
              \/ job'[j].place = "idle"

LEMMA runAndTrackPlace ==
  ASSUME TypeOK, NEW s, NEW runAt, NEW own \in BOOLEAN, runAndTrack(s, runAt, own)
  PROVE  TakesUnused(runAt)
  <1> DEFINE new == IF active[s] = None
                      THEN [FreeJob EXCEPT !.place = "waiting", !.server = s, !.own = own,
                                           !.runAt = runAt, !.overdue = now >= runAt]
                      ELSE [FreeJob EXCEPT !.place = "idle", !.server = s, !.own = own]
  <1>1. PICK j \in Unused : job' = [job EXCEPT ![j] = new]
    BY DEF runAndTrack
  <1>2. (new.place = "waiting" /\ new.runAt = runAt) \/ new.place = "idle"
    BY DEF FreeJob
  <1> HIDE DEF new
  <1>3. job'[j] = new /\ \A i \in Jobs : i # j => job'[i] = job[i]
    BY <1>1 DEF TypeOK, Unused
  <1>4. job[j].place \in {"free", "idle", "ended"}
    BY DEF Unused
  <1> QED
    BY <1>2, <1>3, <1>4 DEF TakesUnused

LEMMA TrackTakesUnused ==
  ASSUME TypeOK, NEW k \in Calls, Track(k)
  PROVE  TakesUnused(call[k].runAt)
  <1>1. runAndTrack(call[k].server, call[k].runAt, TRUE)
    BY DEF Track
  <1> QED
    BY <1>1, runAndTrackPlace

LEMMA PollTakesUnused ==
  ASSUME TypeOK, NEW s \in Servers, scheduleNewJobsFromDB(s)
  PROVE  TakesUnused(polled[s])
  <1>1. CASE runAndTrack(s, polled[s], FALSE)
    BY <1>1, runAndTrackPlace
  <1>2. CASE job' = job
    BY <1>2 DEF TakesUnused
  <1> QED
    BY <1>1, <1>2 DEF scheduleNewJobsFromDB

LEMMA MutexStep ==
  TypeOK /\ MutexIsHeld /\ [Next]_vars => MutexIsHeld'
  <1> SUFFICES ASSUME TypeOK, MutexIsHeld, [Next]_vars PROVE MutexIsHeld'
    OBVIOUS
  <1> USE JobOnceAssumption, NoClientAssumption
      DEF TypeOK, MutexIsHeld, At, CallAt, Acquire, Release
  <1>1. ASSUME NEW j \in Jobs, Fire(j) \/ executeJob(j) PROVE MutexIsHeld'
    <2>1. CASE Fire(j)
      BY <2>1 DEF Fire
    <2>2. CASE executeJob(j)
      BY <2>2 DEF executeJob
    <2> QED
      BY <1>1, <2>1, <2>2
  <1>2. ASSUME NEW j \in Jobs, ReadMetadata(j) PROVE MutexIsHeld'
    BY <1>2 DEF ReadMetadata
  <1>3. ASSUME NEW j \in Jobs, ReadFails(j) PROVE MutexIsHeld'
    <2>1. /\ holder = NoClient /\ job[j].place = "locking" /\ call' = call
          /\ \A i \in Jobs : i # j => job'[i] = job[i]
      BY <1>3 DEF ReadFails
    <2>2. CASE job[j].numFails >= maxNumFails
      <3>1. holder' = j /\ job'[j].place = "deleting"
        BY <1>3, <2>2 DEF ReadFails, Job
      <3> QED
        BY <2>1, <3>1
    <2>3. CASE ~(job[j].numFails >= maxNumFails)
      <3>1. holder' = holder /\ job'[j].place = "waiting"
        BY <1>3, <2>3 DEF ReadFails, Job
      <3> QED
        BY <2>1, <3>1
    <2> QED
      BY <2>2, <2>3
  <1>4. ASSUME NEW j \in Jobs, DeleteMetadata(j) PROVE MutexIsHeld'
    BY <1>4 DEF DeleteMetadata
  <1>5. ASSUME NEW j \in Jobs, Done(j) PROVE MutexIsHeld'
    BY <1>5, EndedJobPlace DEF Done
  <1>6. ASSUME NEW j \in Jobs, Forget(j) PROVE MutexIsHeld'
    <2>1. job'[j].place \in {"free", "ended", "waiting"}
      BY <1>6, EndedJobPlace DEF Forget
    <2>2. \A i \in Jobs : i # j => job'[i] = job[i]
      BY <1>6 DEF Forget
    <2> QED
      BY <1>6, <2>1, <2>2 DEF Forget
  <1>7. ASSUME NEW k \in Calls, saveMetadata(k) \/ saveMetadataFails(k)
        PROVE  MutexIsHeld'
    <2>1. call'[k].place \in {"track", "none"} /\ call[k].place = "save"
      <3>1. CASE saveMetadata(k)
        <4>1. CASE meta = 0
          <5>1. call' = [call EXCEPT ![k].place = "track"] /\ call[k].place = "save"
            BY <3>1, <4>1 DEF saveMetadata
          <5>2. call[k] \in Call
            OBVIOUS
          <5> QED
            BY <5>1, <5>2 DEF Call
        <4>2. CASE meta # 0
          BY <3>1, <4>2 DEF saveMetadata, NoCall
        <4> QED
          BY <4>1, <4>2
      <3>2. CASE saveMetadataFails(k)
        BY <3>2 DEF saveMetadataFails, NoCall
      <3> QED
        BY <1>7, <3>1, <3>2
    <2>2. \A m \in Calls : m # k => call'[m] = call[m]
      BY <1>7 DEF saveMetadata, saveMetadataFails
    <2>3. holder' = holder
      BY <1>7 DEF saveMetadata, saveMetadataFails
    <2>4. job' = job
      BY <1>7 DEF saveMetadata, saveMetadataFails
    <2> QED
      BY <2>1, <2>2, <2>3, <2>4
  <1>8. ASSUME NEW k \in Calls, Track(k) PROVE MutexIsHeld'
    <2>1. TakesUnused(call[k].runAt)
      BY <1>8, TrackTakesUnused
    <2> QED
      BY <1>8, <2>1 DEF Track, NoCall, TakesUnused
  <1>9. ASSUME NEW k \in Calls, CancelLock(k) PROVE MutexIsHeld'
    BY <1>9 DEF CancelLock
  <1>10. ASSUME NEW k \in Calls, CancelForget(k) PROVE MutexIsHeld'
    <2>1. \A j \in Jobs : job'[j].place = job[j].place
      BY <1>10 DEF CancelForget, Job
    <2> QED
      BY <1>10, <2>1 DEF CancelForget
  <1>11. ASSUME NEW k \in Calls, CancelJoin(k) \/ CancelDelete(k)
         PROVE  MutexIsHeld'
    BY <1>11 DEF CancelJoin, CancelDelete, NoCall
  <1>12. ASSUME NEW k \in Calls, NEW s \in Servers, NEW runAt \in RunAts,
                ScheduleOnce(k, s, runAt)
         PROVE  MutexIsHeld'
    BY <1>12 DEF ScheduleOnce, NoCall
  <1>13. ASSUME NEW k \in Calls, NEW j \in Jobs, CancelJob(k, j)
         PROVE  MutexIsHeld'
    BY <1>13 DEF CancelJob, NoCall
  <1>14. ASSUME NEW k \in Calls, NEW s \in Servers, CancelKey(k, s)
         PROVE  MutexIsHeld'
    BY <1>14 DEF CancelKey, NoCall
  <1>15. ASSUME NEW s \in Servers, PollStep(s) PROVE MutexIsHeld'
    <2>1. CASE ListScheduledJobs(s)
      BY <2>1 DEF ListScheduledJobs
    <2>2. CASE scheduleNewJobsFromDB(s)
      <3>1. TakesUnused(polled[s])
        BY <2>2, PollTakesUnused
      <3> QED
        BY <2>2, <3>1 DEF scheduleNewJobsFromDB, TakesUnused
    <2> QED
      BY <1>15, <2>1, <2>2 DEF PollStep
  <1>16. ASSUME NEW s \in Servers, Crash(s) PROVE MutexIsHeld'
    BY <1>16 DEF Crash, FreeJob, NoCall
  <1>17. CASE Tick \/ Replicate \/ UNCHANGED vars
    BY <1>17 DEF Tick, Replicate, vars
  <1> QED
    BY <1>1, <1>2, <1>3, <1>4, <1>5, <1>6, <1>7, <1>8, <1>9, <1>10, <1>11, <1>12,
       <1>13, <1>14, <1>15, <1>16, <1>17 DEF Next, Run, CallStep

-----------------------------------------------------------------------------
(* Goroutines wait for their time, and times are not 0.                    *)
LEMMA TimesAreNat ==
  ASSUME TypeOK, NEW j \in Jobs
  PROVE  now \in Nat /\ job[j].runAt \in Nat
  <1>1. job[j] \in Job /\ now \in 0 .. MaxTime
    BY DEF TypeOK
  <1>2. RunAts \cup {0} \subseteq Nat
    BY JobOnceAssumption
  <1> QED
    BY <1>1, <1>2 DEF Job

LEMMA WaitsStep ==
  TypeOK /\ WaitsForItsTime /\ [Next]_vars => WaitsForItsTime'
  <1> SUFFICES ASSUME TypeOK, WaitsForItsTime, [Next]_vars PROVE WaitsForItsTime'
    OBVIOUS
  <1> USE JobOnceAssumption DEF TypeOK, WaitsForItsTime, At, CallAt
  <1>1. ASSUME NEW j \in Jobs, Fire(j) PROVE WaitsForItsTime'
    BY <1>1 DEF Fire
  <1>2. ASSUME NEW j \in Jobs, ReadMetadata(j) PROVE WaitsForItsTime'
    BY <1>2 DEF ReadMetadata
  <1>3. ASSUME NEW j \in Jobs, ReadFails(j) PROVE WaitsForItsTime'
    <2>1. /\ job[j].place = "locking"
          /\ job'[j].place \in {"deleting", "waiting"}
          /\ job'[j].runAt = job[j].runAt
      <3>1. CASE job[j].numFails >= maxNumFails
        BY <1>3, <3>1 DEF ReadFails, Job
      <3>2. CASE ~(job[j].numFails >= maxNumFails)
        BY <1>3, <3>2 DEF ReadFails, Job
      <3> QED
        BY <3>1, <3>2
    <2>2. \A i \in Jobs : i # j => job'[i] = job[i]
      BY <1>3 DEF ReadFails
    <2> QED
      BY <1>3, <2>1, <2>2 DEF ReadFails
  <1>4. ASSUME NEW j \in Jobs, executeJob(j) PROVE WaitsForItsTime'
    BY <1>4 DEF executeJob
  <1>5. ASSUME NEW j \in Jobs, DeleteMetadata(j) PROVE WaitsForItsTime'
    BY <1>5 DEF DeleteMetadata
  <1>6. ASSUME NEW j \in Jobs, Done(j) PROVE WaitsForItsTime'
    BY <1>6, EndedJobPlace DEF Done
  <1>7. ASSUME NEW j \in Jobs, Forget(j) PROVE WaitsForItsTime'
    <2>1. \/ job'[j].place \in {"free", "ended"}
          \/ job'[j].place = "waiting" /\ job'[j].runAt = job[j].runAt
      BY <1>7, EndedJobPlace DEF Forget
    <2>2. \A i \in Jobs : i # j => job'[i] = job[i]
      BY <1>7 DEF Forget
    <2> QED
      BY <1>7, <2>1, <2>2 DEF Forget
  <1>8. ASSUME NEW k \in Calls, saveMetadata(k) PROVE WaitsForItsTime'
    <2>1. CASE meta = 0
      <3>1. call' = [call EXCEPT ![k].place = "track"] /\ call[k].place = "save"
        BY <1>8, <2>1 DEF saveMetadata
      <3>2. call[k] \in Call
        OBVIOUS
      <3>3. call'[k].runAt = call[k].runAt
        BY <3>1, <3>2 DEF Call
      <3> QED
        BY <1>8, <3>1, <3>3 DEF saveMetadata
    <2>2. CASE meta # 0
      BY <1>8, <2>2 DEF saveMetadata, NoCall
    <2> QED
      BY <2>1, <2>2
  <1>9. ASSUME NEW k \in Calls, saveMetadataFails(k) PROVE WaitsForItsTime'
    BY <1>9 DEF saveMetadataFails, NoCall
  <1>10. ASSUME NEW k \in Calls, Track(k) PROVE WaitsForItsTime'
    <2>1. TakesUnused(call[k].runAt)
      BY <1>10, TrackTakesUnused
    <2>2. call[k].runAt # 0
      BY <1>10 DEF Track
    <2> QED
      BY <1>10, <2>1, <2>2 DEF Track, NoCall, TakesUnused
  <1>11. ASSUME NEW k \in Calls, CancelForget(k) PROVE WaitsForItsTime'
    <2>1. \A j \in Jobs : job'[j].place = job[j].place /\ job'[j].runAt = job[j].runAt
      BY <1>11 DEF CancelForget, Job
    <2> QED
      BY <1>11, <2>1 DEF CancelForget
  <1>12. ASSUME NEW k \in Calls, CancelLock(k) PROVE WaitsForItsTime'
    BY <1>12 DEF CancelLock
  <1>13. ASSUME NEW k \in Calls, CancelJoin(k) \/ CancelDelete(k)
         PROVE  WaitsForItsTime'
    BY <1>13 DEF CancelJoin, CancelDelete, NoCall
  <1>14. ASSUME NEW k \in Calls, NEW s \in Servers, NEW runAt \in RunAts,
                ScheduleOnce(k, s, runAt)
         PROVE  WaitsForItsTime'
    BY <1>14 DEF ScheduleOnce, NoCall
  <1>15. ASSUME NEW k \in Calls, NEW j \in Jobs, CancelJob(k, j)
         PROVE  WaitsForItsTime'
    BY <1>15 DEF CancelJob, NoCall
  <1>16. ASSUME NEW k \in Calls, NEW s \in Servers, CancelKey(k, s)
         PROVE  WaitsForItsTime'
    BY <1>16 DEF CancelKey, NoCall
  <1>17. ASSUME NEW s \in Servers, PollStep(s) PROVE WaitsForItsTime'
    <2>1. CASE ListScheduledJobs(s)
      BY <2>1 DEF ListScheduledJobs
    <2>2. CASE scheduleNewJobsFromDB(s)
      <3>1. TakesUnused(polled[s])
        BY <2>2, PollTakesUnused
      <3> QED
        BY <2>2, <3>1 DEF scheduleNewJobsFromDB, TakesUnused
    <2> QED
      BY <1>17, <2>1, <2>2 DEF PollStep
  <1>18. ASSUME NEW s \in Servers, Crash(s) PROVE WaitsForItsTime'
    BY <1>18 DEF Crash, FreeJob, NoCall
  <1>19. CASE Tick
    <2>1. ASSUME NEW j \in Jobs, job[j].runAt <= now PROVE job[j].runAt <= now + 1
      BY <2>1, TimesAreNat
    <2> QED
      BY <1>19, <2>1 DEF Tick
  <1>20. CASE Replicate \/ UNCHANGED vars
    BY <1>20 DEF Replicate, vars
  <1> QED
    BY <1>1, <1>2, <1>3, <1>4, <1>5, <1>6, <1>7, <1>8, <1>9, <1>10, <1>11, <1>12,
       <1>13, <1>14, <1>15, <1>16, <1>17, <1>18, <1>19, <1>20
       DEF Next, Run, CallStep

-----------------------------------------------------------------------------
(* The callback runs under the mutex, and the mutex guards the metadata.   *)
LEMMA OnlyOneIn ==
  ASSUME MutexIsHeld, TypeOK, NEW j \in Jobs,
         job[j].place \in {"executing", "deleting", "forgetting"}
  PROVE  /\ holder = j /\ holder # NoClient
         /\ \A i \in Jobs : job[i].place \in {"executing", "deleting", "forgetting"} => i = j
         /\ \A k \in Calls : holder # k
  BY JobOnceAssumption, NoClientAssumption DEF MutexIsHeld

LEMMA NoneIn ==
  ASSUME MutexIsHeld, TypeOK, holder = NoClient \/ \E k \in Calls : holder = k
  PROVE  \A j \in Jobs : job[j].place \notin {"executing", "deleting", "forgetting"}
  BY JobOnceAssumption, NoClientAssumption DEF MutexIsHeld

(* RunsWhatIsScheduled without the mutex.                                  *)
ScheduledForNow ==
    \A j \in Jobs : At(j, "executing") =>
        /\ job[j].runAt <= now
        /\ ~job[j].behind => meta = job[j].runAt

LEMMA ScheduledStep ==
  TypeOK /\ MutexIsHeld /\ WaitsForItsTime /\ ScheduledForNow /\ [Next]_vars
    => ScheduledForNow'
  <1> SUFFICES ASSUME TypeOK, MutexIsHeld, WaitsForItsTime, ScheduledForNow,
                      [Next]_vars
               PROVE  ScheduledForNow'
    OBVIOUS
  <1> USE JobOnceAssumption, NoClientAssumption
      DEF TypeOK, ScheduledForNow, At, CallAt
  <1>1. ASSUME NEW j \in Jobs, Fire(j) PROVE ScheduledForNow'
    BY <1>1 DEF Fire
  <1>2. ASSUME NEW j \in Jobs, ReadMetadata(j) PROVE ScheduledForNow'
    <2>1. holder = NoClient
      BY <1>2 DEF ReadMetadata, Acquire
    <2>2. job[j].runAt <= now
      BY <1>2 DEF ReadMetadata, WaitsForItsTime
    <2>3. now' = now /\ meta' = meta
      BY <1>2 DEF ReadMetadata
    <2>4. \A i \in Jobs : i # j => job'[i] = job[i] /\ job[i].place # "executing"
      BY <1>2, <2>1, NoneIn, ReadShape
    <2> QED
      BY <1>2, <2>2, <2>3, <2>4, ReadShape
  <1>3. ASSUME NEW j \in Jobs, ReadFails(j) PROVE ScheduledForNow'
    <2>1. job'[j].place \in {"deleting", "waiting"}
      <3>1. CASE job[j].numFails >= maxNumFails
        BY <1>3, <3>1 DEF ReadFails, Job
      <3>2. CASE ~(job[j].numFails >= maxNumFails)
        BY <1>3, <3>2 DEF ReadFails, Job
      <3> QED
        BY <3>1, <3>2
    <2>2. \A i \in Jobs : i # j => job'[i] = job[i]
      BY <1>3 DEF ReadFails
    <2> QED
      BY <1>3, <2>1, <2>2 DEF ReadFails
  <1>4. ASSUME NEW j \in Jobs, executeJob(j) PROVE ScheduledForNow'
    BY <1>4 DEF executeJob
  <1>5. ASSUME NEW j \in Jobs, DeleteMetadata(j) PROVE ScheduledForNow'
    <2>1. \A i \in Jobs : job[i].place # "executing"
      BY <1>5, OnlyOneIn DEF DeleteMetadata
    <2> QED
      BY <1>5, <2>1 DEF DeleteMetadata
  <1>6. ASSUME NEW j \in Jobs, Done(j) PROVE ScheduledForNow'
    BY <1>6, EndedJobPlace DEF Done
  <1>7. ASSUME NEW j \in Jobs, Forget(j) PROVE ScheduledForNow'
    <2>1. job'[j].place \in {"free", "ended", "waiting"}
      BY <1>7, EndedJobPlace DEF Forget
    <2>2. \A i \in Jobs : i # j => job'[i] = job[i]
      BY <1>7 DEF Forget
    <2> QED
      BY <1>7, <2>1, <2>2 DEF Forget
  <1>8. ASSUME NEW k \in Calls, saveMetadata(k) \/ saveMetadataFails(k)
        PROVE  ScheduledForNow'
    <2>1. holder = NoClient /\ job' = job
      <3>1. CASE saveMetadata(k)
        BY <3>1 DEF saveMetadata
      <3>2. CASE saveMetadataFails(k)
        BY <3>2 DEF saveMetadataFails
      <3> QED
        BY <1>8, <3>1, <3>2
    <2> QED
      BY <2>1, NoneIn
  <1>9. ASSUME NEW k \in Calls, Track(k) PROVE ScheduledForNow'
    <2>1. TakesUnused(call[k].runAt)
      BY <1>9, TrackTakesUnused
    <2> QED
      BY <1>9, <2>1 DEF Track, TakesUnused
  <1>10. ASSUME NEW k \in Calls, CancelForget(k) PROVE ScheduledForNow'
    <2>1. \A j \in Jobs : /\ job'[j].place = job[j].place
                           /\ job'[j].runAt = job[j].runAt
                           /\ job'[j].behind = job[j].behind
      BY <1>10 DEF CancelForget, Job
    <2> QED
      BY <1>10, <2>1 DEF CancelForget
  <1>11. ASSUME NEW k \in Calls, CancelLock(k) \/ CancelDelete(k)
         PROVE  ScheduledForNow'
    <2>1. holder = NoClient /\ job' = job
      BY <1>11 DEF CancelLock, CancelDelete, Acquire
    <2> QED
      BY <2>1, NoneIn
  <1>12. ASSUME NEW k \in Calls, CancelJoin(k) PROVE ScheduledForNow'
    BY <1>12 DEF CancelJoin
  <1>13. ASSUME NEW k \in Calls, NEW s \in Servers, NEW runAt \in RunAts,
                ScheduleOnce(k, s, runAt)
         PROVE  ScheduledForNow'
    BY <1>13 DEF ScheduleOnce
  <1>14. ASSUME NEW k \in Calls, NEW j \in Jobs, CancelJob(k, j)
         PROVE  ScheduledForNow'
    BY <1>14 DEF CancelJob
  <1>15. ASSUME NEW k \in Calls, NEW s \in Servers, CancelKey(k, s)
         PROVE  ScheduledForNow'
    BY <1>15 DEF CancelKey
  <1>16. ASSUME NEW s \in Servers, PollStep(s) PROVE ScheduledForNow'
    <2>1. CASE ListScheduledJobs(s)
      BY <2>1 DEF ListScheduledJobs
    <2>2. CASE scheduleNewJobsFromDB(s)
      <3>1. TakesUnused(polled[s])
        BY <2>2, PollTakesUnused
      <3> QED
        BY <2>2, <3>1 DEF scheduleNewJobsFromDB, TakesUnused
    <2> QED
      BY <1>16, <2>1, <2>2 DEF PollStep
  <1>17. ASSUME NEW s \in Servers, Crash(s) PROVE ScheduledForNow'
    BY <1>17 DEF Crash, FreeJob
  <1>18. CASE Tick
    <2>1. ASSUME NEW j \in Jobs, job[j].runAt <= now PROVE job[j].runAt <= now + 1
      BY <2>1, TimesAreNat
    <2> QED
      BY <1>18, <2>1 DEF Tick
  <1>19. CASE Replicate \/ UNCHANGED vars
    BY <1>19 DEF Replicate, vars
  <1> QED
    BY <1>1, <1>2, <1>3, <1>4, <1>5, <1>6, <1>7, <1>8, <1>9, <1>10, <1>11, <1>12,
       <1>13, <1>14, <1>15, <1>16, <1>17, <1>18, <1>19 DEF Next, Run, CallStep

LEMMA ScheduledUnderMutex ==
  MutexIsHeld => (RunsWhatIsScheduled <=> ScheduledForNow)
  BY DEF MutexIsHeld, RunsWhatIsScheduled, ScheduledForNow, At

(* Only the callback counts as a run, and then the metadata is deleted     *)
(* before the unlock, or there is one fault more.                          *)
LEMMA DeletesStep ==
  /\ TypeOK /\ MutexIsHeld /\ WaitsForItsTime /\ RunsWhatIsScheduled
  /\ DeletesWhatHasRun /\ [Next]_vars
  => DeletesWhatHasRun'
  <1> SUFFICES ASSUME TypeOK, MutexIsHeld, WaitsForItsTime, RunsWhatIsScheduled,
                      DeletesWhatHasRun, [Next]_vars
               PROVE  DeletesWhatHasRun'
    OBVIOUS
  <1> USE JobOnceAssumption, NoClientAssumption
      DEF TypeOK, DeletesWhatHasRun, At, CallAt
  <1>0. ASSUME Fault, history'.runs \in {history.runs, 0} PROVE DeletesWhatHasRun'
    <2>1. made'.faults = made.faults + 1 /\ made.faults \in Nat /\ history.runs \in Nat
      BY <1>0 DEF Fault
    <2>2. history'.runs \in Nat /\ history'.runs <= made.faults + 1
      BY <1>0, <2>1
    <2> QED
      BY <2>1, <2>2
  <1>1. ASSUME NEW j \in Jobs, Fire(j) PROVE DeletesWhatHasRun'
    BY <1>1 DEF Fire
  <1>2. ASSUME NEW j \in Jobs, ReadMetadata(j) PROVE DeletesWhatHasRun'
    BY <1>2 DEF ReadMetadata
  <1>3. ASSUME NEW j \in Jobs, ReadFails(j) PROVE DeletesWhatHasRun'
    BY <1>0, <1>3 DEF ReadFails
  <1>4. ASSUME NEW j \in Jobs, executeJob(j) PROVE DeletesWhatHasRun'
    <2>1. /\ \A i \in Jobs : job[i].place # "deleting"
          /\ history.runs \in Nat /\ made.faults \in Nat
      BY <1>4, OnlyOneIn DEF executeJob
    <2>2. job'[j].place = "deleting" /\ made' = made /\ meta' = meta
      BY <1>4 DEF executeJob, Job
    <2>3. CASE job[j].behind
      BY <1>4, <2>1, <2>2, <2>3 DEF executeJob, Counted
    <2>4. CASE ~job[j].behind
      <3>1. meta # 0
        BY <1>4, <2>4 DEF executeJob, RunsWhatIsScheduled, WaitsForItsTime
      <3>2. history.runs <= made.faults
        BY <2>1, <3>1
      <3>3. history'.runs = history.runs + 1
        BY <1>4, <2>4 DEF executeJob, Counted
      <3> QED
        BY <2>1, <2>2, <3>2, <3>3
    <2> QED
      BY <2>3, <2>4
  <1>5. ASSUME NEW j \in Jobs, DeleteMetadata(j) PROVE DeletesWhatHasRun'
    <2>1. history'.runs = history.runs
      BY <1>5 DEF DeleteMetadata
    <2>2. CASE meta' = 0 /\ made' = made
      BY <2>1, <2>2
    <2>3. CASE Fault
      BY <1>0, <2>1, <2>3
    <2> QED
      BY <1>5, <2>2, <2>3 DEF DeleteMetadata, Erase
  <1>6. ASSUME NEW j \in Jobs, Done(j) PROVE DeletesWhatHasRun'
    BY <1>6 DEF Done
  <1>7. ASSUME NEW j \in Jobs, Forget(j) PROVE DeletesWhatHasRun'
    BY <1>7 DEF Forget
  <1>8. ASSUME NEW k \in Calls, saveMetadata(k) PROVE DeletesWhatHasRun'
    <2>1. CASE meta = 0
      BY <1>8, <2>1 DEF saveMetadata, Saved
    <2>2. CASE meta # 0
      BY <1>8, <2>2 DEF saveMetadata
    <2> QED
      BY <2>1, <2>2
  <1>9. ASSUME NEW k \in Calls, saveMetadataFails(k) PROVE DeletesWhatHasRun'
    BY <1>0, <1>9 DEF saveMetadataFails, Saved
  <1>10. ASSUME NEW k \in Calls, Track(k) PROVE DeletesWhatHasRun'
    <2>1. TakesUnused(call[k].runAt)
      BY <1>10, TrackTakesUnused
    <2> QED
      BY <1>10, <2>1 DEF Track, TakesUnused
  <1>11. ASSUME NEW k \in Calls, CancelForget(k) PROVE DeletesWhatHasRun'
    <2>1. \A j \in Jobs : job'[j].place = job[j].place
      BY <1>11 DEF CancelForget, Job
    <2> QED
      BY <1>11, <2>1 DEF CancelForget
  <1>12. ASSUME NEW k \in Calls, CancelLock(k) \/ CancelDelete(k)
         PROVE  DeletesWhatHasRun'
    <2>1. history'.runs = history.runs
      BY <1>12 DEF CancelLock, CancelDelete
    <2>2. CASE meta' = 0 /\ made' = made
      BY <2>1, <2>2
    <2>3. CASE Fault
      BY <1>0, <2>1, <2>3
    <2> QED
      BY <1>12, <2>2, <2>3 DEF CancelLock, CancelDelete, Erase
  <1>13. ASSUME NEW k \in Calls, CancelJoin(k) PROVE DeletesWhatHasRun'
    BY <1>13 DEF CancelJoin
  <1>14. ASSUME NEW k \in Calls, NEW s \in Servers, NEW runAt \in RunAts,
                ScheduleOnce(k, s, runAt)
         PROVE  DeletesWhatHasRun'
    BY <1>14 DEF ScheduleOnce
  <1>15. ASSUME NEW k \in Calls, NEW j \in Jobs, CancelJob(k, j)
         PROVE  DeletesWhatHasRun'
    BY <1>15 DEF CancelJob, Canceling
  <1>16. ASSUME NEW k \in Calls, NEW s \in Servers, CancelKey(k, s)
         PROVE  DeletesWhatHasRun'
    BY <1>16 DEF CancelKey, Canceling
  <1>17. ASSUME NEW s \in Servers, PollStep(s) PROVE DeletesWhatHasRun'
    <2>1. CASE ListScheduledJobs(s)
      BY <2>1 DEF ListScheduledJobs
    <2>2. CASE scheduleNewJobsFromDB(s)
      <3>1. TakesUnused(polled[s])
        BY <2>2, PollTakesUnused
      <3> QED
        BY <2>2, <3>1 DEF scheduleNewJobsFromDB, TakesUnused
    <2> QED
      BY <1>17, <2>1, <2>2 DEF PollStep
  <1>18. ASSUME NEW s \in Servers, Crash(s) PROVE DeletesWhatHasRun'
    BY <1>0, <1>18 DEF Crash
  <1>19. CASE Tick \/ Replicate \/ UNCHANGED vars
    BY <1>19 DEF Tick, Replicate, vars
  <1> QED
    BY <1>1, <1>2, <1>3, <1>4, <1>5, <1>6, <1>7, <1>8, <1>9, <1>10, <1>11, <1>12,
       <1>13, <1>14, <1>15, <1>16, <1>17, <1>18, <1>19 DEF Next, Run, CallStep

-----------------------------------------------------------------------------
LEMMA InitJobOnceInv == Init => JobOnceInv
  <1> SUFFICES ASSUME Init PROVE JobOnceInv
    OBVIOUS
  <1>1. TypeOK
    BY InitTypes
  <1>2. MutexIsHeld
    BY JobOnceAssumption, NoClientAssumption
       DEF Init, LockInit, MutexIsHeld, FreeJob, NoCall
  <1>3. WaitsForItsTime /\ RunsWhatIsScheduled
    BY DEF Init, WaitsForItsTime, RunsWhatIsScheduled, At, FreeJob, NoCall
  <1>4. DeletesWhatHasRun
    BY DEF Init, DeletesWhatHasRun, Saved
  <1> QED
    BY <1>1, <1>2, <1>3, <1>4 DEF JobOnceInv

LEMMA JobOnceInvStep == JobOnceInv /\ [Next]_vars => JobOnceInv'
  <1> SUFFICES ASSUME JobOnceInv, [Next]_vars PROVE JobOnceInv'
    OBVIOUS
  <1>1. TypeOK /\ MutexIsHeld /\ WaitsForItsTime /\ RunsWhatIsScheduled /\ DeletesWhatHasRun
    BY DEF JobOnceInv
  <1>2. TypeOK' /\ MutexIsHeld' /\ WaitsForItsTime' /\ DeletesWhatHasRun'
    BY <1>1, TypesStep, MutexStep, WaitsStep, DeletesStep
  <1>3. ScheduledForNow'
    BY <1>1, ScheduledUnderMutex, ScheduledStep
  <1>4. RunsWhatIsScheduled'
    BY <1>2, <1>3 DEF MutexIsHeld, RunsWhatIsScheduled, ScheduledForNow, At
  <1> QED
    BY <1>2, <1>4 DEF JobOnceInv

(* The invariant behind the others: the types, who holds the mutex, that   *)
(* jobs wait for their time, that what has been read and was not behind is *)
(* what is stored, and what becomes of metadata that has run.              *)
THEOREM JobOnceInvariant == Spec => []JobOnceInv
  <1>1. Init => JobOnceInv
    BY InitJobOnceInv
  <1>2. JobOnceInv /\ [Next]_vars => JobOnceInv'
    BY JobOnceInvStep
  <1> QED
    BY <1>1, <1>2, PTL DEF Spec

(* Whatever fails, whoever cancels and however far a replica is behind,    *)
(* the callback of a job runs under the mutex and not before its time; and *)
(* unless the replica it has read was behind, what it runs is still in the *)
(* store.                                                                  *)
THEOREM OnlyScheduledRuns == Spec => []RunsWhatIsScheduled
  <1>1. JobOnceInv => RunsWhatIsScheduled
    BY DEF JobOnceInv
  <1> QED
    BY <1>1, JobOnceInvariant, PTL

(* The mutex of a key is held exactly between Lock and Unlock.             *)
THEOREM HeldBetweenLockAndUnlock == Spec => []MutexIsHeld
  <1>1. JobOnceInv => MutexIsHeld
    BY DEF JobOnceInv
  <1> QED
    BY <1>1, JobOnceInvariant, PTL

(* Of the runs of a schedule whose read was not behind, there is one, and  *)
(* one more for each fault, on however many servers it is active.          *)
THEOREM RunsOnce == Spec => []RunsAtMostOnce
  <1>1. JobOnceInv => RunsAtMostOnce
    BY DEF JobOnceInv, DeletesWhatHasRun, RunsAtMostOnce
  <1> QED
    BY <1>1, JobOnceInvariant, PTL

-----------------------------------------------------------------------------
(* What a server has under the key, and what a Cancel is about, is a job   *)
(* of that server.                                                         *)
OutOfUse == {"free", "idle", "ended"}
CancelPlaces == {"lock", "forget", "join"}

CallKnowsJob ==
    \A k \in Calls : call[k].place \in CancelPlaces =>
        /\ call[k].job \in Jobs
        /\ job[call[k].job].server = call[k].server

(* A step that leaves the jobs in use to their servers and to their run.   *)
JobsStay ==
    \A j \in Jobs : job[j].place \notin OutOfUse /\ ~job[j].done =>
        /\ job'[j].server = job[j].server
        /\ job'[j].place \notin OutOfUse
        /\ ~job'[j].done

LEMMA ActiveKept ==
  ASSUME TypeOK, ActiveIsRunning, active' = active, JobsStay
  PROVE  ActiveIsRunning'
  BY DEF TypeOK, ActiveIsRunning, JobsStay, OutOfUse

(* A step that begins no Cancel and leaves the jobs the others are about.  *)
CallsStay ==
    /\ \A k \in Calls : call'[k].place \in CancelPlaces =>
         /\ call[k].place \in CancelPlaces
         /\ call'[k].job = call[k].job
         /\ call'[k].server = call[k].server
    /\ \A j \in Jobs : (\E k \in Calls : call[k].job = j) => job'[j].server = job[j].server

LEMMA CallsKept ==
  ASSUME CallKnowsJob, CallsStay
  PROVE  CallKnowsJob'
  BY DEF CallKnowsJob, CallsStay

(* A step of a run goroutine that is not its end.                          *)
LEMMA PlacesOnly ==
  ASSUME TypeOK, ActiveIsRunning, CallKnowsJob, active' = active, call' = call,
         \A j \in Jobs : /\ job'[j].server = job[j].server
                         /\ job'[j].done = job[j].done
                         /\ job[j].place \notin OutOfUse => job'[j].place \notin OutOfUse
  PROVE  ActiveIsRunning' /\ CallKnowsJob'
  <1>1. JobsStay
    BY DEF JobsStay
  <1>2. CallsStay
    BY DEF CallsStay
  <1> QED
    BY <1>1, <1>2, ActiveKept, CallsKept

LEMMA RunActive ==
  ASSUME TypeOK, ActiveIsRunning, CallKnowsJob, NEW j \in Jobs,
         Fire(j) \/ ReadMetadata(j) \/ executeJob(j) \/ DeleteMetadata(j) \/ ReadFails(j)
  PROVE  ActiveIsRunning' /\ CallKnowsJob'
  <1> USE DEF TypeOK, OutOfUse
  <1>1. job[j] \in Job
    OBVIOUS
  <1>2. active' = active /\ call' = call /\ \A i \in Jobs : i # j => job'[i] = job[i]
    BY DEF Fire, ReadMetadata, executeJob, DeleteMetadata, ReadFails
  <1>3. /\ job'[j].server = job[j].server
        /\ job'[j].done = job[j].done
        /\ job'[j].place \notin OutOfUse
    <2>1. CASE Fire(j) \/ executeJob(j) \/ DeleteMetadata(j)
      BY <1>1, <2>1 DEF Fire, executeJob, DeleteMetadata, Job
    <2>2. CASE ReadMetadata(j)
      BY <2>2, ReadShape
    <2>3. CASE ReadFails(j) /\ job[j].numFails >= maxNumFails
      BY <1>1, <2>3 DEF ReadFails, Job
    <2>4. CASE ReadFails(j) /\ ~(job[j].numFails >= maxNumFails)
      BY <1>1, <2>4 DEF ReadFails, Job
    <2> QED
      BY <2>1, <2>2, <2>3, <2>4
  <1>4. \A i \in Jobs : /\ job'[i].server = job[i].server
                        /\ job'[i].done = job[i].done
                        /\ job[i].place \notin OutOfUse => job'[i].place \notin OutOfUse
    BY <1>2, <1>3
  <1> HIDE DEF TypeOK, OutOfUse
  <1> QED
    BY <1>2, <1>4, PlacesOnly

LEMMA EndedJobServer ==
  ASSUME NEW j \in Jobs, \E k \in Calls : call[k].job = j
  PROVE  EndedJob(j).server = job[j].server
  BY DEF EndedJob, FreeJob

(* A goroutine ends only once its done is closed, or closes it by leaving  *)
(* activeJobs.                                                             *)
LEMMA EndActive ==
  ASSUME TypeOK, ActiveIsRunning, CallKnowsJob, NEW j \in Jobs, Done(j) \/ Forget(j)
  PROVE  ActiveIsRunning' /\ CallKnowsJob'
  <1>1. call' = call /\ \A i \in Jobs : i # j => job'[i] = job[i]
    BY DEF Done, Forget, TypeOK
  <1>2. (\E k \in Calls : call[k].job = j) => job'[j].server = job[j].server
    <2>1. CASE job' = [job EXCEPT ![j] = EndedJob(j)]
      BY <2>1, EndedJobServer DEF TypeOK
    <2>2. CASE job' = [job EXCEPT ![j] = [job[j] EXCEPT !.done = TRUE, !.place = "waiting"]]
      <3>1. job[j] \in Job
        BY DEF TypeOK
      <3> QED
        BY <2>2, <3>1 DEF TypeOK, Job
    <2> QED
      BY <2>1, <2>2 DEF Done, Forget, TypeOK
  <1>3. CallKnowsJob'
    <2>1. CallsStay
      BY <1>1, <1>2 DEF CallsStay
    <2> QED
      BY <2>1, CallsKept
  <1>4. \A s \in Servers : active'[s] # None => active'[s] = active[s] /\ active[s] # j
    <2>1. CASE Done(j)
      BY <2>1 DEF Done, ActiveIsRunning
    <2>2. CASE Forget(j)
      BY <2>2 DEF Forget, ActiveIsRunning, TypeOK
    <2> QED
      BY <2>1, <2>2
  <1>5. ActiveIsRunning'
    BY <1>1, <1>4 DEF ActiveIsRunning, TypeOK
  <1> QED
    BY <1>3, <1>5

(* runAndTrack makes a job nobody refers to the active one of the key, if  *)
(* there is none.                                                          *)
LEMMA runAndTrackActive ==
  ASSUME TypeOK, ActiveIsRunning, CallKnowsJob,
         NEW s, NEW runAt, NEW own \in BOOLEAN, runAndTrack(s, runAt, own),
         \A k \in Calls : call'[k] = call[k] \/ call'[k] = NoCall
  PROVE  ActiveIsRunning' /\ CallKnowsJob'
  <1> DEFINE new == IF active[s] = None
                      THEN [FreeJob EXCEPT !.place = "waiting", !.server = s, !.own = own,
                                           !.runAt = runAt, !.overdue = now >= runAt]
                      ELSE [FreeJob EXCEPT !.place = "idle", !.server = s, !.own = own]
  <1>1. PICK j \in Unused :
           /\ job' = [job EXCEPT ![j] = new]
           /\ active' = [active EXCEPT ![s] = IF @ = None THEN j ELSE @]
    BY DEF runAndTrack
  <1>2. /\ new.server = s /\ ~new.done
        /\ active[s] = None => new.place = "waiting"
    BY DEF FreeJob
  <1> HIDE DEF new
  <1>3. job'[j] = new /\ \A i \in Jobs : i # j => job'[i] = job[i]
    BY <1>1 DEF TypeOK, Unused
  <1>4. /\ j \in Jobs
        /\ job[j].place \in OutOfUse
        /\ \A k \in Calls : call[k].job # j
    BY DEF Unused, OutOfUse
  <1>5. \A t \in Servers : active[t] # j
    BY <1>4, JobOnceAssumption DEF ActiveIsRunning, OutOfUse
  <1>6. ActiveIsRunning'
    <2> SUFFICES ASSUME NEW t \in Servers, active'[t] # None
                 PROVE  /\ job'[active'[t]].server = t
                        /\ ~job'[active'[t]].done
                        /\ job'[active'[t]].place \notin {"free", "idle", "ended"}
      BY DEF ActiveIsRunning
    <2>1. CASE t = s /\ active[s] = None
      <3>1. active'[t] = j
        BY <1>1, <2>1 DEF TypeOK
      <3> QED
        BY <1>2, <1>3, <2>1, <3>1
    <2>2. CASE active'[t] = active[t]
      BY <1>3, <1>5, <2>2 DEF ActiveIsRunning, TypeOK
    <2> QED
      BY <1>1, <2>1, <2>2 DEF TypeOK
  <1>7. CallKnowsJob'
    <2>1. CallsStay
      BY <1>3, <1>4 DEF CallsStay, NoCall, CancelPlaces
    <2> QED
      BY <2>1, CallsKept
  <1> QED
    BY <1>6, <1>7

(* The steps of the calls other than Track.                                *)
LEMMA CallActive ==
  ASSUME TypeOK, ActiveIsRunning, CallKnowsJob, NEW k \in Calls,
         \/ saveMetadata(k) \/ saveMetadataFails(k) \/ CancelLock(k)
         \/ CancelJoin(k) \/ CancelDelete(k)
  PROVE  ActiveIsRunning' /\ CallKnowsJob'
  <1>1. active' = active /\ job' = job
    BY DEF saveMetadata, saveMetadataFails, CancelLock, CancelJoin, CancelDelete
  <1>2. call[k] \in Call /\ \A i \in Calls : i # k => call'[i] = call[i]
    BY DEF TypeOK, saveMetadata, saveMetadataFails, CancelLock, CancelJoin, CancelDelete
  <1>3. \/ call'[k].place \notin CancelPlaces
        \/ /\ call[k].place \in CancelPlaces
           /\ call'[k].job = call[k].job
           /\ call'[k].server = call[k].server
    <2>1. CASE CancelLock(k)
      BY <1>2, <2>1 DEF CancelLock, CallAt, CancelPlaces, TypeOK, Call
    <2>2. CASE saveMetadata(k) /\ meta = 0
      BY <1>2, <2>2 DEF saveMetadata, CancelPlaces, TypeOK, Call
    <2>3. CASE call' = [call EXCEPT ![k] = NoCall]
      BY <2>3 DEF NoCall, CancelPlaces, TypeOK
    <2> QED
      BY <2>1, <2>2, <2>3 DEF saveMetadata, saveMetadataFails, CancelJoin, CancelDelete
  <1>4. JobsStay /\ CallsStay
    BY <1>1, <1>2, <1>3 DEF JobsStay, CallsStay
  <1> QED
    BY <1>1, <1>4, ActiveKept, CallsKept

(* Cancel closes done of the job it is about, and forgets it where it is.  *)
LEMMA CancelForgetActive ==
  ASSUME TypeOK, ActiveIsRunning, CallKnowsJob, NEW k \in Calls, CancelForget(k)
  PROVE  ActiveIsRunning' /\ CallKnowsJob'
  <1>1. PICK j \in Jobs : j = call[k].job /\ job[j].server = call[k].server
    BY DEF CancelForget, CallAt, CallKnowsJob, CancelPlaces
  <1>2. /\ job' = [job EXCEPT ![j].done = TRUE]
        /\ active' = [active EXCEPT ![call[k].server] = None]
        /\ call' = [call EXCEPT ![k].place = "join"]
        /\ call[k].place = "forget"
    BY <1>1 DEF CancelForget, CallAt
  <1>3. job[j] \in Job /\ call[k] \in Call
    BY DEF TypeOK
  <1>4. /\ \A i \in Jobs : i # j => job'[i] = job[i]
        /\ job'[j].server = job[j].server
    BY <1>2, <1>3 DEF TypeOK, Job
  <1>5. /\ \A i \in Calls : i # k => call'[i] = call[i]
        /\ call'[k].job = call[k].job
        /\ call'[k].server = call[k].server
    BY <1>2, <1>3 DEF TypeOK, Call
  <1>6. \A s \in Servers : active'[s] # None => active'[s] = active[s] /\ active[s] # j
    BY <1>1, <1>2 DEF ActiveIsRunning, TypeOK
  <1>7. ActiveIsRunning'
    BY <1>4, <1>6 DEF ActiveIsRunning, TypeOK
  <1>8. CallsStay
    BY <1>2, <1>4, <1>5 DEF CallsStay, CancelPlaces
  <1> QED
    BY <1>7, <1>8, CallsKept

LEMMA NewCallActive ==
  ASSUME TypeOK, ActiveIsRunning, CallKnowsJob, NEW k \in Calls,
         \/ \E s \in Servers, runAt \in RunAts : ScheduleOnce(k, s, runAt)
         \/ \E j \in Jobs : CancelJob(k, j)
         \/ \E s \in Servers : CancelKey(k, s)
  PROVE  ActiveIsRunning' /\ CallKnowsJob'
  <1>1. active' = active /\ job' = job /\ \A i \in Calls : i # k => call'[i] = call[i]
    BY DEF TypeOK, ScheduleOnce, CancelJob, CancelKey
  <1>2. call'[k].place \in CancelPlaces =>
          call'[k].job \in Jobs /\ job[call'[k].job].server = call'[k].server
    <2>1. ASSUME NEW s \in Servers, NEW runAt \in RunAts, ScheduleOnce(k, s, runAt)
          PROVE  call'[k].place = "save"
      BY <2>1 DEF ScheduleOnce, TypeOK, NoCall
    <2>2. ASSUME NEW j \in Jobs, CancelJob(k, j)
          PROVE  call'[k].job = j /\ call'[k].server = job[j].server
      BY <2>2 DEF CancelJob, TypeOK, NoCall
    <2>3. ASSUME NEW s \in Servers, CancelKey(k, s)
          PROVE  call'[k].place \in CancelPlaces =>
                   call'[k].job \in Jobs /\ job[call'[k].job].server = call'[k].server
      <3>1. /\ call'[k].place = IF active[s] = None THEN "delete" ELSE "lock"
            /\ call'[k].job = active[s]
            /\ call'[k].server = s
        BY <2>3 DEF CancelKey, TypeOK, NoCall
      <3> QED
        BY <3>1 DEF ActiveIsRunning, CancelPlaces, TypeOK
    <2> QED
      BY <2>1, <2>2, <2>3 DEF CancelPlaces
  <1>3. ActiveIsRunning'
    BY <1>1 DEF ActiveIsRunning
  <1>4. CallKnowsJob'
    BY <1>1, <1>2 DEF CallKnowsJob
  <1> QED
    BY <1>3, <1>4

LEMMA PollActive ==
  ASSUME TypeOK, ActiveIsRunning, CallKnowsJob, NEW s \in Servers, PollStep(s)
  PROVE  ActiveIsRunning' /\ CallKnowsJob'
  <1>1. call' = call
    BY DEF PollStep, ListScheduledJobs, scheduleNewJobsFromDB
  <1>2. CASE job' = job /\ active' = active
    BY <1>1, <1>2 DEF ActiveIsRunning, CallKnowsJob
  <1>3. CASE runAndTrack(s, polled[s], FALSE)
    BY <1>1, <1>3, runAndTrackActive
  <1> QED
    BY <1>2, <1>3 DEF PollStep, ListScheduledJobs, scheduleNewJobsFromDB

LEMMA TrackActive ==
  ASSUME TypeOK, ActiveIsRunning, CallKnowsJob, NEW k \in Calls, Track(k)
  PROVE  ActiveIsRunning' /\ CallKnowsJob'
  <1>1. runAndTrack(call[k].server, call[k].runAt, TRUE)
    BY DEF Track
  <1>2. \A i \in Calls : call'[i] = call[i] \/ call'[i] = NoCall
    BY DEF Track, TypeOK
  <1> QED
    BY <1>1, <1>2, runAndTrackActive

(* A crash takes the jobs, the calls and the active job of one server.     *)
LEMMA CrashActive ==
  ASSUME TypeOK, ActiveIsRunning, CallKnowsJob, NEW s \in Servers, Crash(s)
  PROVE  ActiveIsRunning' /\ CallKnowsJob'
  <1>1. /\ \A j \in Jobs : job[j].server # s => job'[j] = job[j]
        /\ \A k \in Calls : IF call[k].server = s THEN call'[k] = NoCall ELSE call'[k] = call[k]
        /\ active' = [active EXCEPT ![s] = None]
    BY JobOnceAssumption DEF Crash
  <1>2. ActiveIsRunning'
    BY <1>1 DEF ActiveIsRunning, TypeOK
  <1>3. CallKnowsJob'
    BY <1>1 DEF CallKnowsJob, CancelPlaces, NoCall
  <1> QED
    BY <1>2, <1>3

(* What a server has under the key is a job of its own that runs.          *)
THEOREM ActiveRuns == Spec => []ActiveIsRunning
  <1> DEFINE Inv == JobOnceInv /\ ActiveIsRunning /\ CallKnowsJob
  <1>1. Init => Inv
    BY InitJobOnceInv DEF Init, ActiveIsRunning, CallKnowsJob, CancelPlaces, NoCall
  <1>2. Inv /\ [Next]_vars => Inv'
    <2> SUFFICES ASSUME JobOnceInv, ActiveIsRunning, CallKnowsJob, [Next]_vars
                 PROVE  JobOnceInv' /\ ActiveIsRunning' /\ CallKnowsJob'
      OBVIOUS
    <2>1. JobOnceInv'
      BY JobOnceInvStep
    <2>2. TypeOK
      BY DEF JobOnceInv
    <2>3. CASE Tick \/ Replicate \/ UNCHANGED vars
      BY <2>1, <2>3 DEF Tick, Replicate, vars, ActiveIsRunning, CallKnowsJob
    <2> QED
      BY <2>1, <2>2, <2>3, RunActive, EndActive, CallActive, CancelForgetActive,
         NewCallActive, PollActive, TrackActive, CrashActive DEF Next, Run, CallStep
  <1>3. Inv => ActiveIsRunning
    OBVIOUS
  <1> HIDE DEF Inv
  <1> QED
    BY <1>1, <1>2, <1>3, PTL DEF Spec
=============================================================================
