------------------------- MODULE ClusterMutexProofs -------------------------
(***************************************************************************)
(* Mutual exclusion of the cluster mutex, for any clients and any times    *)
(* that leave room for the delays (MutexAssumption), with crashes and with *)
(* calls of tryLock and Unlock that fail.                                  *)
(*                                                                         *)
(* That two clients hold the mutex can only be excluded by way of the key: *)
(* the invariant bounds its age by the places the holder has been through, *)
(* each of them late by Delay at most, which keeps it below ttl.           *)
(***************************************************************************)
EXTENDS ClusterMutex, TLAPS

(* The parts of MutexInv next to the types.                                *)
OneHolder ==
    \A p, q \in Clients : pc[p] \in Holding /\ pc[q] \in Holding => p = q

HolderOnTime ==
    \A p \in Clients :
        /\ pc[p] \in {"starting", "unlocking"} => clock[p] \in 0 .. Delay
        /\ pc[p] = "held" => /\ refreshing[p]
                             /\ clock[p] >= -Delay
                             /\ clock[p] <= refreshInterval
        /\ pc[p] \in Holding => ttl - left <= Age(p)

LEMMA MutexInvParts == MutexInv <=> TypeOK /\ OneHolder /\ HolderOnTime
  BY DEF MutexInv, OneHolder, HolderOnTime

(* The key of a holder lives: its age is at most                           *)
(* refreshInterval + 3 * Delay.                                            *)
LEMMA HolderKeepsKey ==
  ASSUME TypeOK, HolderOnTime, NEW p \in Clients, pc[p] \in Holding
  PROVE  left > 0
  <1>1. clock[p] \in Int /\ left \in 0 .. ttl
    BY DEF TypeOK
  <1>2. CASE pc[p] = "starting"
    BY <1>1, <1>2, MutexAssumption DEF HolderOnTime, Holding, Age
  <1>3. CASE pc[p] = "held"
    BY <1>1, <1>3, MutexAssumption DEF HolderOnTime, Holding, Age
  <1>4. CASE pc[p] = "unlocking"
    BY <1>1, <1>4, MutexAssumption DEF HolderOnTime, Holding, Age
  <1> QED
    BY <1>2, <1>3, <1>4 DEF Holding

LEMMA InitMutexInv == Init => MutexInv
  BY MutexAssumption DEF Init, MutexInv, TypeOK, Place, Holding

(* The types.                                                              *)
LEMMA TypesStep == TypeOK /\ [Next]_vars => TypeOK'
  <1> SUFFICES ASSUME TypeOK, [Next]_vars PROVE TypeOK'
    OBVIOUS
  <1> USE MutexAssumption DEF TypeOK, Place
  <1>1. CASE Tick
    <2>1. left' \in 0 .. ttl
      BY <1>1 DEF Tick, TimePasses
    <2>2. clock' \in [Clients -> Int]
      BY <1>1 DEF Tick, TimePasses
    <2> QED
      BY <1>1, <2>1, <2>2 DEF Tick
  <1>2. ASSUME NEW p \in Clients, Lock(p) \/ GiveUp(p) PROVE TypeOK'
    BY <1>2 DEF Lock, GiveUp, Goto
  <1>3. ASSUME NEW p \in Clients, tryLock(p) PROVE TypeOK'
    BY <1>3 DEF tryLock, Goto
  <1>4. ASSUME NEW p \in Clients, tryLockFails(p) PROVE TypeOK'
    BY <1>4 DEF tryLockFails, Fault
  <1>5. ASSUME NEW p \in Clients, Locked(p) PROVE TypeOK'
    BY <1>5 DEF Locked, Goto
  <1>6. ASSUME NEW p \in Clients, refreshLock(p) PROVE TypeOK'
    BY <1>6 DEF refreshLock
  <1>7. ASSUME NEW p \in Clients, Unlock(p) PROVE TypeOK'
    BY <1>7 DEF Unlock, Goto
  <1>8. ASSUME NEW p \in Clients, Unlocked(p) PROVE TypeOK'
    BY <1>8 DEF Unlocked, Goto
  <1>9. ASSUME NEW p \in Clients, UnlockFails(p) PROVE TypeOK'
    BY <1>9 DEF UnlockFails, Goto, Fault
  <1>10. ASSUME NEW p \in Clients, Crash(p) PROVE TypeOK'
    BY <1>10 DEF Crash, Goto, Fault
  <1>11. CASE UNCHANGED vars
    BY <1>11 DEF vars
  <1> QED
    BY <1>1, <1>2, <1>3, <1>4, <1>5, <1>6, <1>7, <1>8, <1>9, <1>10, <1>11
       DEF Next, Step

(* Nobody becomes a holder but by tryLock, and that needs the key gone.    *)
LEMMA OneHolderStep ==
  TypeOK /\ OneHolder /\ HolderOnTime /\ [Next]_vars => OneHolder'
  <1> SUFFICES ASSUME TypeOK, OneHolder, HolderOnTime, [Next]_vars
               PROVE  OneHolder'
    OBVIOUS
  <1> USE DEF TypeOK, OneHolder, Holding, Goto
  <1>1. ASSUME NEW p \in Clients, tryLock(p) PROVE OneHolder'
    <2>1. \A q \in Clients : pc[q] \notin Holding
      BY <1>1, HolderKeepsKey DEF tryLock
    <2> QED
      BY <1>1, <2>1 DEF tryLock
  <1>2. CASE Tick \/ UNCHANGED vars
    BY <1>2 DEF Tick, vars
  <1>3. ASSUME NEW p \in Clients, Lock(p) \/ GiveUp(p) PROVE OneHolder'
    BY <1>3 DEF Lock, GiveUp
  <1>4. ASSUME NEW p \in Clients, tryLockFails(p) \/ refreshLock(p)
        PROVE  OneHolder'
    BY <1>4 DEF tryLockFails, refreshLock
  <1>5. ASSUME NEW p \in Clients, Locked(p) \/ Unlock(p) PROVE OneHolder'
    BY <1>5 DEF Locked, Unlock
  <1>6. ASSUME NEW p \in Clients, Unlocked(p) \/ UnlockFails(p) \/ Crash(p)
        PROVE  OneHolder'
    BY <1>6 DEF Unlocked, UnlockFails, Crash
  <1> QED
    BY <1>1, <1>2, <1>3, <1>4, <1>5, <1>6 DEF Next, Step

(* Time passes: the key of the holder and its clock age together, as long  *)
(* as it is on time.                                                       *)
LEMMA TickOnTime == TypeOK /\ HolderOnTime /\ Tick => HolderOnTime'
  <1> SUFFICES ASSUME TypeOK, HolderOnTime, Tick, NEW p \in Clients
               PROVE  /\ pc'[p] \in {"starting", "unlocking"} =>
                            clock'[p] \in 0 .. Delay
                      /\ pc'[p] = "held" => /\ refreshing'[p]
                                            /\ clock'[p] >= -Delay
                                            /\ clock'[p] <= refreshInterval
                      /\ pc'[p] \in Holding => ttl - left' <= Age(p)'
    BY DEF HolderOnTime
  <1>1. /\ pc' = pc /\ refreshing' = refreshing
        /\ clock[p] \in Int /\ left \in 0 .. ttl
        /\ left' \in 0 .. ttl /\ ttl - left' <= ttl - left + 1
    BY MutexAssumption DEF Tick, TimePasses, TypeOK
  <1>2. clock'[p] = IF pc[p] \in {"starting", "unlocking"} /\ clock[p] < ttl
                      THEN clock[p] + 1
                    ELSE IF pc[p] = "held" /\ refreshing[p]
                            /\ clock[p] > -refreshInterval
                      THEN clock[p] - 1
                    ELSE clock[p]
    BY DEF Tick, TimePasses
  <1>3. OnTime(p)
    BY DEF Tick
  <1>4. CASE pc[p] = "starting"
    <2>1. clock[p] \in 0 .. Delay /\ ttl - left <= clock[p] /\ clock[p] < Delay
      BY <1>3, <1>4 DEF HolderOnTime, OnTime, Holding, Age
    <2>2. clock'[p] = clock[p] + 1
      BY <1>1, <1>2, <1>4, <2>1, MutexAssumption
    <2>3. Age(p)' = clock'[p]
      BY <1>1, <1>4 DEF Age
    <2>4. clock'[p] \in 0 .. Delay
      BY <2>1, <2>2, MutexAssumption
    <2>5. ttl - left' <= Age(p)'
      <3>1. \A c, l, m, k \in Int : l <= c /\ m <= l + 1 /\ k = c + 1 => m <= k
        OBVIOUS
      <3>2. ttl - left \in Int /\ ttl - left' \in Int /\ clock'[p] \in Int
        BY <1>1, <2>2, MutexAssumption
      <3> QED
        BY <1>1, <2>1, <2>2, <2>3, <3>1, <3>2
    <2> QED
      BY <1>1, <1>4, <2>4, <2>5
  <1>5. CASE pc[p] = "unlocking"
    <2>1. /\ clock[p] \in 0 .. Delay /\ clock[p] < Delay
          /\ ttl - left <= refreshInterval + 2 * Delay + clock[p]
      BY <1>3, <1>5 DEF HolderOnTime, OnTime, Holding, Age
    <2>2. clock'[p] = clock[p] + 1
      BY <1>1, <1>2, <1>5, <2>1, MutexAssumption
    <2>3. Age(p)' = refreshInterval + 2 * Delay + clock'[p]
      BY <1>1, <1>5 DEF Age
    <2>4. clock'[p] \in 0 .. Delay
      BY <2>1, <2>2, MutexAssumption
    <2>5. ttl - left' <= Age(p)'
      <3>1. \A r, d, c, l, m, k \in Int :
               l <= r + 2 * d + c /\ m <= l + 1 /\ k = c + 1
               => m <= r + 2 * d + k
        OBVIOUS
      <3>2. /\ refreshInterval \in Int /\ Delay \in Int
            /\ ttl - left \in Int /\ ttl - left' \in Int /\ clock'[p] \in Int
        BY <1>1, <2>2, MutexAssumption
      <3> QED
        BY <1>1, <2>1, <2>2, <2>3, <3>1, <3>2
    <2> QED
      BY <1>1, <1>5, <2>4, <2>5
  <1>6. CASE pc[p] = "held"
    <2>1. /\ refreshing[p] /\ clock[p] > -Delay /\ clock[p] <= refreshInterval
          /\ ttl - left <= refreshInterval + Delay - clock[p]
      BY <1>3, <1>6 DEF HolderOnTime, OnTime, Holding, Age
    <2>2. clock'[p] = clock[p] - 1
      BY <1>1, <1>2, <1>6, <2>1, MutexAssumption
    <2>3. Age(p)' = refreshInterval + Delay - clock'[p]
      BY <1>1, <1>6 DEF Age
    <2>4. clock'[p] >= -Delay /\ clock'[p] <= refreshInterval
      BY <1>1, <2>1, <2>2, MutexAssumption
    <2>5. ttl - left' <= Age(p)'
      <3>1. \A r, d, c, l, m, k \in Int :
               l <= r + d - c /\ m <= l + 1 /\ k = c - 1 => m <= r + d - k
        OBVIOUS
      <3>2. /\ refreshInterval \in Int /\ Delay \in Int
            /\ ttl - left \in Int /\ ttl - left' \in Int /\ clock'[p] \in Int
        BY <1>1, <2>2, MutexAssumption
      <3> QED
        BY <1>1, <2>1, <2>2, <2>3, <3>1, <3>2
    <2> QED
      BY <1>1, <1>6, <2>1, <2>4, <2>5
  <1>7. CASE pc[p] \notin Holding
    BY <1>1, <1>7 DEF Holding
  <1> QED
    BY <1>4, <1>5, <1>6, <1>7 DEF Holding

(* The steps of a client: each hands the bound on the key's age over to    *)
(* the place it leads to.                                                  *)
LEMMA StepOnTime ==
  TypeOK /\ OneHolder /\ HolderOnTime /\ [Next]_vars => HolderOnTime'
  <1> SUFFICES ASSUME TypeOK, OneHolder, HolderOnTime, [Next]_vars
               PROVE  HolderOnTime'
    OBVIOUS
  <1>t. TypeOK'
    BY TypesStep
  <1> USE MutexAssumption DEF TypeOK, HolderOnTime, Holding, Goto, Age
  <1>1. CASE Tick
    BY <1>1, TickOnTime
  <1>2. CASE UNCHANGED vars
    BY <1>2 DEF vars
  <1>3. ASSUME NEW p \in Clients, Lock(p) \/ GiveUp(p) PROVE HolderOnTime'
    BY <1>3 DEF Lock, GiveUp
  <1>4. ASSUME NEW p \in Clients, tryLock(p) PROVE HolderOnTime'
    BY <1>4 DEF tryLock
  <1>5. ASSUME NEW p \in Clients, tryLockFails(p) PROVE HolderOnTime'
    BY <1>5 DEF tryLockFails
  <1>6. ASSUME NEW p \in Clients, Locked(p) PROVE HolderOnTime'
    BY <1>6 DEF Locked
  <1>7. ASSUME NEW p \in Clients, refreshLock(p) PROVE HolderOnTime'
    BY <1>7, HolderKeepsKey DEF refreshLock, OneHolder
  <1>8. ASSUME NEW p \in Clients, Unlock(p) PROVE HolderOnTime'
    BY <1>8 DEF Unlock
  <1>9. ASSUME NEW p \in Clients, Unlocked(p) PROVE HolderOnTime'
    BY <1>9 DEF Unlocked, OneHolder
  <1>10. ASSUME NEW p \in Clients, UnlockFails(p) PROVE HolderOnTime'
    BY <1>10 DEF UnlockFails
  <1>11. ASSUME NEW p \in Clients, Crash(p) PROVE HolderOnTime'
    BY <1>11 DEF Crash
  <1> QED
    BY <1>1, <1>2, <1>3, <1>4, <1>5, <1>6, <1>7, <1>8, <1>9, <1>10, <1>11
       DEF Next, Step

(* The code of mutex.go: the inductive invariant, for every number of      *)
(* clients and of faults.                                                  *)
THEOREM MutexInvariant == Spec => []MutexInv
  <1>1. MutexInv /\ [Next]_vars => MutexInv'
    <2> SUFFICES ASSUME MutexInv, [Next]_vars PROVE MutexInv'
      OBVIOUS
    <2>1. TypeOK /\ OneHolder /\ HolderOnTime
      BY MutexInvParts
    <2>2. TypeOK' /\ OneHolder' /\ HolderOnTime'
      BY <2>1, TypesStep, OneHolderStep, StepOnTime
    <2> QED
      BY <2>2 DEF MutexInv, OneHolder, HolderOnTime
  <1> QED
    BY InitMutexInv, <1>1, PTL DEF Spec

(* Lock and Unlock: two clients never hold the mutex at a time.            *)
THEOREM MutexExcludes == Spec => []MutualExclusion
  <1>1. MutexInv => MutualExclusion
    BY DEF MutexInv, MutualExclusion, Holding
  <1> QED
    BY MutexInvariant, <1>1, PTL

(* refreshLock and Unlock: the key a holder has set lives until it deletes *)
(* it, so it never deletes that of another.                                *)
THEOREM KeyOutlives == Spec => []KeyOutlivesHolder
  <1>1. MutexInv => KeyOutlivesHolder
    BY MutexInvParts, HolderKeepsKey DEF KeyOutlivesHolder
  <1> QED
    BY MutexInvariant, <1>1, PTL

-----------------------------------------------------------------------------
(* The refinement: the holder of the abstract lock is the client in one of *)
(* the places of Holding.                                                  *)
TheHolder == IF \E p \in Clients : pc[p] \in Holding
               THEN CHOOSE p \in Clients : pc[p] \in Holding
               ELSE NoClient

LEMMA HolderIs ==
  ASSUME OneHolder, NEW p \in Clients, pc[p] \in Holding
  PROVE  TheHolder = p
  BY DEF OneHolder, TheHolder

LEMMA HolderIsNobody ==
  ASSUME \A p \in Clients : pc[p] \notin Holding
  PROVE  TheHolder = NoClient
  BY DEF TheHolder

(* Only the client that steps can become the holder or stop being it.      *)
LEMMA StepOfHolder ==
  ASSUME MutexInv, MutexInv', NEW p \in Clients,
         \A q \in Clients : q # p => pc'[q] = pc[q]
  PROVE  \/ TheHolder' = TheHolder
         \/ TheHolder = NoClient /\ TheHolder' = p
         \/ TheHolder = p /\ TheHolder' = NoClient
  <1> USE DEF MutexInv, TheHolder
  <1>1. CASE \E q \in Clients : q # p /\ pc[q] \in Holding
    BY <1>1
  <1>2. CASE \A q \in Clients : q # p => pc[q] \notin Holding
    <2>1. CASE pc[p] \in Holding /\ pc'[p] \in Holding
      BY <1>2, <2>1
    <2>2. CASE pc[p] \in Holding /\ pc'[p] \notin Holding
      BY <1>2, <2>2
    <2>3. CASE pc[p] \notin Holding /\ pc'[p] \in Holding
      BY <1>2, <2>3
    <2>4. CASE pc[p] \notin Holding /\ pc'[p] \notin Holding
      BY <1>2, <2>4
    <2> QED
      BY <2>1, <2>2, <2>3, <2>4
  <1> QED
    BY <1>1, <1>2

(* The whole of mutex.go implements the lock of ClusterLock.               *)
THEOREM MutexRefinesLock == Spec => ImplementsLock
  <1>1. Init => ALock!LockInit
    BY HolderIsNobody DEF Init, ALock!LockInit, TheHolder, Holding
  <1>2. MutexInv /\ MutexInv' /\ [Next]_vars =>
          [\E p \in Clients : ALock!Acquire(p) \/ ALock!Release(p)]_TheHolder
    <2> SUFFICES ASSUME MutexInv, MutexInv', [Next]_vars
                 PROVE  \/ TheHolder' = TheHolder
                        \/ \E p \in Clients :
                             ALock!Acquire(p) \/ ALock!Release(p)
      OBVIOUS
    <2>1. CASE Tick \/ UNCHANGED vars
      BY <2>1 DEF Tick, vars, TheHolder
    <2>2. ASSUME NEW p \in Clients, Step(p)
          PROVE  \/ TheHolder' = TheHolder
                 \/ ALock!Acquire(p) \/ ALock!Release(p)
      <3>1. \A q \in Clients : q # p => pc'[q] = pc[q]
        BY <2>2 DEF MutexInv, TypeOK, Step, Lock, GiveUp, tryLock, tryLockFails,
             Locked, refreshLock, Unlock, Unlocked, UnlockFails, Crash, Goto
      <3> QED
        BY <3>1, StepOfHolder DEF ALock!Acquire, ALock!Release, TheHolder
    <2> QED
      BY <2>1, <2>2 DEF Next
  <1> QED
    BY MutexInvariant, <1>1, <1>2, PTL
       DEF Spec, ImplementsLock, ALock!LockSpec, TheHolder
=============================================================================
