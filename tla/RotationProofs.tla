--------------------------- MODULE RotationProofs ---------------------------
(* Theorems about Rotation, for every number of instances, secrets,        *)
(* schedules, backends and jobs.                                           *)
EXTENDS Rotation, FiniteSetTheorems, TLAPS

USE RotationAssumption

LEMMA AnyType == AnyInstance \in Instances /\ AnySchedule \in Schedules
  BY DEF AnyInstance, AnySchedule

LEMMA TypeInit == Init => TypeOK
  BY AnyType DEF Init, TypeOK, Places, ByHand

LEMMA SecretType == TypeOK => \A j \in Jobs : Secret(j) \in Secrets
  BY DEF TypeOK, Secret

LEMMA BackendType == TypeOK => \A j \in Jobs : Backend(j) \in Backends
  BY DEF TypeOK, Backend

LEMMA FaultType == ASSUME TypeOK, Fault PROVE faults' \in 0 .. MaxFaults
  BY DEF TypeOK, Fault

LEMMA CallType == ASSUME TypeOK, Call PROVE calls' \in 0 .. MaxCalls
  BY DEF TypeOK, Call

\* What a value that is replaced, or a write that fails, adds to the lost ones.
LEMMA ReplaceType ==
  ASSUME TypeOK, NEW s \in Secrets, NEW v \in [by : Backends \cup {Hand}, gen : Nat],
         Replace(s, v)
  PROVE  /\ val' \in [Secrets -> [by : Backends \cup {Hand}, gen : Nat]]
         /\ gone' \in [Backends -> SUBSET Nat]
         /\ val'[s] = v /\ \A t \in Secrets \ {s} : val'[t] = val[t]
         /\ \A b \in Backends : gone'[b] = gone[b] \cup Overwritten(s, v, b)
  <1>1. \A b \in Backends : Overwritten(s, v, b) \subseteq Nat
    BY DEF TypeOK, Overwritten
  <1> QED
    BY <1>1 DEF TypeOK, Replace

LEMMA NotStoredType ==
  ASSUME TypeOK, NEW J \in SUBSET Jobs, NotStored(J)
  PROVE  /\ gone' \in [Backends -> SUBSET Nat]
         /\ \A b \in Backends : gone'[b] = gone[b] \cup Unstored(J, b)
  <1>1. \A b \in Backends : Unstored(J, b) \subseteq Nat
    BY DEF TypeOK, Unstored
  <1> QED
    BY <1>1 DEF TypeOK, NotStored

LEMMA StoredType ==
  ASSUME TypeOK, NEW j \in Jobs
  PROVE  Stored(j) \in [by : Backends \cup {Hand}, gen : Nat]
  BY BackendType DEF TypeOK, Stored

LEMMA GotoType ==
  ASSUME TypeOK, NEW j \in Jobs, NEW p \in Places, Goto(j, p)
  PROVE  /\ pc' \in [Jobs -> Places]
         /\ pc'[j] = p
         /\ \A k \in Jobs \ {j} : pc'[k] = pc[k]
  BY DEF TypeOK, Goto

LEMMA ReturnType ==
  ASSUME TypeOK, NEW J \in SUBSET Jobs, Return(J)
  PROVE  /\ pc' \in [Jobs -> Places]
         /\ new' \in [Jobs -> Nat]
         /\ hist' \in [Jobs -> {"none", "pending", "failed", "success"}]
         /\ wrote' \in [Jobs -> BOOLEAN]
         /\ home' \in [Jobs -> Instances] /\ of' \in [Jobs -> Schedules]
  BY AnyType DEF TypeOK, Return, Places

LEMMA StartType ==
  ASSUME TypeOK, NEW i \in Instances, NEW J \in SUBSET Jobs, NEW f \in [J -> Schedules],
         Start(f, i)
  PROVE  /\ J \subseteq Idle
         /\ pc' = [j \in Jobs |-> IF j \in J THEN "start" ELSE pc[j]]
         /\ pc' \in [Jobs -> Places]
         /\ home' \in [Jobs -> Instances] /\ of' \in [Jobs -> Schedules]
         /\ \A j \in Jobs \ J : of'[j] = of[j]
  <1>1. DOMAIN f = J
    OBVIOUS
  <1> QED
    BY <1>1 DEF TypeOK, Start, Places

LEMMA WriteHistoryType ==
  ASSUME TypeOK, NEW j \in Jobs, NEW st \in {"pending", "failed", "success"},
         WriteHistory(j, st)
  PROVE  /\ hist' \in [Jobs -> {"none", "pending", "failed", "success"}]
         /\ faults' \in 0 .. MaxFaults
  BY FaultType DEF TypeOK, WriteHistory

\* The three kinds of step a job takes besides its own: it leaves the rest typed.
LEMMA StepType == ASSUME TypeOK, NEW j \in Jobs, Step(j) PROVE TypeOK'
  <1> USE DEF tables, backends, local, ghosts
  <1>0. Secret(j) \in Secrets
    BY SecretType
  <1>1. CASE AcquireLock(j)
    <2>1. lock' \in [Secrets -> Jobs \cup {Nobody}] /\ faults' \in 0 .. MaxFaults
      <3>1. lock' = lock \/ lock' = [lock EXCEPT ![Secret(j)] = j]
        BY <1>1 DEF AcquireLock
      <3>2. lock \in [Secrets -> Jobs \cup {Nobody}]
        BY DEF TypeOK
      <3>3. lock' \in [Secrets -> Jobs \cup {Nobody}]
        BY <1>0, <3>1, <3>2
      <3>4. Fault \/ UNCHANGED faults
        BY <1>1 DEF AcquireLock
      <3>5. faults' \in 0 .. MaxFaults
        BY <3>4, FaultType DEF TypeOK
      <3> QED
        BY <3>3, <3>5
    <2>2. CASE Return({j})
      BY <1>1, <2>1, <2>2, ReturnType DEF AcquireLock, TypeOK
    <2>3. CASE Goto(j, "pending") /\ UNCHANGED <<local, new, hist, wrote, faults>>
      BY <1>1, <2>1, <2>3, GotoType DEF AcquireLock, TypeOK, Places
    <2> QED
      BY <1>1, <2>2, <2>3 DEF AcquireLock
  <1>2. CASE WritePending(j)
    BY <1>2, WriteHistoryType, GotoType DEF WritePending, OnlyLocal, TypeOK, Places
  <1>3. CASE LoadSecret(j)
    <2>1. faults' \in 0 .. MaxFaults
      BY <1>3, FaultType DEF LoadSecret, TypeOK
    <2>2. pc' \in [Jobs -> Places]
      BY <1>3, GotoType DEF LoadSecret, Places
    <2> QED
      BY <1>3, <2>1, <2>2 DEF LoadSecret, OnlyLocal, TypeOK
  <1>4. CASE CallBackend(j)
    <2> DEFINE b == Backend(j)
    <2>0. b \in Backends
      BY BackendType
    <2> HIDE DEF b
    <2>1. faults' \in 0 .. MaxFaults
      BY <1>4, FaultType DEF CallBackend, TypeOK
    <2>2. pc' \in [Jobs -> Places]
      BY <1>4, GotoType DEF CallBackend, Places
    <2>3. /\ installed' = installed \/ installed' = [installed EXCEPT ![b] = installed[b] + 1]
          /\ late' = late \/ late' = [late EXCEPT ![b] = late[b] + 1]
          /\ new' = new \/ new' = [new EXCEPT ![j] = installed[b] + 1]
      <3>1. CASE UNCHANGED <<backends, new>>
        BY <3>1
      <3>2. CASE /\ installed' = [installed EXCEPT ![b] = installed[b] + 1]
                 /\ new' = [new EXCEPT ![j] = installed[b] + 1] /\ late' = late
        BY <3>2
      <3>3. CASE /\ late' = [late EXCEPT ![b] = late[b] + 1]
                 /\ UNCHANGED <<installed, new>>
        BY <3>3
      <3> QED
        BY <1>4, <3>1, <3>2, <3>3 DEF CallBackend, b
    <2>4. installed' \in [Backends -> Nat] /\ late' \in [Backends -> Nat]
      <3>1. installed[b] + 1 \in Nat /\ late[b] + 1 \in Nat
        BY <2>0 DEF TypeOK
      <3>2. installed \in [Backends -> Nat] /\ late \in [Backends -> Nat]
        BY DEF TypeOK
      <3>3. installed' \in [Backends -> Nat]
        BY <2>3, <3>1, <3>2
      <3>4. late' \in [Backends -> Nat]
        BY <2>3, <3>1, <3>2
      <3> QED
        BY <3>3, <3>4
    <2>5. new' \in [Jobs -> Nat]
      BY <2>0, <2>3 DEF TypeOK
    <2> QED
      BY <1>4, <2>1, <2>2, <2>4, <2>5 DEF CallBackend, TypeOK
  <1>5. CASE WriteFailed(j)
    BY <1>5, WriteHistoryType, GotoType DEF WriteFailed, OnlyLocal, TypeOK, Places
  <1>6. CASE WriteValue(j)
    <2>1. faults' \in 0 .. MaxFaults
      BY <1>6, FaultType DEF WriteValue, TypeOK
    <2>2. pc' \in [Jobs -> Places]
      BY <1>6, GotoType DEF WriteValue, Places
    <2>3. wrote' \in [Jobs -> BOOLEAN]
      BY <1>6 DEF WriteValue, TypeOK
    <2>4. /\ val' \in [Secrets -> [by : Backends \cup {Hand}, gen : Nat]]
          /\ gone' \in [Backends -> SUBSET Nat]
      <3>1. CASE Replace(Secret(j), Stored(j))
        BY <1>0, <3>1, ReplaceType, StoredType
      <3>2. CASE NotStored({j}) /\ val' = val
        BY <3>2, NotStoredType DEF TypeOK
      <3> QED
        BY <1>6, <3>1, <3>2 DEF WriteValue
    <2> QED
      BY <1>6, <2>1, <2>2, <2>3, <2>4 DEF WriteValue, TypeOK
  <1>7. CASE Reschedule(j)
    <2>1. faults' \in 0 .. MaxFaults
      BY <1>7, FaultType DEF Reschedule, TypeOK
    <2>2. pc' \in [Jobs -> Places]
      BY <1>7, GotoType DEF Reschedule, Places
    <2>3. sched' \in [Schedules -> [st : {"absent", "on", "deleted"}, next : Nat]]
      <3>1. now + Interval \in Nat
        BY DEF TypeOK
      <3>2. of[j] \in Schedules
        BY DEF TypeOK
      <3>3. [st |-> "on", next |-> now + Interval]
               \in [st : {"absent", "on", "deleted"}, next : Nat]
        BY <3>1
      <3> QED
        BY <1>7, <3>2, <3>3 DEF Reschedule, TypeOK
    <2> QED
      BY <1>7, <2>1, <2>2, <2>3 DEF Reschedule, TypeOK
  <1>8. CASE WriteSuccess(j)
    BY <1>8, WriteHistoryType, GotoType DEF WriteSuccess, OnlyLocal, TypeOK, Places
  <1>9. CASE Unlock(j)
    <2>1. lock' \in [Secrets -> Jobs \cup {Nobody}] /\ faults' \in 0 .. MaxFaults
      BY <1>0, <1>9, FaultType DEF Unlock, TypeOK
    <2>2. lapsed' \subseteq Secrets
      BY <1>9 DEF Unlock, Leave, TypeOK
    <2> QED
      BY <1>9, <2>1, <2>2, ReturnType DEF Unlock, TypeOK
  <1> QED
    BY <1>1, <1>2, <1>3, <1>4, <1>5, <1>6, <1>7, <1>8, <1>9 DEF Step

LEMMA TypeNext == TypeOK /\ [Next]_vars => TypeOK'
  <1> SUFFICES ASSUME TypeOK, [Next]_vars PROVE TypeOK'
    OBVIOUS
  <1> USE DEF tables, backends, local, ghosts
  <1>1. CASE UNCHANGED vars
    BY <1>1 DEF TypeOK, vars
  <1>2. CASE Clock
    BY <1>2 DEF TypeOK, Clock
  <1>3. ASSUME NEW c \in Schedules, CreateRotationSchedule(c) PROVE TypeOK'
    BY <1>3 DEF TypeOK, CreateRotationSchedule
  <1>4. ASSUME NEW c \in Schedules, DeleteRotationSchedule(c) PROVE TypeOK'
    BY <1>4, CallType DEF TypeOK, DeleteRotationSchedule
  <1>5. ASSUME NEW s \in Secrets, DeleteSecret(s) PROVE TypeOK'
    BY <1>5, CallType DEF TypeOK, DeleteSecret
  <1>10. ASSUME NEW s \in Secrets, UpdateSecret(s) PROVE TypeOK'
    <2>1. ByHand \in [by : Backends \cup {Hand}, gen : Nat]
      BY DEF ByHand
    <2>2. calls' \in 0 .. MaxCalls
      BY <1>10, CallType DEF UpdateSecret
    <2>3. /\ val' \in [Secrets -> [by : Backends \cup {Hand}, gen : Nat]]
          /\ gone' \in [Backends -> SUBSET Nat]
      BY <1>10, <2>1, ReplaceType DEF UpdateSecret
    <2> QED
      BY <1>10, <2>2, <2>3 DEF TypeOK, UpdateSecret
  <1>11. ASSUME NEW b \in Backends, LateInstall(b) PROVE TypeOK'
    <2>1. late' \in [Backends -> Nat] /\ installed' \in [Backends -> Nat]
      BY <1>11 DEF TypeOK, LateInstall
    <2>2. gone' \in [Backends -> SUBSET Nat]
      BY <1>11 DEF TypeOK, LateInstall
    <2> QED
      BY <1>11, <2>1, <2>2 DEF TypeOK, LateInstall
  <1>6. ASSUME NEW s \in Secrets, ExpireLock(s) PROVE TypeOK'
    <2>1. faults' \in 0 .. MaxFaults
      BY <1>6, FaultType DEF ExpireLock, TypeOK
    <2> QED
      BY <1>6, <2>1 DEF TypeOK, ExpireLock
  <1>7. ASSUME NEW i \in Instances, Tick(i) PROVE TypeOK'
    <2>0. PICK D \in DueLists, J \in SUBSET Idle :
            \E f \in Bijection(J, D) : Start(f, i)
      BY <1>7 DEF Tick
    <2>1. PICK f \in Bijection(J, D) : Start(f, i)
      BY <2>0
    <2>2. J \in SUBSET Jobs /\ f \in [J -> Schedules]
      BY DEF Idle, DueLists, Due, Bijection, Injection, Surjection
    <2>3. UNCHANGED calls
      BY <1>7 DEF Tick
    <2> HIDE DEF local
    <2>4. /\ pc' \in [Jobs -> Places]
          /\ home' \in [Jobs -> Instances] /\ of' \in [Jobs -> Schedules]
      BY <2>1, <2>2, StartType
    <2> QED
      BY <2>1, <2>3, <2>4 DEF TypeOK, Start
  <1>8. ASSUME NEW i \in Instances, NEW c \in Schedules, TriggerManual(i, c) PROVE TypeOK'
    <2>1. PICK j \in Idle : Start([x \in {j} |-> c], i)
      BY <1>8 DEF TriggerManual
    <2>2. {j} \in SUBSET Jobs /\ [x \in {j} |-> c] \in [{j} -> Schedules]
      BY DEF Idle
    <2>3. calls' \in 0 .. MaxCalls
      BY <1>8, CallType DEF TriggerManual
    <2> HIDE DEF local
    <2>4. /\ pc' \in [Jobs -> Places]
          /\ home' \in [Jobs -> Instances] /\ of' \in [Jobs -> Schedules]
      BY <2>1, <2>2, StartType
    <2> QED
      BY <1>8, <2>1, <2>3, <2>4 DEF TypeOK, Start
  <1>9. ASSUME NEW i \in Instances, Crash(i) PROVE TypeOK'
    <2> DEFINE J == {j \in Jobs : home[j] = i /\ pc[j] # "idle"}
    <2>1. Return(J) /\ faults' \in 0 .. MaxFaults
      BY <1>9, FaultType DEF Crash
    <2>2. gone' \in [Backends -> SUBSET Nat]
      BY <1>9, NotStoredType DEF Crash
    <2>4. late' \in [Backends -> Nat]
      <3>1. ASSUME NEW b \in Backends
            PROVE  Cardinality({j \in J : pc[j] = "call" /\ Backend(j) = b}) \in Nat
        <4>1. {j \in J : pc[j] = "call" /\ Backend(j) = b} \subseteq Jobs
          OBVIOUS
        <4>2. IsFiniteSet({j \in J : pc[j] = "call" /\ Backend(j) = b})
          BY <4>1, FS_Subset
        <4> QED
          BY <4>2, FS_CardinalityType
      <3> DEFINE n(b) == Cardinality({j \in J : pc[j] = "call" /\ Backend(j) = b})
      <3>2. late' = [b \in Backends |-> late[b] + n(b)]
        BY <1>9 DEF Crash
      <3>3. \A b \in Backends : n(b) \in Nat
        BY <3>1
      <3> HIDE DEF n
      <3> QED
        BY <3>2, <3>3 DEF TypeOK
    <2>3. lapsed' \subseteq Secrets
      BY <1>9 DEF Crash, Leave, TypeOK
    <2> QED
      BY <1>9, <2>1, <2>2, <2>3, <2>4, ReturnType DEF TypeOK, Crash
  <1> QED
    BY <1>1, <1>2, <1>3, <1>4, <1>5, <1>6, <1>7, <1>8, <1>9, <1>10, <1>11, StepType
       DEF Next

\* Type correctness of the rotation worker's state.
THEOREM TypeCorrect == Spec => []TypeOK
  BY TypeInit, TypeNext, PTL DEF Spec

-----------------------------------------------------------------------------
\* Steps that neither touch the lock nor let a job in.
LEMMA LockKept ==
  ASSUME HoldsLock, lock' = lock,
         \A k \in Jobs : pc'[k] \in Inside =>
             /\ pc[k] \in Inside /\ of'[k] = of[k]
             /\ Secret(k) \notin lapsed' => Secret(k) \notin lapsed
  PROVE  HoldsLock'
  BY DEF HoldsLock, Secret

\* Where a job that has started or returned can be.
LEMMA ReturnPlaces ==
  ASSUME TypeOK, NEW J \in SUBSET Jobs, Return(J), NEW k \in Jobs, pc'[k] # "idle"
  PROVE  k \notin J /\ pc'[k] = pc[k] /\ of'[k] = of[k] /\ new'[k] = new[k]
  BY DEF TypeOK, Return

LEMMA LeaveKeeps ==
  ASSUME TypeOK, NEW J \in SUBSET Jobs, Leave(J), NEW k \in Jobs \ J, pc[k] \in Inside,
         Secret(k) \notin lapsed'
  PROVE  Secret(k) \notin lapsed
  BY DEF Leave, Holders

\* What a tick or a trigger does to the jobs: only idle ones change.
LEMMA StartKeeps ==
  ASSUME TypeOK, NEW i \in Instances, NEW J \in SUBSET Jobs, NEW f \in [J -> Schedules],
         Start(f, i), NEW k \in Jobs,
         pc'[k] \in Inside \/ pc[k] \in Inside
  PROVE  /\ pc'[k] = pc[k] /\ of'[k] = of[k] /\ new'[k] = new[k]
         /\ lock' = lock /\ UNCHANGED <<val, installed, lapsed, gone>>
  BY StartType DEF Start, Idle, Inside, tables, backends, ghosts

LEMMA BeginKeeps ==
  ASSUME TypeOK, NEW i \in Instances,
         Tick(i) \/ \E c \in Schedules : TriggerManual(i, c),
         NEW k \in Jobs, pc'[k] \in Inside \/ pc[k] \in Inside
  PROVE  pc'[k] = pc[k] /\ of'[k] = of[k] /\ new'[k] = new[k]
  <1>1. CASE Tick(i)
    <2>0. PICK D \in DueLists, J \in SUBSET Idle :
            \E f \in Bijection(J, D) : Start(f, i)
      BY <1>1 DEF Tick
    <2>1. PICK f \in Bijection(J, D) : Start(f, i)
      BY <2>0
    <2>2. J \in SUBSET Jobs /\ f \in [J -> Schedules]
      BY DEF Idle, DueLists, Due, Bijection, Injection, Surjection
    <2> QED
      BY <2>1, <2>2, StartKeeps
  <1>2. ASSUME NEW c \in Schedules, TriggerManual(i, c)
        PROVE  pc'[k] = pc[k] /\ of'[k] = of[k] /\ new'[k] = new[k]
    <2>1. PICK j \in Idle : Start([x \in {j} |-> c], i)
      BY <1>2 DEF TriggerManual
    <2>2. {j} \in SUBSET Jobs /\ [x \in {j} |-> c] \in [{j} -> Schedules]
      BY DEF Idle
    <2> QED
      BY <2>1, <2>2, StartKeeps
  <1> QED
    BY <1>1, <1>2

LEMMA BeginFrame ==
  ASSUME NEW i \in Instances, Tick(i) \/ \E c \in Schedules : TriggerManual(i, c)
  PROVE  UNCHANGED <<lock, val, installed, lapsed, gone>>
  BY DEF Tick, TriggerManual, Start, tables, backends, ghosts

LEMMA LockNext == TypeOK /\ HoldsLock /\ [Next]_vars => HoldsLock'
  <1> SUFFICES ASSUME TypeOK, HoldsLock, [Next]_vars PROVE HoldsLock'
    OBVIOUS
  <1> USE DEF tables, backends, local, ghosts
  <1>1. CASE UNCHANGED vars
    BY <1>1 DEF HoldsLock, Secret, vars
  <1>2. CASE \/ Clock
             \/ \E c \in Schedules : CreateRotationSchedule(c) \/ DeleteRotationSchedule(c)
             \/ \E s \in Secrets : DeleteSecret(s) \/ UpdateSecret(s)
             \/ \E b \in Backends : LateInstall(b)
    BY <1>2, LockKept DEF Clock, CreateRotationSchedule, DeleteRotationSchedule, DeleteSecret,
                          UpdateSecret, LateInstall
  <1>3. ASSUME NEW i \in Instances, Tick(i) \/ \E c \in Schedules : TriggerManual(i, c)
        PROVE  HoldsLock'
    BY <1>3, BeginKeeps, BeginFrame, LockKept
  <1>4. ASSUME NEW j \in Jobs, NEW p \in Places, pc[j] \in Inside, Goto(j, p),
               UNCHANGED <<lock, lapsed, of>>
        PROVE  HoldsLock'
    BY <1>4, GotoType, LockKept
  <1>5. ASSUME NEW j \in Jobs,
               \/ WritePending(j) \/ LoadSecret(j) \/ WriteFailed(j) \/ WriteSuccess(j)
               \/ CallBackend(j) \/ WriteValue(j) \/ Reschedule(j)
        PROVE  HoldsLock'
    <2>1. pc[j] \in Inside /\ UNCHANGED <<lock, lapsed, of>>
      BY <1>5 DEF WritePending, LoadSecret, WriteFailed, WriteSuccess, CallBackend,
                  WriteValue, Reschedule, OnlyLocal, Inside, Places
    <2>2. \E p \in Places : Goto(j, p)
      BY <1>5 DEF WritePending, LoadSecret, WriteFailed, WriteSuccess, CallBackend,
                  WriteValue, Reschedule, Places
    <2> QED
      BY <1>4, <2>1, <2>2
  <1>6. ASSUME NEW j \in Jobs, AcquireLock(j) PROVE HoldsLock'
    <2>1. pc[j] = "start" /\ Secret(j) \in Secrets /\ lapsed' = lapsed
      BY <1>6, SecretType DEF AcquireLock
    <2>2. \A k \in Jobs \ {j} : pc'[k] \in Inside => pc[k] \in Inside /\ of'[k] = of[k]
      BY <1>6, GotoType, ReturnPlaces DEF AcquireLock, Inside, Places
    <2>3. pc'[j] \in Inside => of'[j] = of[j]
      BY <1>6, ReturnPlaces DEF AcquireLock, Inside, Places
    <2>4. CASE lock[Secret(j)] = Nobody /\ lock' = [lock EXCEPT ![Secret(j)] = j]
      <3>1. ASSUME NEW k \in Jobs, pc'[k] \in Inside, SecretOf[of'[k]] \notin lapsed'
            PROVE  lock'[SecretOf[of'[k]]] = k
        <4>1. CASE k = j
          BY <2>1, <2>3, <2>4, <3>1, <4>1 DEF TypeOK, Secret
        <4>2. CASE k # j
          <5>1. lock[Secret(k)] = k /\ Secret(k) \in Secrets
            BY <2>1, <2>2, <3>1, <4>2, SecretType DEF HoldsLock, Secret
          <5> QED
            BY <2>2, <2>4, <3>1, <4>2, <5>1 DEF TypeOK, Secret
        <4> QED
          BY <4>1, <4>2
      <3> QED
        BY <3>1 DEF HoldsLock, Secret
    <2>5. CASE lock' = lock /\ Return({j})
      BY <2>1, <2>2, <2>5, LockKept, ReturnPlaces DEF Inside, Places
    <2> QED
      BY <1>6, <2>4, <2>5 DEF AcquireLock
  <1>7. ASSUME NEW j \in Jobs, Unlock(j) PROVE HoldsLock'
    <2>1. pc[j] = "unlock" /\ Return({j}) /\ Leave({j}) /\ Secret(j) \in Secrets
      BY <1>7, SecretType DEF Unlock
    <2>2. ASSUME NEW k \in Jobs, pc'[k] \in Inside, SecretOf[of'[k]] \notin lapsed'
          PROVE  lock'[SecretOf[of'[k]]] = k
      <3>1. k # j /\ pc[k] \in Inside /\ of'[k] = of[k]
        BY <2>1, <2>2, ReturnPlaces DEF Inside, Places
      <3>2. Secret(k) \notin lapsed
        BY <2>1, <2>2, <3>1, LeaveKeeps DEF Secret
      <3>3. lock[Secret(k)] = k /\ Secret(k) \in Secrets
        BY <3>1, <3>2, SecretType DEF HoldsLock
      <3>4. Secret(j) = Secret(k) => lock[Secret(k)] = j
        BY <2>1, <3>2 DEF HoldsLock, Inside, Places
      <3> QED
        BY <1>7, <2>1, <3>1, <3>3, <3>4 DEF Unlock, TypeOK, Secret
    <2> QED
      BY <2>2 DEF HoldsLock, Secret
  <1>8. ASSUME NEW s \in Secrets, ExpireLock(s) PROVE HoldsLock'
    <2>1. UNCHANGED <<pc, of>> /\ lock' = [lock EXCEPT ![s] = Nobody] /\ lapsed \subseteq lapsed'
      BY <1>8 DEF ExpireLock
    <2>2. \A k \in Jobs : (pc[k] \in Inside /\ Secret(k) = s) => s \in lapsed'
      BY <1>8 DEF ExpireLock, HoldsLock, Holders
    <2> QED
      BY <2>1, <2>2, SecretType DEF HoldsLock, Secret, TypeOK
  <1>9. ASSUME NEW i \in Instances, Crash(i) PROVE HoldsLock'
    <2> DEFINE J == {j \in Jobs : home[j] = i /\ pc[j] # "idle"}
    <2>1. J \in SUBSET Jobs /\ Return(J) /\ Leave(J) /\ lock' = lock
      BY <1>9 DEF Crash
    <2> HIDE DEF J
    <2> QED
      BY <2>1, LockKept, ReturnPlaces, LeaveKeeps DEF Inside, Places
  <1> QED
    BY <1>1, <1>2, <1>3, <1>5, <1>6, <1>7, <1>8, <1>9 DEF Next, Step

LEMMA LockInit == Init => HoldsLock
  BY DEF Init, HoldsLock, Inside, Places

LEMMA LockInvariant == Spec => [](TypeOK /\ HoldsLock)
  BY TypeInit, TypeNext, LockInit, LockNext, PTL DEF Spec

\* However many instances, ticks, triggers, crashes and Redis failures there are, a
\* secret is in the hands of one rotate goroutine at most, unless one of them
\* outlived its 30-second lock.
THEOREM OneRotationAtATime == Spec => []MutualExclusion
  <1>1. HoldsLock => MutualExclusion
    BY DEF HoldsLock, MutualExclusion
  <1> QED
    BY <1>1, LockInvariant, PTL

-----------------------------------------------------------------------------
\* Credentials that are lost stay so; the rest is where it was, or is lost.
LEMMA SyncKept ==
  ASSUME TypeOK, SyncInv, UNCHANGED <<val, installed>>,
         \A b \in Backends : gone[b] \subseteq gone'[b],
         \A k \in Jobs : pc'[k] = "write" =>
             /\ pc[k] = "write" /\ of'[k] = of[k] /\ new'[k] = new[k]
             /\ Secret(k) \notin lapsed' => Secret(k) \notin lapsed,
         \A k \in Jobs : pc[k] = "write" =>
             \/ pc'[k] = "write" /\ of'[k] = of[k] /\ new'[k] = new[k]
             \/ new[k] \in gone'[Backend(k)]
  PROVE  SyncInv'
  <1>1. PendingValueIsLatest'
    <2> SUFFICES ASSUME NEW k \in Jobs, pc'[k] = "write", Secret(k)' \notin lapsed',
                        Serves(Backend(k)', Secret(k)'),
                        NEW g \in (new'[k] + 1) .. installed'[Backend(k)']
                 PROVE  g \in gone'[Backend(k)']
      BY DEF PendingValueIsLatest, Serves
    <2>1. /\ pc[k] = "write" /\ Secret(k)' = Secret(k) /\ Backend(k)' = Backend(k)
          /\ new'[k] = new[k] /\ Secret(k) \notin lapsed
      BY DEF Secret, Backend
    <2>2. g \in gone[Backend(k)]
      BY <2>1 DEF SyncInv, PendingValueIsLatest
    <2> QED
      BY <2>1, <2>2, BackendType
  <1>2. ASSUME NEW s \in Secrets, NEW b \in Backends, Serves(b, s),
               NEW g \in 1 .. installed[b]
        PROVE  \/ g \in gone'[b]
               \/ val[s].by = b /\ g <= val[s].gen
               \/ \E j \in Jobs : pc'[j] = "write" /\ Backend(j)' = b /\ new'[j] = g
    <2>1. \/ g \in gone[b]
          \/ val[s].by = b /\ g <= val[s].gen
          \/ \E j \in Jobs : pc[j] = "write" /\ Backend(j) = b /\ new[j] = g
      BY <1>2 DEF SyncInv
    <2> QED
      BY <2>1 DEF Backend
  <1> QED
    BY <1>1, <1>2 DEF SyncInv, Serves

\* A job inside its lock is the only one that can be about to write its secret.
LEMMA SoleWriter ==
  ASSUME HoldsLock, NEW j \in Jobs, pc[j] \in Inside, Secret(j) \notin lapsed,
         NEW k \in Jobs, pc[k] = "write", Secret(k) = Secret(j)
  PROVE  k = j
  BY DEF HoldsLock, Inside, Places

\* A backend installs one more credential, b's, which job j may be told.
LEMMA SyncInstall ==
  ASSUME TypeOK, SyncInv, NEW b \in Backends,
         installed' = [installed EXCEPT ![b] = @ + 1],
         UNCHANGED <<val, of, lapsed>>,
         \A c \in Backends : gone[c] \subseteq gone'[c],
         \A k \in Jobs : pc[k] = "write" => pc'[k] = "write" /\ new'[k] = new[k],
         \A k \in Jobs : pc'[k] = "write" =>
             \/ pc[k] = "write" /\ new'[k] = new[k]
             \/ Backend(k) = b /\ new'[k] = installed[b] + 1,
         \/ installed[b] + 1 \in gone'[b]
         \/ /\ \E k \in Jobs : pc'[k] = "write" /\ Backend(k) = b /\ new'[k] = installed[b] + 1
            /\ \A k \in Jobs : (pc[k] = "write" /\ Backend(k) = b /\ Serves(b, Secret(k)))
                                  => Secret(k) \in lapsed
  PROVE  SyncInv'
  <1>0. /\ installed[b] \in Nat /\ installed'[b] = installed[b] + 1
        /\ \A c \in Backends \ {b} : installed'[c] = installed[c]
        /\ \A c \in Backends : installed[c] \in Nat
    BY DEF TypeOK
  <1>1. ASSUME NEW k \in Jobs, pc'[k] = "write", Secret(k) \notin lapsed,
               Serves(Backend(k), Secret(k)),
               NEW g \in (new'[k] + 1) .. installed'[Backend(k)]
        PROVE  g \in gone'[Backend(k)]
    <2>0. Backend(k) \in Backends
      BY BackendType
    <2>1. CASE pc[k] = "write" /\ new'[k] = new[k]
      <3>0. new[k] \in Nat
        BY DEF TypeOK
      <3>1. CASE Backend(k) = b /\ g = installed[b] + 1
        BY <1>1, <2>1, <3>1
      <3>2. CASE ~(Backend(k) = b /\ g = installed[b] + 1)
        <4>1. g \in (new[k] + 1) .. installed[Backend(k)]
          BY <1>0, <1>1, <2>0, <2>1, <3>0, <3>2
        <4>2. g \in gone[Backend(k)]
          BY <1>1, <2>1, <4>1 DEF SyncInv, PendingValueIsLatest
        <4> QED
          BY <2>0, <4>2
      <3> QED
        BY <3>1, <3>2
    <2>2. CASE Backend(k) = b /\ new'[k] = installed[b] + 1
      BY <1>0, <1>1, <2>2
    <2> QED
      BY <1>1, <2>1, <2>2
  <1>2. ASSUME NEW s \in Secrets, NEW c \in Backends, Serves(c, s),
               NEW g \in 1 .. installed'[c]
        PROVE  \/ g \in gone'[c]
               \/ val[s].by = c /\ g <= val[s].gen
               \/ \E j \in Jobs : pc'[j] = "write" /\ Backend(j) = c /\ new'[j] = g
    <2>1. CASE c = b /\ g = installed[b] + 1
      BY <2>1
    <2>2. CASE ~(c = b /\ g = installed[b] + 1)
      <3>1. g \in 1 .. installed[c]
        BY <1>0, <2>2
      <3>2. \/ g \in gone[c]
            \/ val[s].by = c /\ g <= val[s].gen
            \/ \E j \in Jobs : pc[j] = "write" /\ Backend(j) = c /\ new[j] = g
        BY <1>2, <3>1 DEF SyncInv
      <3> QED
        BY <3>2
    <2> QED
      BY <2>1, <2>2
  <1>3. \A k \in Jobs : Secret(k)' = Secret(k) /\ Backend(k)' = Backend(k)
    BY DEF Secret, Backend
  <1> QED
    BY <1>1, <1>2, <1>3 DEF SyncInv, PendingValueIsLatest, Serves

LEMMA SyncCallBackend ==
  ASSUME TypeOK, HoldsLock, SyncInv, NEW j \in Jobs, CallBackend(j)
  PROVE  SyncInv'
  <1> DEFINE b == Backend(j)
  <1>0. /\ b \in Backends /\ pc[j] = "call" /\ pc[j] \in Inside
        /\ UNCHANGED <<val, of, lapsed, gone>>
    BY BackendType DEF CallBackend, Inside, Places, tables, local, ghosts
  <1>1. CASE installed' = installed /\ Goto(j, "failed") /\ new' = new
    <2>1. pc'[j] = "failed" /\ \A k \in Jobs \ {j} : pc'[k] = pc[k]
      BY <1>1, GotoType DEF Places
    <2> QED
      BY <1>0, <1>1, <2>1, SyncKept
  <1>2. CASE /\ installed' = [installed EXCEPT ![b] = @ + 1]
             /\ new' = [new EXCEPT ![j] = installed[b] + 1] /\ Goto(j, "write")
    <2>1. /\ pc'[j] = "write" /\ new'[j] = installed[b] + 1
          /\ \A k \in Jobs \ {j} : pc'[k] = pc[k] /\ new'[k] = new[k]
      BY <1>2, GotoType DEF Places, TypeOK
    <2>2. ASSUME NEW k \in Jobs, pc[k] = "write", Backend(k) = b, Serves(b, Secret(k))
          PROVE  Secret(k) \in lapsed
      <3>1. Secret(j) = Secret(k)
        BY <2>2 DEF Serves, Secret, Backend, TypeOK
      <3> QED
        BY <1>0, <2>2, <3>1, SoleWriter
    <2> HIDE DEF b
    <2> QED
      BY <1>0, <1>2, <2>1, <2>2, SyncInstall DEF b
  <1> QED
    BY <1>1, <1>2 DEF CallBackend, backends

LEMMA SyncLateInstall ==
  ASSUME TypeOK, SyncInv, NEW b \in Backends, LateInstall(b)
  PROVE  SyncInv'
  <1>1. /\ installed' = [installed EXCEPT ![b] = @ + 1]
        /\ UNCHANGED <<val, of, lapsed, pc, new>>
    BY DEF LateInstall, tables, local
  <1>2. /\ installed[b] + 1 \in gone'[b]
        /\ \A c \in Backends : gone[c] \subseteq gone'[c]
    BY DEF LateInstall, TypeOK
  <1> QED
    BY <1>1, <1>2, SyncInstall

\* A value replaces that of secret s: what a backend of s had there is lost, or older
\* than the new value.
LEMMA SyncReplace ==
  ASSUME TypeOK, SyncInv, NEW s \in Secrets,
         NEW v \in [by : Backends \cup {Hand}, gen : Nat],
         Replace(s, v), UNCHANGED <<installed, of, new, lapsed>>,
         \A k \in Jobs : pc'[k] = "write" => pc[k] = "write",
         \A k \in Jobs : pc[k] = "write" => pc'[k] = "write" \/ v = Stored(k),
         \A k \in Jobs : pc[k] = "write" /\ pc'[k] # "write" => Secret(k) = s,
         \A b \in Backends : (Serves(b, s) /\ v.by = b /\ s \notin lapsed) =>
             \A g \in (v.gen + 1) .. installed[b] : g \in gone[b]
  PROVE  SyncInv'
  <1>0. /\ val'[s] = v /\ \A t \in Secrets \ {s} : val'[t] = val[t]
        /\ \A b \in Backends : gone'[b] = gone[b] \cup Overwritten(s, v, b)
    BY ReplaceType
  <1>1. \A k \in Jobs : Secret(k)' = Secret(k) /\ Backend(k)' = Backend(k)
    BY DEF Secret, Backend
  <1>2. PendingValueIsLatest'
    BY <1>0, <1>1, BackendType DEF SyncInv, PendingValueIsLatest, Serves
  <1>3. ASSUME NEW t \in Secrets, NEW b \in Backends, Serves(b, t),
               NEW g \in 1 .. installed[b]
        PROVE  \/ g \in gone'[b]
               \/ val'[t].by = b /\ g <= val'[t].gen
               \/ \E j \in Jobs : pc'[j] = "write" /\ Backend(j) = b /\ new[j] = g
    <2>0. installed[b] \in Nat /\ v.gen \in Nat /\ val[s].gen \in Nat /\ g \in Nat
      BY DEF TypeOK
    <2>1. CASE g \in gone[b]
      BY <1>0, <2>1
    <2>2. CASE val[t].by = b /\ g <= val[t].gen
      <3>1. CASE t # s
        BY <1>0, <2>2, <3>1
      <3>2. CASE t = s /\ v.by # b
        <4>1. g \in Overwritten(s, v, b)
          BY <2>0, <2>2, <3>2 DEF Overwritten
        <4> QED
          BY <1>0, <4>1
      <3>3. CASE t = s /\ v.by = b /\ s \in lapsed
        <4>1. g <= v.gen \/ g \in Overwritten(s, v, b)
          BY <2>0, <2>2, <3>3 DEF Overwritten
        <4> QED
          BY <1>0, <3>3, <4>1
      <3>4. CASE t = s /\ v.by = b /\ s \notin lapsed
        <4>1. g <= v.gen \/ g \in gone[b]
          BY <1>3, <2>0, <3>4
        <4> QED
          BY <1>0, <3>4, <4>1
      <3> QED
        BY <3>1, <3>2, <3>3, <3>4
    <2>3. ASSUME NEW j \in Jobs, pc[j] = "write", Backend(j) = b, new[j] = g
          PROVE  \/ val'[t].by = b /\ g <= val'[t].gen
                 \/ \E k \in Jobs : pc'[k] = "write" /\ Backend(k) = b /\ new[k] = g
      <3>1. CASE pc'[j] = "write"
        BY <2>3, <3>1
      <3>2. CASE pc'[j] # "write"
        <4>1. v = Stored(j) /\ Secret(j) = s
          BY <2>3, <3>2
        <4>2. t = s
          BY <1>3, <2>3, <4>1 DEF Serves, Secret, Backend, TypeOK
        <4> QED
          BY <1>0, <2>0, <2>3, <4>1, <4>2 DEF Stored
      <3> QED
        BY <3>1, <3>2
    <2> QED
      BY <1>3, <2>1, <2>2, <2>3 DEF SyncInv
  <1> QED
    BY <1>1, <1>2, <1>3 DEF SyncInv, Serves

LEMMA SyncWriteValue ==
  ASSUME TypeOK, SyncInv, NEW j \in Jobs, WriteValue(j)
  PROVE  SyncInv'
  <1>0. /\ Secret(j) \in Secrets /\ Backend(j) \in Backends
        /\ pc[j] = "write" /\ pc'[j] # "write"
        /\ UNCHANGED <<installed, of, new, lapsed>>
        /\ \A k \in Jobs \ {j} : pc'[k] = pc[k]
    BY SecretType, BackendType, GotoType DEF WriteValue, Places, local, backends
  <1>1. CASE val' = val /\ NotStored({j})
    <2>1. new[j] \in Unstored({j}, Backend(j))
      BY <1>0 DEF Unstored
    <2>2. /\ new[j] \in gone'[Backend(j)]
          /\ \A b \in Backends : gone[b] \subseteq gone'[b]
      BY <1>0, <1>1, <2>1, NotStoredType
    <2> QED
      BY <1>0, <1>1, <2>2, SyncKept
  <1>2. CASE Replace(Secret(j), Stored(j))
    <2>1. Stored(j).by = Backend(j) /\ Stored(j).gen = new[j]
      BY DEF Stored
    <2>2. ASSUME NEW b \in Backends, Serves(b, Secret(j)), Stored(j).by = b,
                 Secret(j) \notin lapsed
          PROVE  \A g \in (Stored(j).gen + 1) .. installed[b] : g \in gone[b]
      BY <1>0, <2>1, <2>2 DEF SyncInv, PendingValueIsLatest
    <2>3. \A k \in Jobs : pc'[k] = "write" => pc[k] = "write"
      BY <1>0
    <2>4. \A k \in Jobs : pc[k] = "write" /\ pc'[k] # "write" => k = j
      BY <1>0
    <2>5. \A k \in Jobs : pc[k] = "write" => pc'[k] = "write" \/ Stored(j) = Stored(k)
      BY <2>4
    <2>6. \A k \in Jobs : pc[k] = "write" /\ pc'[k] # "write" => Secret(k) = Secret(j)
      BY <2>4
    <2> QED
      BY <1>0, <1>2, <2>2, <2>3, <2>5, <2>6, StoredType, SyncReplace
  <1> QED
    BY <1>1, <1>2 DEF WriteValue

LEMMA SyncUpdateSecret ==
  ASSUME TypeOK, SyncInv, NEW s \in Secrets, UpdateSecret(s)
  PROVE  SyncInv'
  <1>1. ByHand \in [by : Backends \cup {Hand}, gen : Nat] /\ ByHand.by \notin Backends
    BY DEF ByHand
  <1>2. Replace(s, ByHand) /\ UNCHANGED <<installed, of, new, lapsed, pc>>
    BY DEF UpdateSecret, backends, local
  <1> QED
    BY <1>1, <1>2, SyncReplace

LEMMA SyncNext == TypeOK /\ HoldsLock /\ SyncInv /\ [Next]_vars => SyncInv'
  <1> SUFFICES ASSUME TypeOK, HoldsLock, SyncInv, [Next]_vars PROVE SyncInv'
    OBVIOUS
  <1> USE DEF tables, backends, local, ghosts
  <1>1. CASE UNCHANGED <<val, installed, lapsed, gone, pc, of, new>>
    BY <1>1, SyncKept
  <1>2. CASE \/ UNCHANGED vars
             \/ Clock
             \/ \E c \in Schedules : CreateRotationSchedule(c) \/ DeleteRotationSchedule(c)
             \/ \E s \in Secrets : DeleteSecret(s)
    BY <1>1, <1>2 DEF vars, Clock, CreateRotationSchedule, DeleteRotationSchedule, DeleteSecret
  <1>3. ASSUME NEW i \in Instances, Tick(i) \/ \E c \in Schedules : TriggerManual(i, c)
        PROVE  SyncInv'
    <2>1. \A k \in Jobs : pc'[k] = "write" \/ pc[k] = "write" =>
             pc'[k] = pc[k] /\ of'[k] = of[k] /\ new'[k] = new[k]
      BY <1>3, BeginKeeps DEF Inside, Places
    <2> QED
      BY <1>3, <2>1, BeginFrame, SyncKept
  <1>4. ASSUME NEW j \in Jobs,
               \/ WritePending(j) \/ LoadSecret(j) \/ WriteFailed(j) \/ WriteSuccess(j)
               \/ Reschedule(j)
        PROVE  SyncInv'
    <2>1. pc[j] # "write" /\ UNCHANGED <<val, installed, lapsed, gone, of, new>>
      BY <1>4 DEF WritePending, LoadSecret, WriteFailed, WriteSuccess, Reschedule, OnlyLocal
    <2>2. PICK p \in Places : p # "write" /\ Goto(j, p)
      BY <1>4 DEF WritePending, LoadSecret, WriteFailed, WriteSuccess, Reschedule, Places
    <2>3. \A k \in Jobs : pc'[k] = "write" <=> pc[k] = "write"
      BY <2>1, <2>2, GotoType
    <2> QED
      BY <2>1, <2>3, SyncKept
  <1>5. ASSUME NEW j \in Jobs, AcquireLock(j) PROVE SyncInv'
    <2>1. /\ pc[j] = "start" /\ UNCHANGED <<val, installed, lapsed, gone>>
      BY <1>5 DEF AcquireLock
    <2>2. CASE Return({j})
      <3>1. \A k \in Jobs : pc'[k] = "write" =>
               pc[k] = "write" /\ of'[k] = of[k] /\ new'[k] = new[k]
        BY <2>2, ReturnPlaces
      <3>2. \A k \in Jobs : pc[k] = "write" =>
               pc'[k] = "write" /\ of'[k] = of[k] /\ new'[k] = new[k]
        BY <2>1, <2>2 DEF Return
      <3> QED
        BY <2>1, <3>1, <3>2, SyncKept
    <2>3. CASE Goto(j, "pending") /\ UNCHANGED <<of, new>>
      <3>1. \A k \in Jobs : pc'[k] = "write" <=> pc[k] = "write"
        BY <2>1, <2>3, GotoType DEF Places
      <3> QED
        BY <2>1, <2>3, <3>1, SyncKept
    <2> QED
      BY <1>5, <2>2, <2>3 DEF AcquireLock
  <1>6. ASSUME NEW J \in SUBSET Jobs, Return(J), Leave(J), UNCHANGED <<val, installed>>,
               \A b \in Backends : gone[b] \subseteq gone'[b],
               \A j \in J : pc[j] = "write" => new[j] \in gone'[Backend(j)]
        PROVE  SyncInv'
    <2>1. \A k \in Jobs : pc'[k] = "write" =>
             /\ pc[k] = "write" /\ of'[k] = of[k] /\ new'[k] = new[k]
             /\ Secret(k) \notin lapsed' => Secret(k) \notin lapsed
      BY <1>6, ReturnPlaces, LeaveKeeps DEF Inside, Places
    <2>2. \A k \in Jobs : pc[k] = "write" =>
             \/ pc'[k] = "write" /\ of'[k] = of[k] /\ new'[k] = new[k]
             \/ new[k] \in gone'[Backend(k)]
      BY <1>6 DEF Return
    <2> QED
      BY <1>6, <2>1, <2>2, SyncKept
  <1>7. ASSUME NEW j \in Jobs, Unlock(j) PROVE SyncInv'
    BY <1>6, <1>7 DEF Unlock
  <1>8. ASSUME NEW i \in Instances, Crash(i) PROVE SyncInv'
    <2> DEFINE J == {j \in Jobs : home[j] = i /\ pc[j] # "idle"}
    <2>1. /\ J \in SUBSET Jobs /\ Return(J) /\ Leave(J) /\ UNCHANGED <<val, installed>>
          /\ NotStored(J)
      BY <1>8 DEF Crash
    <2>2. \A b \in Backends : gone[b] \subseteq gone'[b]
      BY <2>1, NotStoredType
    <2>3. ASSUME NEW j \in J, pc[j] = "write" PROVE new[j] \in gone'[Backend(j)]
      <3>1. new[j] \in Unstored(J, Backend(j))
        BY <2>3 DEF Unstored
      <3> QED
        BY <2>1, <3>1, NotStoredType, BackendType
    <2> HIDE DEF J
    <2> QED
      BY <1>6, <2>1, <2>2, <2>3
  <1>9. ASSUME NEW s \in Secrets, ExpireLock(s) PROVE SyncInv'
    <2>1. UNCHANGED <<val, installed, pc, of, new, gone>> /\ lapsed \subseteq lapsed'
      BY <1>9 DEF ExpireLock
    <2> QED
      BY <2>1, SyncKept
  <1> QED
    BY <1>2, <1>3, <1>4, <1>5, <1>7, <1>8, <1>9, SyncCallBackend, SyncWriteValue,
       SyncUpdateSecret, SyncLateInstall DEF Next, Step

LEMMA SyncInit == Init => SyncInv
  BY DEF Init, SyncInv, PendingValueIsLatest, ByHand

LEMMA SyncInvariant == Spec => []SyncInv
  BY TypeInit, TypeNext, LockInit, LockNext, SyncInit, SyncNext, PTL DEF Spec

\* The newest credential a backend installed for a secret is its value once nobody
\* rotates it, unless it came late, the store failed to take it, or another value
\* was written over it.
THEOREM StoreMatchesBackend == Spec => []InSync
  <1>1. TypeOK /\ SyncInv => InSync
    <2> SUFFICES ASSUME TypeOK, SyncInv, NEW s \in Secrets, NEW b \in Backends,
                        Serves(b, s), Holders(s) = {}, NEW g \in 1 .. installed[b]
                 PROVE  g \in gone[b] \/ (val[s].by = b /\ g <= val[s].gen)
      BY DEF InSync
    <2>1. ASSUME NEW j \in Jobs, pc[j] = "write", Backend(j) = b PROVE FALSE
      <3>1. Secret(j) = s
        BY <2>1 DEF TypeOK, Serves, Secret, Backend
      <3> QED
        BY <2>1, <3>1 DEF Holders, Inside, Places
    <2> QED
      BY <2>1 DEF SyncInv
  <1> QED
    BY <1>1, TypeInit, TypeNext, SyncInvariant, PTL DEF Spec

\* What a rotation is about to store is the newest credential that its backend
\* installed for a call that was answered.
THEOREM PendingIsLatest == Spec => []PendingValueIsLatest
  <1>1. SyncInv => PendingValueIsLatest
    BY DEF SyncInv
  <1> QED
    BY <1>1, SyncInvariant, PTL
-----------------------------------------------------------------------------
OutcomeInv == HistoryTruthful /\ OutcomeKnown

\* A step that leaves every other job where and as it was.
LEMMA OutcomeOf ==
  ASSUME OutcomeInv, NEW j \in Jobs,
         \A k \in Jobs \ {j} : pc'[k] = pc[k] /\ hist'[k] = hist[k] /\ wrote'[k] = wrote[k],
         hist'[j] = "success" => wrote'[j], hist'[j] = "failed" => ~wrote'[j],
         pc'[j] \in {"idle", "start", "pending"} => hist'[j] = "none" /\ ~wrote'[j],
         pc'[j] \in {"load", "call", "write"} => hist'[j] \in {"none", "pending"} /\ ~wrote'[j],
         pc'[j] = "failed" => ~wrote'[j],
         pc'[j] \in {"reschedule", "success"} => wrote'[j]
  PROVE  OutcomeInv'
  BY DEF OutcomeInv, HistoryTruthful, OutcomeKnown

\* Goroutines that return, and their rows with them.
LEMMA OutcomeReturn ==
  ASSUME TypeOK, OutcomeInv, NEW J \in SUBSET Jobs, Return(J)
  PROVE  OutcomeInv'
  <1>1. ASSUME NEW k \in Jobs
        PROVE  \/ pc'[k] = pc[k] /\ hist'[k] = hist[k] /\ wrote'[k] = wrote[k]
               \/ pc'[k] = "idle" /\ hist'[k] = "none" /\ wrote'[k] = FALSE
    BY DEF Return
  <1> QED
    BY <1>1 DEF OutcomeInv, HistoryTruthful, OutcomeKnown

LEMMA OutcomeNext == TypeOK /\ OutcomeInv /\ [Next]_vars => OutcomeInv'
  <1> SUFFICES ASSUME TypeOK, OutcomeInv, [Next]_vars PROVE OutcomeInv'
    OBVIOUS
  <1> USE DEF tables, backends, local, ghosts
  <1>1. CASE UNCHANGED <<pc, hist, wrote>>
    BY <1>1 DEF OutcomeInv, HistoryTruthful, OutcomeKnown
  <1>2. ASSUME \/ UNCHANGED vars \/ Clock
               \/ \E c \in Schedules : CreateRotationSchedule(c) \/ DeleteRotationSchedule(c)
               \/ \E s \in Secrets : DeleteSecret(s) \/ UpdateSecret(s) \/ ExpireLock(s)
               \/ \E b \in Backends : LateInstall(b)
        PROVE  UNCHANGED <<pc, hist, wrote>>
    BY <1>2 DEF vars, Clock, CreateRotationSchedule, DeleteRotationSchedule, DeleteSecret,
                UpdateSecret, LateInstall, ExpireLock
  \* Only idle jobs start.
  <1>3. ASSUME NEW i \in Instances, NEW J \in SUBSET Jobs, NEW f \in [J -> Schedules],
               Start(f, i)
        PROVE  OutcomeInv'
    <2>0. DOMAIN f = J
      OBVIOUS
    <2>1. J \subseteq Idle /\ pc' = [j \in Jobs |-> IF j \in J THEN "start" ELSE pc[j]]
      BY <1>3, <2>0 DEF Start
    <2>2. UNCHANGED <<hist, wrote>>
      BY <1>3 DEF Start
    <2> QED
      BY <2>1, <2>2 DEF Idle, OutcomeInv, HistoryTruthful, OutcomeKnown
  <1>4. ASSUME NEW i \in Instances, Tick(i) PROVE OutcomeInv'
    <2>0. PICK D \in DueLists, J \in SUBSET Idle : \E f \in Bijection(J, D) : Start(f, i)
      BY <1>4 DEF Tick
    <2>1. PICK f \in Bijection(J, D) : Start(f, i)
      BY <2>0
    <2>2. J \in SUBSET Jobs /\ f \in [J -> Schedules]
      BY DEF Idle, DueLists, Due, Bijection, Injection, Surjection
    <2> QED
      BY <1>3, <2>1, <2>2
  <1>5. ASSUME NEW i \in Instances, NEW c \in Schedules, TriggerManual(i, c) PROVE OutcomeInv'
    <2>1. PICK j \in Idle : Start([x \in {j} |-> c], i)
      BY <1>5 DEF TriggerManual
    <2>2. {j} \in SUBSET Jobs /\ [x \in {j} |-> c] \in [{j} -> Schedules]
      BY DEF Idle
    <2> QED
      BY <1>3, <2>1, <2>2
  <1>6. ASSUME NEW i \in Instances, Crash(i) PROVE OutcomeInv'
    BY <1>6, OutcomeReturn DEF Crash
  <1>7. ASSUME NEW j \in Jobs, AcquireLock(j) PROVE OutcomeInv'
    <2>1. CASE Return({j})
      BY <2>1, OutcomeReturn
    <2>2. CASE Goto(j, "pending") /\ UNCHANGED <<hist, wrote>>
      <3>1. pc[j] = "start"
        BY <1>7 DEF AcquireLock
      <3> QED
        BY <2>2, <3>1, GotoType DEF Places, OutcomeInv, HistoryTruthful, OutcomeKnown
    <2> QED
      BY <1>7, <2>1, <2>2 DEF AcquireLock
  <1>8. ASSUME NEW j \in Jobs, WritePending(j) \/ WriteFailed(j) \/ WriteSuccess(j)
        PROVE  OutcomeInv'
    <2>1. PICK st \in {"pending", "failed", "success"} :
             /\ WriteHistory(j, st) /\ UNCHANGED wrote
             /\ \/ st = "pending" /\ pc[j] = "pending" /\ Goto(j, "load")
                \/ st = "failed" /\ pc[j] = "failed" /\ Goto(j, "unlock")
                \/ st = "success" /\ pc[j] = "success" /\ Goto(j, "unlock")
      BY <1>8 DEF WritePending, WriteFailed, WriteSuccess
    <2>2. /\ \A k \in Jobs \ {j} : hist'[k] = hist[k]
          /\ hist'[j] = hist[j] \/ (hist[j] = "none" /\ hist'[j] = st)
      BY <2>1 DEF WriteHistory, TypeOK
    <2>3. pc'[j] \in {"load", "unlock"} /\ \A k \in Jobs \ {j} : pc'[k] = pc[k]
      BY <2>1, GotoType DEF Places
    <2>4. st = "pending" <=> pc'[j] = "load"
      BY <2>1, GotoType DEF Places
    <2> QED
      BY <2>1, <2>2, <2>3, <2>4, OutcomeOf DEF OutcomeInv, HistoryTruthful, OutcomeKnown
  <1>9. ASSUME NEW j \in Jobs, LoadSecret(j) \/ CallBackend(j) PROVE OutcomeInv'
    <2>1. /\ pc[j] \in {"load", "call"} /\ UNCHANGED <<hist, wrote>>
          /\ Goto(j, "call") \/ Goto(j, "failed") \/ Goto(j, "write")
      BY <1>9 DEF LoadSecret, CallBackend
    <2>2. pc'[j] \in {"call", "failed", "write"} /\ \A k \in Jobs \ {j} : pc'[k] = pc[k]
      BY <2>1, GotoType DEF Places
    <2> QED
      BY <2>1, <2>2, OutcomeOf DEF OutcomeInv, HistoryTruthful, OutcomeKnown
  <1>10. ASSUME NEW j \in Jobs, WriteValue(j) PROVE OutcomeInv'
    <2>1. pc[j] = "write" /\ UNCHANGED hist
      BY <1>10 DEF WriteValue
    <2>2. /\ pc'[j] \in {"reschedule", "unlock"} /\ \A k \in Jobs \ {j} : pc'[k] = pc[k]
          /\ \A k \in Jobs \ {j} : wrote'[k] = wrote[k]
          /\ pc'[j] = "reschedule" => wrote'[j]
      BY <1>10, GotoType DEF WriteValue, Places, TypeOK
    <2> QED
      BY <2>1, <2>2, OutcomeOf DEF OutcomeInv, HistoryTruthful, OutcomeKnown
  <1>11. ASSUME NEW j \in Jobs, Reschedule(j) PROVE OutcomeInv'
    <2>1. pc[j] = "reschedule" /\ Goto(j, "success") /\ UNCHANGED <<hist, wrote>>
      BY <1>11 DEF Reschedule
    <2> QED
      BY <2>1, GotoType, OutcomeOf DEF Places, OutcomeInv, HistoryTruthful, OutcomeKnown
  <1>12. ASSUME NEW j \in Jobs, Unlock(j) PROVE OutcomeInv'
    BY <1>12, OutcomeReturn DEF Unlock
  <1> QED
    BY <1>1, <1>2, <1>4, <1>5, <1>6, <1>7, <1>8, <1>9, <1>10, <1>11, <1>12 DEF Next, Step

\* A history row never says "success" of a value that was not replaced, nor "failed"
\* of one that was.
THEOREM HistoryNeverLies == Spec => []HistoryTruthful
  <1>1. Init => OutcomeInv
    BY DEF Init, OutcomeInv, HistoryTruthful, OutcomeKnown
  <1>2. OutcomeInv => HistoryTruthful
    BY DEF OutcomeInv
  <1> QED
    BY <1>1, <1>2, TypeInit, TypeNext, OutcomeNext, PTL DEF Spec
=============================================================================
