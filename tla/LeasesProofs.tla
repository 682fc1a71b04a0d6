---------------------------- MODULE LeasesProofs -----------------------------
(***************************************************************************)
(* Proofs about Leases, for any number of leases and instances, any time   *)
(* to live and any number of failures.                                     *)
(***************************************************************************)
EXTENDS Leases, TLAPS

\* TypeOK is inductive.
LEMMA TypeInit == Init => TypeOK
<1> SUFFICES ASSUME Init PROVE TypeOK
    OBVIOUS
<1>1. config \in BOOLEAN
  BY Zenon DEF Init
<1>. QED
  BY <1>1, LeasesAssumption DEF Init, TypeOK, Places

LEMMA TypeStep == TypeOK /\ [Next]_vars => TypeOK'
<1> SUFFICES ASSUME TypeOK, [Next]_vars PROVE TypeOK'
    OBVIOUS
<1> USE LeasesAssumption DEF TypeOK, Places
<1>1. CASE UNCHANGED vars
  BY <1>1 DEF vars
<1>2. CASE Clock
  BY <1>2 DEF Clock
<1>12. CASE CreateDynamicConfig \/ DeleteDynamicConfig
  BY <1>12 DEF CreateDynamicConfig, DeleteDynamicConfig
<1>3. ASSUME NEW l \in Leases, Generate(l)
      PROVE  TypeOK'
  BY <1>3 DEF Generate, Goto
<1>4. ASSUME NEW l \in Leases, CreateRole(l)
      PROVE  TypeOK'
  BY <1>4 DEF CreateRole, Goto, Answer, Fail, Fault
<1>5. ASSUME NEW l \in Leases, Grant(l)
      PROVE  TypeOK'
  BY <1>5 DEF Grant, Goto, Answer, Fail, Fault
<1>6. ASSUME NEW l \in Leases, Rollback(l) \/ Cleanup(l)
      PROVE  TypeOK'
  BY <1>6 DEF Rollback, Cleanup, DropRole, Goto, Answer, Fail, Fault
<1>7. ASSUME NEW l \in Leases, CreateDynamicLease(l)
      PROVE  TypeOK'
  BY <1>7 DEF CreateDynamicLease, Goto, Answer, Fault
<1>8. ASSUME NEW l \in Leases, RevokeDynamicLease(l)
      PROVE  TypeOK'
  BY <1>8 DEF RevokeDynamicLease, RevokeLease
<1>9. ASSUME NEW i \in Instances, ListExpiredLeases(i)
      PROVE  TypeOK'
  BY <1>9 DEF ListExpiredLeases, Expired
<1>10. ASSUME NEW i \in Instances, NEW l \in Leases, Reap(i, l)
       PROVE  TypeOK'
  BY <1>10 DEF Reap, RevokeLease, Fault
<1>11. ASSUME NEW i \in Instances, Crash(i)
       PROVE  TypeOK'
  BY <1>11 DEF Crash, Fault
<1>. QED
  BY <1>1, <1>2, <1>3, <1>4, <1>5, <1>6, <1>7, <1>8, <1>9, <1>10, <1>11, <1>12
  DEF Next, Handle, Reaper

\* Every variable keeps its type.
THEOREM TypeCorrect == Spec => []TypeOK
<1>. QED
  BY TypeInit, TypeStep, PTL DEF Spec

-----------------------------------------------------------------------------
\* Until the INSERT a request has no row and no answer, and before CREATE ROLE no
\* role; past the GRANT, and with a row, the role has its privilege, which keeps it
\* from being dropped.
Before == {"idle", "create", "grant", "rollback", "insert"}

Progress ==
    \A l \in Leases :
        /\ pc[l] \in {"idle", "create"} => role[l] = "none"
        /\ pc[l] \in Before => row[l] = "none" /\ answer[l] = "none"
        /\ pc[l] \in {"grant", "rollback"} => role[l] = "created"
        /\ pc[l] \in {"insert", "cleanup"} \/ row[l] # "none" => role[l] = "granted"
        /\ pc[l] = "cleanup" => row[l] # "none" \/ mishap[l] = "insert"
        /\ answer[l] = "ok" => row[l] # "none"

IInv == Progress /\ NoStrayRole

LEMMA IInvInit == Init => IInv
BY DEF Init, IInv, Progress, NoStrayRole, Before

LEMMA IInvStep == TypeOK /\ IInv /\ [Next]_vars => IInv'
<1> SUFFICES ASSUME TypeOK, IInv, [Next]_vars PROVE IInv'
    OBVIOUS
<1> USE DEF TypeOK, IInv, Progress, NoStrayRole, Before, Places
<1>1. CASE UNCHANGED vars
  BY <1>1 DEF vars
<1>2. CASE Clock \/ CreateDynamicConfig \/ DeleteDynamicConfig
  BY <1>2 DEF Clock, CreateDynamicConfig, DeleteDynamicConfig
<1>3. ASSUME NEW l \in Leases, Generate(l)
      PROVE  IInv'
  BY <1>3 DEF Generate, Goto
<1>4. ASSUME NEW l \in Leases, CreateRole(l)
      PROVE  IInv'
  BY <1>4 DEF CreateRole, Goto, Answer, Fail, Fault
<1>5. ASSUME NEW l \in Leases, Grant(l)
      PROVE  IInv'
  BY <1>5 DEF Grant, Goto, Answer, Fail, Fault
<1>6. ASSUME NEW l \in Leases, Rollback(l) \/ Cleanup(l)
      PROVE  IInv'
  BY <1>6 DEF Rollback, Cleanup, DropRole, Goto, Answer, Fail, Fault
<1>7. ASSUME NEW l \in Leases, CreateDynamicLease(l)
      PROVE  IInv'
  BY <1>7 DEF CreateDynamicLease, Goto, Answer, Fault
<1>8. ASSUME NEW l \in Leases, RevokeDynamicLease(l)
      PROVE  IInv'
  BY <1>8 DEF RevokeDynamicLease, RevokeLease
<1>9. ASSUME NEW i \in Instances, ListExpiredLeases(i)
      PROVE  IInv'
  BY <1>9 DEF ListExpiredLeases
<1>10. ASSUME NEW i \in Instances, NEW l \in Leases, Reap(i, l)
       PROVE  IInv'
  BY <1>10 DEF Reap, RevokeLease, Fault
<1>11. ASSUME NEW i \in Instances, Crash(i)
       PROVE  IInv'
  BY <1>11 DEF Crash, Fault
<1>. QED
  BY <1>1, <1>2, <1>3, <1>4, <1>5, <1>6, <1>7, <1>8, <1>9, <1>10, <1>11
  DEF Next, Handle, Reaper

LEMMA IInvHolds == Spec => [](TypeOK /\ IInv)
<1>. QED
  BY TypeInit, TypeStep, IInvInit, IInvStep, PTL DEF Spec

\* However requests, failures, crashes and reapers interleave, a role without a row
\* is one a request still attends to, or was left by a lost connection, the end of
\* its process or a failed INSERT: never by a refused statement.
THEOREM NoStray == Spec => []NoStrayRole
<1>1. TypeOK /\ IInv => NoStrayRole
  BY DEF IInv
<1>. QED
  BY <1>1, IInvHolds, PTL

\* A password that was handed out is that of a recorded lease and of a role that may
\* connect: no rollback or clean-up of a request has dropped it.
THEOREM HandedOut == Spec => []HandedOutIsRecorded
<1>1. TypeOK /\ IInv => HandedOutIsRecorded
  BY DEF IInv, Progress, HandedOutIsRecorded
<1>. QED
  BY <1>1, IInvHolds, PTL
=============================================================================
