----------------------------- MODULE SharesProofs -----------------------------
(***************************************************************************)
(* Proofs about Shares and Audit: the types, the chain of the audit events *)
(* and the view limit of a link.                                           *)
(***************************************************************************)
EXTENDS Shares, FiniteSetTheorems, TLAPS

(***************************************************************************)
(* Types.                                                                  *)
(***************************************************************************)

USE DEF NoEvent

LEMMA LoggedEvents ==
    ASSUME AuditTypeOK
    PROVE  \A i \in DOMAIN log : log[i] \in Event
<1>1. log \in Seq(Event)
  BY DEF AuditTypeOK
<1> QED
  BY <1>1

\* A row of shared_secrets is well typed after each statement on it.
LEMMA HandleType ==
    ASSUME TypeOK, NEW r \in Requests, Handle(r)
    PROVE  TypeOK'
<1> USE SharesAssumption, AuditAssumption
<1> USE DEF TypeOK, AuditTypeOK, Row, Places, Event, Goto, Answer, auditVars
<1>1. ASSUME NEW l \in Links, NEW max \in Limits, CreateSharedSecret(r, l, max)
      PROVE  TypeOK'
  BY <1>1 DEF CreateSharedSecret
<1>2. ASSUME NEW l \in Links, GetSharedSecret(r, l)
      PROVE  TypeOK'
  BY <1>2 DEF GetSharedSecret
<1>3. ASSUME NEW l \in Links, BeginDelete(r, l)
      PROVE  TypeOK'
  BY <1>3 DEF BeginDelete
<1>4. CASE Increment(r)
  <2>1. /\ link[cur[r]] \in Row /\ cur[r] \in Links
        /\ uncounted[cur[r]] + 1 \in Nat /\ link[cur[r]].count + 1 \in Nat
    BY <1>4 DEF Increment
  <2>2. link' \in [Links -> Row]
    <3>1. [link[cur[r]] EXCEPT !.count = @ + 1] \in Row
      BY <2>1
    <3> QED
      BY <1>4, <2>1, <3>1 DEF Increment
  <2>3. uncounted' \in [Links -> Nat]
    BY <1>4, <2>1 DEF Increment
  <2> QED
    BY <1>4, <2>1, <2>2, <2>3 DEF Increment
<1>5. CASE Show(r)
  BY <1>5 DEF Show
<1>6. CASE DeleteSharedSecret(r)
  BY <1>6 DEF DeleteSharedSecret
<1>7. CASE BeginAudit(r)
  BY <1>7 DEF BeginAudit, BuildAuditEvent
<1>8. CASE EndAudit(r)
  <2>1. Latest \subseteq 0 .. MaxEvents
    <3>1. \A i \in DOMAIN log : log[i] \in Event
      BY LoggedEvents
    <3> QED
      BY <3>1 DEF Latest, Logged
  <2>2. PICK p \in Latest \cup {NoEvent} :
             flying' = flying \cup {[ts |-> stamp[r], prev |-> p]}
    BY <1>8 DEF EndAudit, Link
  <2>3. stamp[r] \in 1 .. MaxEvents
    BY <1>8 DEF EndAudit
  <2>4. [ts |-> stamp[r], prev |-> p] \in Event
    BY <2>1, <2>2, <2>3
  <2> QED
    BY <1>8, <2>2, <2>4 DEF EndAudit, Link
<1>9. CASE Fail(r)
  BY <1>9 DEF Fail
<1> QED
  BY <1>1, <1>2, <1>3, <1>4, <1>5, <1>6, <1>7, <1>8, <1>9 DEF Handle

\* Every variable keeps its type: the states and counters of a link's row, the place of a
\* request, and the events of the log and of the goroutines.
THEOREM TypeCorrect == Spec => []TypeOK
<1>1. Init => TypeOK
  BY SharesAssumption, AuditAssumption
  DEF Init, AuditInit, TypeOK, AuditTypeOK, Row, Places, Event
<1>2. TypeOK /\ [Next]_vars => TypeOK'
  <2> SUFFICES ASSUME TypeOK, [Next]_vars
               PROVE  TypeOK'
    OBVIOUS
  <2>1. ASSUME NEW r \in Requests, Handle(r)
        PROVE  TypeOK'
    BY <2>1, HandleType
  <2>2. ASSUME NEW l \in Links, Expire(l)
        PROVE  TypeOK'
    BY <2>2 DEF Expire, TypeOK, AuditTypeOK, Row, auditVars
  <2>3. CASE Record
    <3>1. PICK e \in flying : WriteAuditEvent(e)
      BY <2>3 DEF Record
    <3>2. log \in Seq(Event) /\ e \in Event
      BY <3>1 DEF TypeOK, AuditTypeOK
    <3>3. log' \in Seq(Event) /\ flying' \subseteq flying
      BY <3>1, <3>2 DEF WriteAuditEvent
    <3> QED
      BY <2>3, <3>1, <3>3 DEF Record, WriteAuditEvent, TypeOK, AuditTypeOK
  <2>4. CASE UNCHANGED vars
    BY <2>4 DEF vars, auditVars, TypeOK, AuditTypeOK
  <2> QED
    BY <2>1, <2>2, <2>3, <2>4 DEF Next
<1> QED
  BY <1>1, <1>2, PTL DEF Spec

(***************************************************************************)
(* The audit chain.                                                        *)
(***************************************************************************)

LEMMA ChainKept ==
    ASSUME TypeOK, TypeOK', ChainRooted, [Next]_vars
    PROVE  ChainRooted'
<1> USE DEF TypeOK, AuditTypeOK, ChainRooted, Follows
<1>1. ASSUME NEW r \in Requests, EndAudit(r)
      PROVE  ChainRooted'
  <2>1. PICK p \in Latest \cup {NoEvent} :
             flying' = flying \cup {[ts |-> stamp[r], prev |-> p]}
    BY <1>1 DEF EndAudit, Link
  <2>2. p = NoEvent \/ \E j \in 1 .. Len(log) : log[j].ts = p
    BY <2>1 DEF Latest, Logged
  <2>3. log' = log
    BY <1>1 DEF EndAudit, Link
  <2> QED
    BY <2>1, <2>2, <2>3
<1>2. CASE Record
  <2>1. PICK e \in flying : WriteAuditEvent(e)
    BY <1>2 DEF Record
  <2>2. flying' \subseteq flying
    BY <2>1 DEF WriteAuditEvent
  <2>3. CASE log' = log
    BY <2>2, <2>3
  <2>4. CASE log' = Append(log, e)
    <3>1. /\ Len(log') = Len(log) + 1 /\ DOMAIN log' = 1 .. Len(log) + 1
          /\ DOMAIN log = 1 .. Len(log) /\ Len(log) \in Nat
          /\ \A j \in 1 .. Len(log) : log'[j] = log[j]
          /\ log'[Len(log) + 1] = e
      <4>1. e \in Event /\ log \in Seq(Event)
        BY <2>1
      <4> QED
        BY <2>4, <4>1
    <3>2. \A f \in flying : f.prev = NoEvent \/ \E j \in 1 .. Len(log) : log[j].ts = f.prev
      OBVIOUS
    <3>3. \A i \in 1 .. Len(log) :
             log[i].prev = NoEvent \/ \E j \in 1 .. i - 1 : log[j].ts = log[i].prev
      BY <3>1
    <3>4. ASSUME NEW f \in flying
          PROVE  f.prev = NoEvent \/ \E j \in 1 .. Len(log') : log'[j].ts = f.prev
      <4>1. CASE f.prev = NoEvent
        BY <4>1
      <4>2. ASSUME NEW j \in 1 .. Len(log), log[j].ts = f.prev
            PROVE  j \in 1 .. Len(log') /\ log'[j].ts = f.prev
        BY <3>1, <4>2
      <4> QED
        BY <3>2, <4>1, <4>2
    <3>5. ASSUME NEW i \in 1 .. Len(log) + 1
          PROVE  log'[i].prev = NoEvent \/ \E j \in 1 .. i - 1 : log'[j].ts = log'[i].prev
      <4>1. CASE i = Len(log) + 1
        <5>1. log'[i] = e /\ i - 1 = Len(log)
          BY <3>1, <4>1
        <5>2. e.prev = NoEvent \/ \E j \in 1 .. Len(log) : log[j].ts = e.prev
          BY <2>1, <3>2
        <5> QED
          BY <3>1, <5>1, <5>2
      <4>2. CASE i \in 1 .. Len(log)
        <5>1. log'[i] = log[i]
          BY <3>1, <4>2
        <5>2. \A j \in 1 .. i - 1 : j \in 1 .. Len(log)
          BY <3>1, <4>2
        <5> QED
          BY <3>1, <3>3, <4>2, <5>1, <5>2
      <4> QED
        BY <3>1, <4>1, <4>2
    <3> QED
      BY <2>2, <3>1, <3>4, <3>5
  <2> QED
    BY <2>1, <2>3, <2>4 DEF WriteAuditEvent
<1>3. CASE UNCHANGED <<log, flying>>
  BY <1>3
<1>4. ASSUME NEW r \in Requests, Handle(r)
      PROVE  EndAudit(r) \/ UNCHANGED <<log, flying>>
  BY <1>4 DEF Handle, CreateSharedSecret, GetSharedSecret, BeginDelete, Increment, Show,
     DeleteSharedSecret, BeginAudit, BuildAuditEvent, Fail, auditVars
<1>5. ASSUME NEW l \in Links, Expire(l)
      PROVE  UNCHANGED <<log, flying>>
  BY <1>5 DEF Expire, auditVars
<1> QED
  BY <1>1, <1>2, <1>3, <1>4, <1>5 DEF Next, vars, auditVars

\* The event an audit event names as its predecessor was recorded before it, though
\* events are recorded late, out of order or never.
THEOREM AuditChain == Spec => []ChainRooted
<1>1. Init => ChainRooted
  BY DEF Init, AuditInit, ChainRooted
<1> QED
  BY <1>1, ChainKept, TypeCorrect, PTL DEF Spec

(***************************************************************************)
(* The view limit.                                                         *)
(***************************************************************************)

At(place, l) == {r \in Requests : pc[r] = place /\ cur[r] = l}

\* A link that requests have read exists or existed.
ReadExists == \A r \in Requests : pc[r] = "count" => link[cur[r]].st # "none"

\* While the row is there, each view it will have shown is in its count, or its count failed.
ViewsCounted ==
    \A l \in Links :
        /\ link[l].st = "none" => link[l].count = 0
        /\ link[l].st # "deleted" =>
              served[l] + Cardinality(At("show", l)) <= link[l].count + uncounted[l]

\* Views that have passed the check are as many as allowed, and one for each other request.
ViewsBounded ==
    \A l \in Links : link[l].max > 0 =>
        served[l] + Cardinality(At("show", l)) + Cardinality(At("count", l))
            < link[l].max + Cardinality(Requests) + uncounted[l]

LimitInv == ReadExists /\ ViewsCounted /\ ViewsBounded

LEMMA AtFinite ==
    ASSUME NEW place, NEW l
    PROVE  /\ IsFiniteSet(At(place, l)) /\ Cardinality(At(place, l)) \in Nat
           /\ Cardinality(Requests) \in Nat
           /\ Cardinality(At(place, l)) <= Cardinality(Requests)
           /\ IsFiniteSet(At(place, l)') /\ Cardinality(At(place, l)') \in Nat
           /\ Cardinality(At(place, l)') <= Cardinality(Requests)
<1>1. At(place, l) \subseteq Requests /\ At(place, l)' \subseteq Requests
  BY DEF At
<1> QED
  BY <1>1, SharesAssumption, FS_Subset, FS_CardinalityType

\* Moving one request between places moves it between the sets of requests there.
LEMMA GotoMoves ==
    ASSUME TypeOK, NEW r \in Requests, NEW to, NEW k, Goto(r, to, k), NEW place, NEW l
    PROVE  At(place, l)' = IF to = place /\ k = l THEN At(place, l) \cup {r}
                                                   ELSE At(place, l) \ {r}
BY DEF TypeOK, Goto, At

LEMMA AtGrows ==
    ASSUME TypeOK, NEW r \in Requests, NEW to, NEW k, Goto(r, to, k), NEW place, NEW l
    PROVE  Cardinality(At(place, l)') =
              Cardinality(At(place, l))
                  - (IF pc[r] = place /\ cur[r] = l THEN 1 ELSE 0)
                  + (IF to = place /\ k = l THEN 1 ELSE 0)
<1>1. (r \in At(place, l)) <=> (pc[r] = place /\ cur[r] = l)
  BY DEF At
<1>2. IsFiniteSet(At(place, l)) /\ Cardinality(At(place, l)) \in Nat
  BY AtFinite
<1>3. CASE to = place /\ k = l
  <2>1. At(place, l)' = At(place, l) \cup {r}
    BY <1>3, GotoMoves
  <2>2. Cardinality(At(place, l) \cup {r}) =
           IF r \in At(place, l) THEN Cardinality(At(place, l)) ELSE Cardinality(At(place, l)) + 1
    BY <1>2, FS_AddElement
  <2> QED
    BY <1>1, <1>2, <1>3, <2>1, <2>2
<1>4. CASE ~(to = place /\ k = l)
  <2>1. At(place, l)' = At(place, l) \ {r}
    BY <1>4, GotoMoves
  <2>2. Cardinality(At(place, l) \ {r}) =
           IF r \in At(place, l) THEN Cardinality(At(place, l)) - 1 ELSE Cardinality(At(place, l))
    BY <1>2, FS_RemoveElement
  <2> QED
    BY <1>1, <1>2, <1>4, <2>1, <2>2
<1> QED
  BY <1>3, <1>4

\* A step that leaves links and counters alone, and nobody newly at "count" or "show".
LEMMA OtherSteps ==
    ASSUME TypeOK, TypeOK', LimitInv, NEW r \in Requests, NEW to, NEW k, Goto(r, to, k),
           to \notin {"count", "show"}, UNCHANGED <<link, served, uncounted>>
    PROVE  LimitInv'
<1>1. ReadExists'
  BY DEF LimitInv, ReadExists, TypeOK, Goto
<1>2. ASSUME NEW l \in Links
      PROVE  /\ Cardinality(At("show", l)') <= Cardinality(At("show", l))
             /\ Cardinality(At("count", l)') <= Cardinality(At("count", l))
  BY AtGrows, AtFinite
<1>3. ViewsCounted'
  BY <1>2, AtFinite DEF LimitInv, ViewsCounted, TypeOK, Row
<1>4. ViewsBounded'
  BY <1>2, AtFinite DEF LimitInv, ViewsBounded, TypeOK, Row
<1> QED
  BY <1>1, <1>3, <1>4 DEF LimitInv

LEMMA CreateKeeps ==
    ASSUME TypeOK, TypeOK', LimitInv, NEW r \in Requests, NEW k \in Links, NEW max \in Limits,
           CreateSharedSecret(r, k, max)
    PROVE  LimitInv'
<1> USE DEF CreateSharedSecret
<1>1. ReadExists'
  BY DEF LimitInv, ReadExists, TypeOK, Goto
<1>2. ASSUME NEW l \in Links
      PROVE  /\ Cardinality(At("show", l)') = Cardinality(At("show", l))
             /\ Cardinality(At("count", l)') = Cardinality(At("count", l))
             /\ served' = served /\ uncounted' = uncounted
             /\ l # k => link'[l] = link[l]
             /\ link'[k].st = "live" /\ link'[k].max = max /\ link'[k].count = 0
             /\ link[k].st = "none" /\ link[k].count = 0
  BY AtGrows, AtFinite DEF TypeOK, LimitInv, ViewsCounted
<1>3. ViewsCounted'
  BY <1>2, AtFinite DEF LimitInv, ViewsCounted, TypeOK, Row
<1>4. ASSUME NEW l \in Links, link'[l].max > 0
      PROVE  served'[l] + Cardinality(At("show", l)') + Cardinality(At("count", l)')
                < link'[l].max + Cardinality(Requests) + uncounted'[l]
  <2>1. CASE l = k
    <3>1. served[k] + Cardinality(At("show", k)) <= uncounted[k]
      BY <1>2 DEF LimitInv, ViewsCounted, TypeOK
    <3>2. /\ Cardinality(At("count", k)) <= Cardinality(Requests)
          /\ Cardinality(At("count", k)) \in Nat /\ Cardinality(Requests) \in Nat
          /\ Cardinality(At("show", k)) \in Nat
      BY AtFinite
    <3>3. max \in Nat /\ max > 0 /\ served[k] \in Nat /\ uncounted[k] \in Nat
      BY <1>2, <1>4, <2>1, SharesAssumption DEF TypeOK
    <3> QED
      BY <1>2, <2>1, <3>1, <3>2, <3>3
  <2>2. CASE l # k
    BY <1>2, <1>4, <2>2 DEF LimitInv, ViewsBounded
  <2> QED
    BY <2>1, <2>2
<1>5. ViewsBounded'
  BY <1>4 DEF ViewsBounded
<1> QED
  BY <1>1, <1>3, <1>5 DEF LimitInv

LEMMA GetKeeps ==
    ASSUME TypeOK, TypeOK', LimitInv, NEW r \in Requests, NEW k \in Links, GetSharedSecret(r, k)
    PROVE  LimitInv'
<1> USE DEF GetSharedSecret
<1>1. ReadExists'
  BY DEF LimitInv, ReadExists, TypeOK, Goto
<1>2. ASSUME NEW l \in Links
      PROVE  /\ Cardinality(At("show", l)') = Cardinality(At("show", l))
             /\ l # k => Cardinality(At("count", l)') = Cardinality(At("count", l))
             /\ served' = served /\ uncounted' = uncounted /\ link' = link
             /\ link[k].st = "live" /\ WithinLimit(k)
  BY AtGrows, AtFinite DEF TypeOK
<1>3. ViewsCounted'
  BY <1>2, AtFinite DEF LimitInv, ViewsCounted, TypeOK, Row
<1>4. ASSUME NEW l \in Links, link'[l].max > 0
      PROVE  served'[l] + Cardinality(At("show", l)') + Cardinality(At("count", l)')
                < link'[l].max + Cardinality(Requests) + uncounted'[l]
  <2>1. CASE l = k
    <3>1. served[k] + Cardinality(At("show", k)) <= link[k].count + uncounted[k]
      BY <1>2 DEF LimitInv, ViewsCounted, TypeOK
    <3>2. /\ Cardinality(At("count", k)') <= Cardinality(Requests)
          /\ Cardinality(At("count", k)') \in Nat /\ Cardinality(Requests) \in Nat
          /\ Cardinality(At("show", k)) \in Nat
      BY AtFinite
    <3>3. /\ served[k] \in Nat /\ uncounted[k] \in Nat
          /\ link[k].max \in Nat /\ link[k].count \in Nat
      BY DEF TypeOK, Row
    <3>4. link[k].count < link[k].max
      BY <1>2, <1>4, <2>1, <3>3 DEF WithinLimit
    <3> QED
      BY <1>2, <2>1, <3>1, <3>2, <3>3, <3>4
  <2>2. CASE l # k
    BY <1>2, <1>4, <2>2 DEF LimitInv, ViewsBounded
  <2> QED
    BY <2>1, <2>2
<1>5. ViewsBounded'
  BY <1>4 DEF ViewsBounded
<1> QED
  BY <1>1, <1>3, <1>5 DEF LimitInv

LEMMA IncrementKeeps ==
    ASSUME TypeOK, TypeOK', LimitInv, NEW r \in Requests, Increment(r)
    PROVE  LimitInv'
<1> DEFINE k == cur[r]
<1>1. /\ k \in Links /\ pc[r] = "count" /\ link[k].st # "none"
      /\ Goto(r, "show", k) /\ served' = served
  BY DEF Increment, TypeOK, LimitInv, ReadExists
<1>2. ASSUME NEW l \in Links
      PROVE  /\ link'[l].st = link[l].st /\ link'[l].max = link[l].max
             /\ l # k => link'[l] = link[l] /\ uncounted'[l] = uncounted[l]
             /\ uncounted'[l] >= uncounted[l]
             /\ link[l].st # "deleted" /\ l = k =>
                   link'[l].count + uncounted'[l] = link[l].count + uncounted[l] + 1
  <2>1. /\ link[l] \in Row /\ uncounted[l] \in Nat /\ link[l].count \in Nat
        /\ link \in [Links -> Row] /\ uncounted \in [Links -> Nat]
    BY DEF TypeOK, Row
  <2>2. CASE link' = [link EXCEPT ![k].count = @ + 1] /\ uncounted' = uncounted
    BY <1>1, <2>1, <2>2 DEF Row
  <2>3. CASE link[k].st = "deleted" /\ UNCHANGED <<link, uncounted>>
    BY <1>1, <2>1, <2>3
  <2>4. CASE uncounted' = [uncounted EXCEPT ![k] = @ + 1] /\ link' = link
    BY <1>1, <2>1, <2>4
  <2> QED
    BY <2>2, <2>3, <2>4 DEF Increment
<1>3. ASSUME NEW l \in Links
      PROVE  /\ Cardinality(At("show", l)') =
                   Cardinality(At("show", l)) + (IF l = k THEN 1 ELSE 0)
             /\ Cardinality(At("count", l)') =
                   Cardinality(At("count", l)) - (IF l = k THEN 1 ELSE 0)
  BY <1>1, AtGrows, AtFinite
<1>4. ReadExists'
  BY <1>1, <1>2 DEF LimitInv, ReadExists, TypeOK, Goto
<1>5. ASSUME NEW l \in Links
      PROVE  /\ Cardinality(At("show", l)) \in Nat /\ Cardinality(At("count", l)) \in Nat
             /\ Cardinality(Requests) \in Nat
             /\ served[l] \in Nat /\ uncounted[l] \in Nat /\ uncounted'[l] \in Nat
             /\ link[l].max \in Nat /\ link[l].count \in Nat /\ link'[l].count \in Nat
  BY AtFinite DEF TypeOK, Row
<1>6. ASSUME NEW l \in Links
      PROVE  /\ link'[l].st = "none" => link'[l].count = 0
             /\ link'[l].st # "deleted" =>
                   served'[l] + Cardinality(At("show", l)') <= link'[l].count + uncounted'[l]
  <2>1. /\ link[l].st = "none" => link[l].count = 0
        /\ link[l].st # "deleted" =>
              served[l] + Cardinality(At("show", l)) <= link[l].count + uncounted[l]
    BY DEF LimitInv, ViewsCounted
  <2>2. CASE l = k
    BY <1>1, <1>2, <1>3, <1>5, <2>1, <2>2
  <2>3. CASE l # k
    BY <1>1, <1>2, <1>3, <1>5, <2>1, <2>3
  <2> QED
    BY <2>2, <2>3
<1>7. ASSUME NEW l \in Links, link'[l].max > 0
      PROVE  served'[l] + Cardinality(At("show", l)') + Cardinality(At("count", l)')
                < link'[l].max + Cardinality(Requests) + uncounted'[l]
  <2>1. served[l] + Cardinality(At("show", l)) + Cardinality(At("count", l))
           < link[l].max + Cardinality(Requests) + uncounted[l]
    BY <1>2, <1>7 DEF LimitInv, ViewsBounded
  <2> QED
    BY <1>1, <1>2, <1>3, <1>5, <2>1
<1>8. ViewsCounted' /\ ViewsBounded'
  BY <1>6, <1>7 DEF ViewsCounted, ViewsBounded
<1> QED
  BY <1>4, <1>8 DEF LimitInv

LEMMA ShowKeeps ==
    ASSUME TypeOK, TypeOK', LimitInv, NEW r \in Requests, Show(r)
    PROVE  LimitInv'
<1> DEFINE k == cur[r]
<1>1. /\ k \in Links /\ pc[r] = "show" /\ Goto(r, "idle", NoLink)
      /\ link' = link /\ uncounted' = uncounted
      /\ served' = [served EXCEPT ![k] = @ + 1]
  BY DEF Show, Answer, TypeOK
<1>2. ASSUME NEW l \in Links
      PROVE  /\ served'[l] + Cardinality(At("show", l)') =
                   served[l] + Cardinality(At("show", l))
             /\ Cardinality(At("count", l)') = Cardinality(At("count", l))
  <2>1. /\ Cardinality(At("show", l)') =
              Cardinality(At("show", l)) - (IF l = k THEN 1 ELSE 0)
        /\ Cardinality(At("count", l)') = Cardinality(At("count", l))
    BY <1>1, AtGrows, AtFinite
  <2>2. served'[l] = served[l] + (IF l = k THEN 1 ELSE 0) /\ served[l] \in Nat
    BY <1>1 DEF TypeOK
  <2> QED
    BY <2>1, <2>2, AtFinite
<1>3. ReadExists'
  BY <1>1 DEF LimitInv, ReadExists, TypeOK, Goto
<1>4. ViewsCounted' /\ ViewsBounded'
  BY <1>1, <1>2 DEF LimitInv, ViewsCounted, ViewsBounded
<1> QED
  BY <1>3, <1>4 DEF LimitInv

LEMMA DeleteKeeps ==
    ASSUME TypeOK, TypeOK', LimitInv, NEW r \in Requests, DeleteSharedSecret(r)
    PROVE  LimitInv'
<1> DEFINE k == cur[r]
<1>1. /\ k \in Links /\ pc[r] = "delete" /\ Goto(r, "audit", k)
      /\ link' = [link EXCEPT ![k].st = "deleted"] /\ link \in [Links -> Row]
      /\ served' = served /\ uncounted' = uncounted
  BY DEF DeleteSharedSecret, TypeOK
<1>2. ASSUME NEW l \in Links
      PROVE  /\ Cardinality(At("show", l)') = Cardinality(At("show", l))
             /\ Cardinality(At("count", l)') = Cardinality(At("count", l))
             /\ link'[l].max = link[l].max /\ link'[l].count = link[l].count
             /\ link'[l].st = IF l = k THEN "deleted" ELSE link[l].st
  BY <1>1, AtGrows, AtFinite DEF Row
<1>3. ReadExists'
  BY <1>1, <1>2 DEF LimitInv, ReadExists, TypeOK, Goto
<1>4. ViewsCounted' /\ ViewsBounded'
  BY <1>1, <1>2 DEF LimitInv, ViewsCounted, ViewsBounded
<1> QED
  BY <1>3, <1>4 DEF LimitInv

LEMMA LimitKept ==
    ASSUME TypeOK, TypeOK', LimitInv, [Next]_vars
    PROVE  LimitInv'
<1>1. ASSUME NEW r \in Requests, Handle(r)
      PROVE  LimitInv'
  <2>1. ASSUME NEW l \in Links, BeginDelete(r, l)
        PROVE  LimitInv'
    BY <2>1, OtherSteps DEF BeginDelete
  <2>2. CASE BeginAudit(r)
    BY <2>2, OtherSteps DEF BeginAudit
  <2>3. CASE EndAudit(r) \/ Fail(r)
    BY <2>3, OtherSteps DEF EndAudit, Fail, Answer
  <2> QED
    BY <1>1, <2>1, <2>2, <2>3, CreateKeeps, GetKeeps, IncrementKeeps, ShowKeeps, DeleteKeeps
    DEF Handle
<1>2. ASSUME NEW k \in Links, Expire(k)
      PROVE  LimitInv'
  <2>1. /\ \A p, l : At(p, l)' = At(p, l)
        /\ served' = served /\ uncounted' = uncounted /\ pc' = pc /\ cur' = cur
    BY <1>2 DEF Expire, At
  <2>2. ASSUME NEW l \in Links
        PROVE  /\ link'[l].max = link[l].max /\ link'[l].count = link[l].count
               /\ \/ link'[l].st = link[l].st
                  \/ link[l].st = "live" /\ link'[l].st = "expired"
    <3>1. /\ link[l] \in Row /\ link[k] \in Row /\ link[k].st = "live"
          /\ link \in [Links -> Row] /\ link' = [link EXCEPT ![k].st = "expired"]
      BY <1>2 DEF Expire, TypeOK
    <3>2. CASE l = k
      BY <3>1, <3>2 DEF Row
    <3>3. CASE l # k
      BY <3>1, <3>3
    <3> QED
      BY <3>2, <3>3
  <2>3. ReadExists'
    BY <2>1, <2>2 DEF LimitInv, ReadExists, TypeOK
  <2>4. ViewsCounted' /\ ViewsBounded'
    BY <2>1, <2>2 DEF LimitInv, ViewsCounted, ViewsBounded
  <2> QED
    BY <2>3, <2>4 DEF LimitInv
<1>3. CASE UNCHANGED <<link, pc, cur, served, uncounted>>
  BY <1>3 DEF LimitInv, ReadExists, ViewsCounted, ViewsBounded, At
<1> QED
  BY <1>1, <1>2, <1>3 DEF Next, Record, vars

\* However many requests read one link at the same time, it shows its secrets at most as
\* often as its limit allows, and once for each other request and each count that failed.
THEOREM ViewsWithinLimit == Spec => []ViewLimit
<1>1. Init => LimitInv
  <2> SUFFICES ASSUME Init
               PROVE  LimitInv
    OBVIOUS
  <2>1. \A l : At("show", l) = {} /\ At("count", l) = {}
    BY DEF Init, At
  <2> QED
    <3>1. \A l : Cardinality(At("show", l)) = 0 /\ Cardinality(At("count", l)) = 0
      BY <2>1, FS_EmptySet
    <3>2. Cardinality(Requests) \in Nat
      BY SharesAssumption, FS_CardinalityType
    <3>3. \A l \in Links : /\ link[l].st = "none" /\ link[l].max = 0 /\ link[l].count = 0
                           /\ served[l] = 0 /\ uncounted[l] = 0
      BY DEF Init
    <3>4. ReadExists
      BY DEF Init, ReadExists
    <3> QED
      BY <3>1, <3>2, <3>3, <3>4 DEF LimitInv, ViewsCounted, ViewsBounded
<1>2. TypeOK /\ LimitInv => ViewLimit
  <2> SUFFICES ASSUME TypeOK, LimitInv, NEW l \in Links, link[l].max > 0
               PROVE  served[l] < link[l].max + Cardinality(Requests) + uncounted[l]
    BY DEF ViewLimit
  <2>1. /\ Cardinality(At("show", l)) \in Nat /\ Cardinality(At("count", l)) \in Nat
        /\ Cardinality(Requests) \in Nat
    BY AtFinite
  <2>2. served[l] \in Nat /\ uncounted[l] \in Nat /\ link[l].max \in Nat
    BY DEF TypeOK, Row
  <2> QED
    BY <2>1, <2>2 DEF LimitInv, ViewsBounded
<1> QED
  BY <1>1, <1>2, LimitKept, TypeCorrect, PTL DEF Spec
=============================================================================
