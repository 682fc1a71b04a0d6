-------------------------- MODULE SecretStoreProofs --------------------------
(* Theorems about SecretStore, for every set of requests and of keys.      *)
EXTENDS SecretStore, TLAPS

LEMMA TypeInit == Init => TypeOK
  <1> USE SecretStoreAssumption
  <1> SUFFICES ASSUME Init PROVE TypeOK
    OBVIOUS
  <1>1. row \in [Keys -> Row]
    BY DEF Init, Row, NoRow, Values
  <1>2. held \subseteq Version
    BY <1>1 DEF Init, Version, VersionOf, Row
  <1> QED
    BY <1>1, <1>2 DEF Init, TypeOK, NoRow, Row, Values, Version, Job, Places, Answers

\* What Finish does to the variables it writes.
LEMMA FinishType ==
  ASSUME TypeOK, NEW r \in Requests, NEW a \in Answers, Finish(r, a)
  PROVE  /\ lock' \in [Keys -> Requests \cup {NoRequest}]
         /\ saving' \in [Requests -> SUBSET Version]
         /\ pc' \in [Requests -> Places]
         /\ answer' \in [Requests -> Answers]
         /\ UNCHANGED <<pending, job, cur, todo, skipped>>
  BY DEF TypeOK, Finish, Goto, Places

LEMMA TypeNext == TypeOK /\ [Next]_vars => TypeOK'
  <1> SUFFICES ASSUME TypeOK, [Next]_vars PROVE TypeOK'
    OBVIOUS
  <1>1. CASE UNCHANGED vars
    BY <1>1 DEF TypeOK, vars
  <1> USE DEF db, txn
  <1>2. ASSUME NEW r \in Requests, NEW k \in Keys, BeginCreate(r, k) PROVE TypeOK'
    BY <1>2 DEF TypeOK, BeginCreate, Accept, Goto, Places, Answers, Job
  <1>3. ASSUME NEW r \in Requests, NEW k \in Keys, NEW o \in {"update", "delete", "rotate"},
               NEW p \in {"save", "delete", "rotate"}, BeginOn(r, k, o, p)
        PROVE  TypeOK'
    <2>1. job' \in [Requests -> Job]
      BY <1>3 DEF TypeOK, BeginOn, Accept, Job
    <2>2. pc' \in [Requests -> Places] /\ answer' \in [Requests -> Answers]
      BY <1>3 DEF TypeOK, BeginOn, Goto, Places, Answers
    <2>3. cur' \in [Requests -> Keys] /\ seen' \in [Requests -> Row]
      BY <1>3 DEF TypeOK, BeginOn
    <2> QED
      BY <1>3, <2>1, <2>2, <2>3 DEF TypeOK, BeginOn
  <1>4. ASSUME NEW r \in Requests, NEW ks \in SUBSET Keys, NEW w \in BOOLEAN,
               BeginImport(r, ks, w)
        PROVE  TypeOK'
    BY <1>4 DEF TypeOK, BeginImport, Accept, Goto, Places, Answers, Job
  <1>5. ASSUME NEW r \in Requests, CreateLookup(r) PROVE TypeOK'
    <2>1. CASE Finish(r, "conflict") /\ UNCHANGED <<db, seen>>
      BY <2>1, FinishType DEF TypeOK, Answers
    <2>2. CASE Goto(r, "insert") /\ UNCHANGED <<db, txn, seen, job, cur, todo, skipped, answer>>
      BY <2>2 DEF TypeOK, Goto, Places
    <2> QED
      BY <1>5, <2>1, <2>2 DEF CreateLookup
  <1>6. ASSUME NEW r \in Requests, NEW w \in Row, NEW k \in Keys, NEW a \in Outcome,
               Put(k, w), Finish(r, a), UNCHANGED <<history, unsaved>>,
               seen' = [seen EXCEPT ![r] = w]
        PROVE  TypeOK'
    <2>1. VersionOf(k, w) \in Version
      BY DEF VersionOf, Version, Row
    <2> QED
      BY <1>6, <2>1, FinishType DEF TypeOK, Put, Outcome, Answers
  <1>7. ASSUME NEW r \in Requests, CreateInsert(r) PROVE TypeOK'
    <2> DEFINE w == [st |-> "live", ver |-> 1, val |-> r]
    <2>1. w \in Row
      BY DEF Row, Values
    <2>2. CASE Finish(r, "error") /\ UNCHANGED <<row, held, seen, history, unsaved>>
      BY <2>2, FinishType DEF TypeOK, Answers
    <2>3. cur[r] \in Keys
      BY DEF TypeOK
    <2> QED
      BY <1>6, <1>7, <2>1, <2>2, <2>3 DEF CreateInsert
  <1>8. ASSUME NEW r \in Requests, SaveSecretVersion(r) PROVE TypeOK'
    <2>1. VersionOf(cur[r], seen[r]) \in Version
      BY DEF VersionOf, Version, Row, TypeOK
    <2> QED
      BY <1>8, <2>1 DEF TypeOK, SaveSecretVersion, Goto, Places
  <1>9. ASSUME NEW w \in Row, NEW r \in Requests PROVE Bumped(w, r) \in Row
    BY DEF Bumped, Row, Values
  <1>10. ASSUME NEW r \in Requests, UpdateSecret(r) PROVE TypeOK'
    <2>1. cur[r] \in Keys /\ Bumped(row[cur[r]], r) \in Row
      BY <1>9 DEF TypeOK
    <2>2. CASE Finish(r, "error") /\ UNCHANGED <<row, held, seen, history, unsaved>>
      BY <2>2, FinishType DEF TypeOK, Answers
    <2> QED
      BY <1>6, <1>10, <2>1, <2>2 DEF UpdateSecret
  <1>11. ASSUME NEW r \in Requests, DeleteSecret(r) PROVE TypeOK'
    <2>1. row[cur[r]] \in Row
      BY DEF TypeOK
    <2>3. Deleted(row[cur[r]]) \in Row
      BY <2>1 DEF Deleted, Row
    <2>2. row' \in [Keys -> Row]
      BY <1>11, <2>3 DEF TypeOK, DeleteSecret
    <2> QED
      BY <1>11, <2>2, FinishType DEF TypeOK, DeleteSecret, Outcome, Answers
  <1>12. ASSUME NEW r \in Requests, NEW k \in Keys, SelectAndSave(r, k)
         PROVE  /\ seen' \in [Requests -> Row]
                /\ saving' \in [Requests -> SUBSET Version]
    <2>1. VersionOf(k, row[k]) \in Version
      BY DEF VersionOf, Version, Row, TypeOK
    <2> QED
      BY <1>12, <2>1 DEF TypeOK, SelectAndSave
  <1>13. ASSUME NEW r \in Requests, RotateSelect(r) PROVE TypeOK'
    BY <1>12, <1>13 DEF TypeOK, RotateSelect, Goto, Places
  <1>14. ASSUME NEW r \in Requests, NEW k \in Keys, ImportItem(r, k) PROVE TypeOK'
    BY <1>12, <1>14 DEF TypeOK, ImportItem, Goto, Places
  <1>15. ASSUME NEW r \in Requests, NEW k \in Keys, NEW w \in Row, Stage(r, k, w),
                UNCHANGED <<db, seen>>
         PROVE  TypeOK'
    BY <1>15 DEF TypeOK, Stage, Goto, Places
  <1>16. ASSUME NEW r \in Requests, TxUpdate(r) PROVE TypeOK'
    <2>1. cur[r] \in Keys /\ Bumped(row[cur[r]], r) \in Row
      BY <1>9 DEF TypeOK
    <2> QED
      BY <1>15, <1>16, <2>1 DEF TxUpdate
  <1>17. ASSUME NEW r \in Requests, Finish(r, "error"), UNCHANGED <<db, seen>> PROVE TypeOK'
    BY <1>17, FinishType DEF TypeOK, Answers
  <1>18. ASSUME NEW r \in Requests, TxInsert(r) PROVE TypeOK'
    <2>1. [st |-> "live", ver |-> 1, val |-> r] \in Row /\ cur[r] \in Keys
      BY DEF Row, Values, TypeOK
    <2> QED
      BY <1>15, <1>17, <1>18, <2>1 DEF TxInsert
  <1>19. ASSUME NEW r \in Requests, Commit(r) PROVE TypeOK'
    <2>1. row' \in [Keys -> Row]
      BY <1>19 DEF Commit, TypeOK
    <2>2. held' \subseteq Version
      BY <1>19 DEF Commit, TypeOK, VersionOf, Version, Row, Written
    <2>3. history' \subseteq Version
      BY <1>19 DEF Commit, TypeOK
    <2> QED
      BY <1>19, <2>1, <2>2, <2>3, FinishType DEF TypeOK, Commit, Outcome, Answers
  <1> QED
    BY <1>1, <1>2, <1>3, <1>4, <1>5, <1>7, <1>8, <1>10, <1>11, <1>13, <1>14, <1>16,
       <1>17, <1>18, <1>19
    DEF Next, Begin, Continue, BeginUpdate, BeginDelete, BeginRotate, Fail, DeadlockVictim

\* Type correctness of the secret store's state, the requests' local state included.
THEOREM TypeCorrect == Spec => []TypeOK
  BY TypeInit, TypeNext, PTL DEF Spec

-----------------------------------------------------------------------------
LEMMA VersionInit == Init => VersionInv
  <1> SUFFICES ASSUME Init PROVE VersionInv
    OBVIOUS
  <1>1. \A k \in Keys : row[k].st # "absent" => row[k].st = "live"
    BY DEF Init, NoRow
  <1>2. \A h \in held : \E k \in Keys : row[k].st = "live" /\ h = <<k, row[k].ver, row[k].val>>
    BY DEF Init, VersionOf
  <1>3. HistoryTruthful /\ RowIsVersion
    BY <1>1 DEF Init, HistoryTruthful, RowIsVersion
  <1>4. RowIsNewest
    <2> SUFFICES ASSUME NEW h \in held
                 PROVE  row[h[1]].st # "absent" /\ h[2] <= row[h[1]].ver
      BY DEF RowIsNewest
    <2>1. PICK k \in Keys : row[k].st = "live" /\ h = <<k, row[k].ver, row[k].val>>
      BY <1>2
    <2>2. row[k].ver \in Nat
      BY TypeInit DEF TypeOK, Row
    <2> QED
      BY <2>1, <2>2
  <1>5. VersionsUnambiguous
    BY <1>2 DEF VersionsUnambiguous
  <1> QED
    BY <1>3, <1>4, <1>5
    DEF Init, VersionInv, CopiesHeld, RewrittenExists, PendingFollows, Free

\* Committing rows that follow the rows they replace.
LEMMA NewVersions ==
  ASSUME TypeOK, VersionInv, NEW W \in SUBSET Keys, NEW new \in [Keys -> Row],
         \A k \in W : Follows(new[k], row[k]),
         row' = [k \in Keys |-> IF k \in W THEN new[k] ELSE row[k]],
         held' = held \cup {VersionOf(k, new[k]) : k \in W}
  PROVE  /\ VersionsUnambiguous' /\ RowIsVersion' /\ RowIsNewest'
         /\ held \subseteq held'
         /\ \A k \in Keys : row[k].st # "absent" => row'[k].st # "absent"
  <1> USE DEF VersionInv
  <1>1. \A k \in Keys : row[k].ver \in Nat /\ new[k].ver \in Nat
    BY DEF TypeOK, Row
  <1>2. \A h \in held : h[1] \in Keys /\ h[2] \in Nat
    BY DEF TypeOK, Version
  <1>3. ASSUME NEW h \in held'
        PROVE  h \in held \/ \E k \in W : h = <<k, new[k].ver, new[k].val>>
    BY <1>3 DEF VersionOf
  <1>4. \A k \in W, h \in held : h[1] = k => h[2] < new[k].ver
    BY <1>1, <1>2 DEF RowIsNewest, Follows
  <1>5. VersionsUnambiguous'
    <2> SUFFICES ASSUME NEW h \in held', NEW g \in held', h[1] = g[1], h[2] = g[2]
                 PROVE  h[3] = g[3]
      BY DEF VersionsUnambiguous
    <2>1. CASE h \in held /\ g \in held
      BY <2>1 DEF VersionsUnambiguous
    <2>2. CASE h \in held /\ g \notin held
      <3>1. PICK k \in W : g = <<k, new[k].ver, new[k].val>>
        BY <1>3, <2>2
      <3> QED
        BY <1>1, <1>2, <1>4, <2>2, <3>1
    <2>3. CASE h \notin held /\ g \in held
      <3>1. PICK k \in W : h = <<k, new[k].ver, new[k].val>>
        BY <1>3, <2>3
      <3> QED
        BY <1>1, <1>2, <1>4, <2>3, <3>1
    <2>4. CASE h \notin held /\ g \notin held
      BY <1>3, <2>4
    <2> QED
      BY <2>1, <2>2, <2>3, <2>4
  <1>6. RowIsVersion'
    BY DEF RowIsVersion, VersionOf
  <1>7. RowIsNewest'
    <2> SUFFICES ASSUME NEW h \in held'
                 PROVE  row'[h[1]].st # "absent" /\ h[2] <= row'[h[1]].ver
      BY DEF RowIsNewest
    <2>1. CASE h \in held /\ h[1] \notin W
      BY <1>2, <2>1 DEF RowIsNewest
    <2>2. CASE h \in held /\ h[1] \in W
      BY <1>1, <1>2, <1>4, <2>2 DEF Follows
    <2>3. CASE h \notin held
      <3>1. PICK k \in W : h = <<k, new[k].ver, new[k].val>>
        BY <1>3, <2>3
      <3> QED
        BY <1>1, <3>1 DEF Follows
    <2> QED
      BY <2>1, <2>2, <2>3
  <1>8. \A k \in Keys : row[k].st # "absent" => row'[k].st # "absent"
    BY DEF Follows
  <1> QED
    BY <1>5, <1>6, <1>7, <1>8

\* The same for one row, as a statement that commits by itself writes it.
LEMMA NewVersion ==
  ASSUME TypeOK, VersionInv, NEW k \in Keys, NEW w \in Row, Follows(w, row[k]), Put(k, w)
  PROVE  /\ VersionsUnambiguous' /\ RowIsVersion' /\ RowIsNewest'
         /\ held \subseteq held'
         /\ \A q \in Keys : row[q].st # "absent" => row'[q].st # "absent"
  <1> DEFINE new == [row EXCEPT ![k] = w]
  <1>1. new \in [Keys -> Row] /\ new[k] = w
    BY DEF TypeOK
  <1>2. row' = [q \in Keys |-> IF q \in {k} THEN new[q] ELSE row[q]]
    BY DEF Put, TypeOK
  <1>3. held' = held \cup {VersionOf(q, new[q]) : q \in {k}}
    BY <1>1 DEF Put
  <1> HIDE DEF new
  <1> QED
    BY <1>1, <1>2, <1>3, NewVersions

\* Finish keeps every part of the invariant that speaks of requests and locks, if
\* the rows still locked did not change.
LEMMA FinishKeeps ==
  ASSUME TypeOK, VersionInv, NEW r \in Requests, NEW a \in Answers, Finish(r, a),
         \A q \in Requests \ {r} : seen'[q] = seen[q],
         held \subseteq held',
         \A k \in Keys : row[k].st # "absent" => row'[k].st # "absent",
         \A k \in Keys : lock[k] \notin {r, NoRequest} => row'[k] = row[k]
  PROVE  CopiesHeld' /\ RewrittenExists' /\ PendingFollows'
  <1>1. \A q \in Requests \ {r} : pc'[q] = pc[q] /\ saving'[q] = saving[q]
    BY DEF Finish, Goto, TypeOK
  <1>2. pc'[r] = "done" /\ saving'[r] = {} /\ cur' = cur /\ pending' = pending
    BY DEF Finish, Goto, TypeOK
  <1>3. CopiesHeld'
    BY <1>1, <1>2 DEF VersionInv, CopiesHeld, VersionOf
  <1>4. RewrittenExists'
    BY <1>1, <1>2 DEF VersionInv, RewrittenExists, TypeOK
  <1>5. \A k \in Keys : lock'[k] # NoRequest => lock[k] \notin {r, NoRequest}
    BY DEF Finish
  <1>6. PendingFollows'
    BY <1>2, <1>5 DEF VersionInv, PendingFollows, Free
  <1> QED
    BY <1>3, <1>4, <1>6

\* A step that commits nothing to the two tables.
LEMMA TablesKept ==
  ASSUME VersionInv, UNCHANGED <<row, history, held>>
  PROVE  /\ HistoryTruthful' /\ VersionsUnambiguous' /\ RowIsVersion' /\ RowIsNewest'
         /\ held \subseteq held'
  BY DEF VersionInv, HistoryTruthful, VersionsUnambiguous, RowIsVersion, RowIsNewest, VersionOf

\* A request that finishes without having written.
LEMMA FinishOnly ==
  ASSUME TypeOK, VersionInv, NEW r \in Requests, NEW a \in Answers, Finish(r, a),
         UNCHANGED <<row, history, held, seen>>
  PROVE  VersionInv'
  <1>1. CopiesHeld' /\ RewrittenExists' /\ PendingFollows'
    BY FinishKeeps
  <1> QED
    BY <1>1, TablesKept DEF VersionInv

LEMMA VersionNext == TypeOK /\ VersionInv /\ [Next]_vars => VersionInv'
  <1> SUFFICES ASSUME TypeOK, VersionInv, [Next]_vars PROVE VersionInv'
    OBVIOUS
  <1> USE DEF db, txn
  <1>1. CASE UNCHANGED vars
    <2>1. CopiesHeld' /\ RewrittenExists' /\ PendingFollows'
      BY <1>1 DEF vars, VersionInv, CopiesHeld, RewrittenExists, PendingFollows, Free, VersionOf
    <2> QED
      BY <1>1, <2>1, TablesKept DEF vars, VersionInv
  \* An operation starts: nothing it has not read yet is used.
  <1>2. ASSUME NEW r \in Requests, pc[r] = "idle", pc'[r] \notin {"save", "delete", "rotate", "txupdate"},
               \A q \in Requests \ {r} : pc'[q] = pc[q] /\ cur'[q] = cur[q] /\ seen'[q] = seen[q],
               UNCHANGED <<row, history, held, lock, pending, saving>>
        PROVE  VersionInv'
    <2>1. CopiesHeld'
      BY <1>2 DEF VersionInv, CopiesHeld, VersionOf
    <2>2. RewrittenExists' /\ PendingFollows'
      BY <1>2 DEF VersionInv, RewrittenExists, PendingFollows, Free
    <2> QED
      BY <1>2, <2>1, <2>2, TablesKept DEF VersionInv
  <1>3. ASSUME NEW r \in Requests, NEW k \in Keys, BeginCreate(r, k) PROVE VersionInv'
    BY <1>2, <1>3 DEF BeginCreate, Accept, Goto, TypeOK
  <1>4. ASSUME NEW r \in Requests, NEW k \in Keys, NEW o \in {"update", "delete", "rotate"},
               NEW p \in {"save", "delete", "rotate"}, BeginOn(r, k, o, p)
        PROVE  VersionInv'
    <2>1. CASE Goto(r, "done")
      BY <1>2, <1>4, <2>1 DEF BeginOn, Accept, Goto, TypeOK
    <2>2. CASE Live(k) /\ Goto(r, p) /\ seen' = [seen EXCEPT ![r] = row[k]]
      <3>1. \A q \in Requests \ {r} : pc'[q] = pc[q] /\ cur'[q] = cur[q] /\ seen'[q] = seen[q]
        BY <1>4, <2>2 DEF BeginOn, Goto, TypeOK
      <3>2. pc'[r] = p /\ cur'[r] = k /\ seen'[r] = row[k] /\ row[k].st # "absent"
        BY <1>4, <2>2 DEF BeginOn, Goto, TypeOK, Live
      <3>3. UNCHANGED <<row, history, held, lock, pending, saving>>
        BY <1>4 DEF BeginOn
      <3>4. CopiesHeld'
        BY <3>1, <3>2, <3>3 DEF VersionInv, CopiesHeld, VersionOf, RowIsVersion
      <3>5. RewrittenExists' /\ PendingFollows'
        BY <3>1, <3>2, <3>3 DEF VersionInv, RewrittenExists, PendingFollows, Free
      <3> QED
        BY <3>3, <3>4, <3>5, TablesKept DEF VersionInv
    <2> QED
      BY <1>4, <2>1, <2>2 DEF BeginOn
  <1>5. ASSUME NEW r \in Requests, NEW ks \in SUBSET Keys, NEW w \in BOOLEAN,
               BeginImport(r, ks, w)
        PROVE  VersionInv'
    BY <1>2, <1>5 DEF BeginImport, Accept, Goto, TypeOK
  \* A request goes on, to a place where no row it read is copied.
  <1>6. ASSUME NEW r \in Requests, pc'[r] \notin {"save", "delete", "rotate", "txupdate"},
               \A q \in Requests \ {r} : pc'[q] = pc[q] /\ cur'[q] = cur[q] /\ seen'[q] = seen[q],
               UNCHANGED <<row, history, held, lock, pending, saving>>
        PROVE  VersionInv'
    <2>1. CopiesHeld'
      BY <1>6 DEF VersionInv, CopiesHeld, VersionOf
    <2>2. RewrittenExists' /\ PendingFollows'
      BY <1>6 DEF VersionInv, RewrittenExists, PendingFollows, Free
    <2> QED
      BY <1>6, <2>1, <2>2, TablesKept DEF VersionInv
  <1>7. ASSUME NEW r \in Requests, CreateLookup(r) PROVE VersionInv'
    <2>1. CASE Finish(r, "conflict")
      BY <1>7, <2>1, FinishOnly DEF CreateLookup, Answers
    <2>2. CASE Goto(r, "insert") /\ UNCHANGED <<txn, job, cur, todo, skipped, answer>>
      BY <1>6, <1>7, <2>2 DEF CreateLookup, Goto, TypeOK
    <2> QED
      BY <1>7, <2>1, <2>2 DEF CreateLookup
  <1>8. ASSUME NEW r \in Requests, NEW k \in Keys, NEW w \in Row, NEW a \in Answers,
               Free(k), Follows(w, row[k]), Put(k, w), Finish(r, a), UNCHANGED history,
               \A q \in Requests \ {r} : seen'[q] = seen[q]
        PROVE  VersionInv'
    <2>1. /\ VersionsUnambiguous' /\ RowIsVersion' /\ RowIsNewest'
          /\ held \subseteq held'
          /\ \A q \in Keys : row[q].st # "absent" => row'[q].st # "absent"
      BY <1>8, NewVersion
    <2>2. \A q \in Keys : lock[q] \notin {r, NoRequest} => row'[q] = row[q]
      BY <1>8 DEF Free, Put, TypeOK
    <2>3. CopiesHeld' /\ RewrittenExists' /\ PendingFollows'
      BY <1>8, <2>1, <2>2, FinishKeeps
    <2>4. HistoryTruthful'
      BY <1>8, <2>1 DEF VersionInv, HistoryTruthful
    <2> QED
      BY <2>1, <2>3, <2>4 DEF VersionInv
  <1>9. ASSUME NEW r \in Requests, CreateInsert(r) PROVE VersionInv'
    <2> DEFINE k == cur[r]
               w == [st |-> "live", ver |-> 1, val |-> r]
    <2>1. w \in Row /\ k \in Keys
      BY DEF Row, Values, TypeOK
    <2>2. CASE row[k].st = "absent"
      <3>1. Follows(w, row[k])
        BY <2>2 DEF Follows
      <3>2. PICK a \in Outcome : Finish(r, a)
        BY <1>9, <2>2 DEF CreateInsert
      <3>3. Put(k, w) /\ UNCHANGED history /\ \A q \in Requests \ {r} : seen'[q] = seen[q]
        BY <1>9, <2>2 DEF CreateInsert, TypeOK
      <3> QED
        BY <1>8, <1>9, <2>1, <3>1, <3>2, <3>3 DEF CreateInsert, Outcome, Answers
    <2>3. CASE row[k].st # "absent"
      BY <1>9, <2>3, FinishOnly DEF CreateInsert, Answers
    <2> QED
      BY <2>2, <2>3
  <1>10. ASSUME NEW r \in Requests, SaveSecretVersion(r) PROVE VersionInv'
    <2>1. VersionOf(cur[r], seen[r]) \in held
      BY <1>10 DEF SaveSecretVersion, VersionInv, CopiesHeld
    <2>2. HistoryTruthful'
      BY <1>10, <2>1 DEF SaveSecretVersion, VersionInv, HistoryTruthful
    <2>3. /\ pc'[r] = "update"
          /\ \A q \in Requests \ {r} : pc'[q] = pc[q]
          /\ UNCHANGED <<row, held, lock, pending, saving, cur, seen>>
      BY <1>10 DEF SaveSecretVersion, Goto, TypeOK
    <2>4. CopiesHeld'
      BY <2>3 DEF VersionInv, CopiesHeld, VersionOf
    <2>5. RewrittenExists' /\ PendingFollows'
      BY <2>3 DEF VersionInv, RewrittenExists, PendingFollows, Free
    <2>6. VersionsUnambiguous' /\ RowIsVersion' /\ RowIsNewest'
      BY <2>3 DEF VersionInv, VersionsUnambiguous, RowIsVersion, RowIsNewest, VersionOf
    <2> QED
      BY <2>2, <2>4, <2>5, <2>6 DEF VersionInv
  <1>11. ASSUME NEW r \in Requests, NEW k \in Keys, row[k].st # "absent"
         PROVE  Bumped(row[k], r) \in Row /\ Follows(Bumped(row[k], r), row[k])
    <2>1. row[k] \in Row
      BY DEF TypeOK
    <2> QED
      BY <1>11, <2>1 DEF Bumped, Follows, Row, Values
  <1>12. ASSUME NEW r \in Requests, UpdateSecret(r) PROVE VersionInv'
    <2> DEFINE k == cur[r]
    <2>1. k \in Keys
      BY DEF TypeOK
    <2>2. CASE Live(k)
      <3>1. PICK a \in Outcome : Finish(r, a)
        BY <1>12, <2>2 DEF UpdateSecret
      <3>2. /\ Put(k, Bumped(row[k], r)) /\ Free(k) /\ UNCHANGED history
            /\ \A q \in Requests \ {r} : seen'[q] = seen[q]
        BY <1>12, <2>2 DEF UpdateSecret, TypeOK
      <3>3. Bumped(row[k], r) \in Row /\ Follows(Bumped(row[k], r), row[k])
        BY <1>11, <2>1, <2>2 DEF Live
      <3> QED
        BY <1>8, <2>1, <3>1, <3>2, <3>3 DEF Outcome, Answers
    <2>3. CASE ~Live(k)
      BY <1>12, <2>3, FinishOnly DEF UpdateSecret, Answers
    <2> QED
      BY <2>2, <2>3
  <1>13. ASSUME NEW r \in Requests, DeleteSecret(r) PROVE VersionInv'
    <2> DEFINE k == cur[r]
    <2>1. k \in Keys /\ pc[r] = "delete" /\ UNCHANGED <<history, held, seen>> /\ Free(k)
      BY <1>13 DEF TypeOK, DeleteSecret
    <2>2. PICK a \in Outcome : Finish(r, a)
      BY <1>13 DEF DeleteSecret
    <2>3. row[k].st # "absent"
      BY <2>1 DEF VersionInv, RewrittenExists
    <2>4. row' = [row EXCEPT ![k] = Deleted(row[k])]
      BY <1>13 DEF DeleteSecret
    <2>5. \A q \in Keys : /\ row'[q].ver = row[q].ver /\ row'[q].val = row[q].val
                          /\ row[q].st # "absent" => row'[q].st # "absent"
                          /\ row'[q].st # "absent" => row[q].st # "absent"
      <3>1. row'[k] = Deleted(row[k]) /\ \A q \in Keys \ {k} : row'[q] = row[q]
        BY <2>1, <2>4 DEF TypeOK
      <3> QED
        BY <2>3, <3>1 DEF Deleted
    <2>6. \A q \in Keys : lock[q] \notin {r, NoRequest} => row'[q] = row[q]
      BY <2>1, <2>4 DEF Free, TypeOK
    <2>7. CopiesHeld' /\ RewrittenExists' /\ PendingFollows'
      BY <2>1, <2>2, <2>5, <2>6, FinishKeeps DEF Outcome, Answers
    <2>8. RowIsVersion'
      BY <2>1, <2>5 DEF VersionInv, RowIsVersion, VersionOf
    <2>9. RowIsNewest'
      <3>1. \A h \in held : h[1] \in Keys
        BY DEF TypeOK, Version
      <3> QED
        BY <2>1, <2>5, <3>1 DEF VersionInv, RowIsNewest
    <2> QED
      BY <2>1, <2>7, <2>8, <2>9 DEF VersionInv, HistoryTruthful, VersionsUnambiguous
  \* A row is read and its copy inserted in an open transaction.
  <1>14. ASSUME NEW r \in Requests, NEW k \in Keys, row[k].st # "absent",
                SelectAndSave(r, k), cur'[r] = k, pc'[r] # "save",
                \A q \in Requests \ {r} : pc'[q] = pc[q] /\ cur'[q] = cur[q],
                UNCHANGED <<row, history, held, lock, pending>>
         PROVE  VersionInv'
    <2>1. \A q \in Requests \ {r} : seen'[q] = seen[q] /\ saving'[q] = saving[q]
      BY <1>14 DEF SelectAndSave, TypeOK
    <2>2. saving'[r] = saving[r] \cup {VersionOf(k, row[k])}
      BY <1>14 DEF SelectAndSave, TypeOK
    <2>3. CopiesHeld'
      BY <1>14, <2>1, <2>2 DEF VersionInv, CopiesHeld, RowIsVersion, VersionOf
    <2>4. RewrittenExists' /\ PendingFollows'
      BY <1>14 DEF VersionInv, RewrittenExists, PendingFollows, Free
    <2> QED
      BY <1>14, <2>3, <2>4, TablesKept DEF VersionInv
  <1>15. ASSUME NEW r \in Requests, RotateSelect(r) PROVE VersionInv'
    <2>1. row[cur[r]].st # "absent" /\ cur[r] \in Keys
      BY <1>15 DEF RotateSelect, VersionInv, RewrittenExists, TypeOK
    <2> QED
      BY <1>14, <1>15, <2>1 DEF RotateSelect, Goto, TypeOK
  <1>16. ASSUME NEW r \in Requests, NEW k \in Keys, ImportItem(r, k) PROVE VersionInv'
    <2>0. \A q \in Requests \ {r} : cur'[q] = cur[q]
      BY <1>16 DEF ImportItem, TypeOK
    <2>1. CASE Live(k) /\ SelectAndSave(r, k) /\ Goto(r, "txupdate")
      BY <1>14, <1>16, <2>0, <2>1 DEF ImportItem, Goto, TypeOK, Live
    <2>2. CASE UNCHANGED <<saving, seen, pc>> /\ pc[r] = "open"
      BY <1>6, <1>16, <2>0, <2>2 DEF ImportItem
    <2>3. CASE Goto(r, "txinsert") /\ UNCHANGED <<saving, seen>>
      BY <1>6, <1>16, <2>0, <2>3 DEF ImportItem, Goto, TypeOK
    <2> QED
      BY <1>16, <2>1, <2>2, <2>3 DEF ImportItem
  <1>17. ASSUME NEW r \in Requests, NEW k \in Keys, NEW w \in Row, Follows(w, row[k]),
                Stage(r, k, w), UNCHANGED <<db, seen>>
         PROVE  VersionInv'
    <2>1. /\ pc'[r] \in {"commit", "open"}
          /\ \A q \in Requests \ {r} : pc'[q] = pc[q]
          /\ UNCHANGED <<saving, cur>>
      BY <1>17 DEF Stage, Goto, TypeOK
    <2>2. CopiesHeld' /\ RewrittenExists'
      BY <1>17, <2>1 DEF VersionInv, CopiesHeld, RewrittenExists, VersionOf
    <2>3. PendingFollows'
      BY <1>17 DEF Stage, TypeOK, VersionInv, PendingFollows, Free
    <2> QED
      BY <1>17, <2>2, <2>3, TablesKept DEF VersionInv
  <1>18. ASSUME NEW r \in Requests, TxUpdate(r) PROVE VersionInv'
    <2>1. cur[r] \in Keys /\ row[cur[r]].st # "absent"
      BY <1>18 DEF TxUpdate, VersionInv, RewrittenExists, TypeOK
    <2> QED
      BY <1>11, <1>17, <1>18, <2>1 DEF TxUpdate
  <1>19. ASSUME NEW r \in Requests, TxInsert(r) PROVE VersionInv'
    <2> DEFINE w == [st |-> "live", ver |-> 1, val |-> r]
    <2>1. w \in Row /\ cur[r] \in Keys
      BY DEF Row, Values, TypeOK
    <2>2. CASE row[cur[r]].st = "absent"
      BY <1>17, <1>19, <2>1, <2>2 DEF TxInsert, Follows
    <2>3. CASE row[cur[r]].st # "absent"
      BY <1>19, <2>3, FinishOnly DEF TxInsert, Answers
    <2> QED
      BY <2>2, <2>3
  <1>20. ASSUME NEW r \in Requests, Commit(r) PROVE VersionInv'
    <2>1. PICK a \in Outcome : Finish(r, a)
      BY <1>20 DEF Commit
    <2>2. \A k \in Written(r) : Follows(pending[k], row[k])
      BY SecretStoreAssumption DEF Written, VersionInv, PendingFollows, Free
    <2>3. Written(r) \in SUBSET Keys /\ pending \in [Keys -> Row]
      BY DEF Written, TypeOK
    <2>4. /\ row' = [k \in Keys |-> IF k \in Written(r) THEN pending[k] ELSE row[k]]
          /\ held' = held \cup {VersionOf(k, pending[k]) : k \in Written(r)}
      BY <1>20 DEF Commit
    <2>5. /\ VersionsUnambiguous' /\ RowIsVersion' /\ RowIsNewest'
          /\ held \subseteq held'
          /\ \A k \in Keys : row[k].st # "absent" => row'[k].st # "absent"
      BY <2>2, <2>3, <2>4, NewVersions
    <2>6. \A k \in Keys : lock[k] \notin {r, NoRequest} => row'[k] = row[k]
      BY <2>4 DEF Written
    <2>7. CopiesHeld' /\ RewrittenExists' /\ PendingFollows'
      BY <1>20, <2>1, <2>5, <2>6, FinishKeeps DEF Commit, Outcome, Answers
    <2>8. HistoryTruthful'
      BY <1>20, <2>5 DEF Commit, VersionInv, HistoryTruthful, CopiesHeld
    <2> QED
      BY <2>5, <2>7, <2>8 DEF VersionInv
  <1>21. ASSUME NEW r \in Requests, Finish(r, "error"), UNCHANGED <<db, seen>>
         PROVE  VersionInv'
    BY <1>21, FinishOnly DEF Answers
  <1> QED
    BY <1>1, <1>3, <1>4, <1>5, <1>7, <1>9, <1>10, <1>12, <1>13, <1>15, <1>16, <1>18,
       <1>19, <1>20, <1>21
    DEF Next, Begin, Continue, BeginUpdate, BeginDelete, BeginRotate, Fail, DeadlockVictim

THEOREM VersionInvariant == Spec => [](TypeOK /\ VersionInv)
  BY TypeInit, TypeNext, VersionInit, VersionNext, PTL DEF Spec

\* secret_versions only ever holds values the secret had at that version.
THEOREM HistoryIsTruthful == Spec => []HistoryTruthful
  <1>1. VersionInv => HistoryTruthful
    BY DEF VersionInv
  <1> QED
    BY <1>1, VersionInvariant, PTL

\* No two values of a secret share a version number.
THEOREM VersionsAreUnambiguous == Spec => []VersionsUnambiguous
  <1>1. VersionInv => VersionsUnambiguous
    BY DEF VersionInv
  <1> QED
    BY <1>1, VersionInvariant, PTL

-----------------------------------------------------------------------------
LEMMA DeletedNext ==
  ASSUME TypeOK, VersionInv, Next, NEW k \in Keys, row[k].st = "deleted"
  PROVE  row'[k].st = "deleted"
  <1> USE DEF db
  <1>1. CASE UNCHANGED row
    BY <1>1
  <1>2. ASSUME NEW r \in Requests, NEW q \in Keys, NEW w, Put(q, w), Follows(w, row[q])
        PROVE  row'[k].st = "deleted"
    BY <1>2 DEF Put, Follows, TypeOK
  <1>3. ASSUME NEW r \in Requests, CreateInsert(r) PROVE row'[k].st = "deleted"
    BY <1>2, <1>3 DEF CreateInsert, TypeOK, Follows
  <1>4. ASSUME NEW r \in Requests, UpdateSecret(r) PROVE row'[k].st = "deleted"
    BY <1>2, <1>4 DEF UpdateSecret, TypeOK, Follows, Bumped, Live
  <1>5. ASSUME NEW r \in Requests, DeleteSecret(r) PROVE row'[k].st = "deleted"
    BY <1>5 DEF DeleteSecret, TypeOK, Deleted
  <1>6. ASSUME NEW r \in Requests, Commit(r) PROVE row'[k].st = "deleted"
    <2>1. k \in Written(r) => pending[k].st = "deleted"
      BY SecretStoreAssumption DEF VersionInv, PendingFollows, Follows, Written, Free
    <2> QED
      BY <1>6, <2>1 DEF Commit
  <1>7. ASSUME NEW r \in Requests, Begin(r) PROVE UNCHANGED row
    BY <1>7 DEF Begin, BeginCreate, BeginUpdate, BeginDelete, BeginRotate, BeginOn, BeginImport
  <1>8. ASSUME NEW r \in Requests,
               \/ CreateLookup(r) \/ SaveSecretVersion(r) \/ RotateSelect(r)
               \/ TxUpdate(r) \/ TxInsert(r) \/ DeadlockVictim(r) \/ Fail(r)
               \/ \E q \in Keys : ImportItem(r, q)
        PROVE  UNCHANGED row
    BY <1>8 DEF CreateLookup, SaveSecretVersion, RotateSelect, TxUpdate, TxInsert,
                DeadlockVictim, Fail, ImportItem
  <1> QED
    BY <1>1, <1>3, <1>4, <1>5, <1>6, <1>7, <1>8 DEF Next, Continue

\* No operation, however it overlaps with a delete, brings a deleted secret back.
THEOREM DeletedStays == Spec => DeletedStaysDeleted
  <1>1. TypeOK /\ VersionInv /\ [Next]_vars =>
          [\A k \in Keys : row[k].st = "deleted" => row'[k].st = "deleted"]_vars
    BY DeletedNext
  <1> QED
    BY <1>1, VersionInvariant, PTL DEF Spec, DeletedStaysDeleted
-----------------------------------------------------------------------------
LEMMA JobInit == Init => JobInv
  <1> SUFFICES ASSUME Init PROVE JobInv
    OBVIOUS
  <1>1. WrittenOpen
    BY DEF Init, WrittenOpen, Free
  <1>2. ASSUME NEW r \in Requests PROVE JobOK(r)
    BY <1>2 DEF Init, JobOK, PlaceFits, SingleItem, SkippedInUse, ItemsAccounted, Atomic!Idle
  <1> QED
    BY <1>1, <1>2 DEF JobInv

\* A step of one request keeps JobOK of another, unless it takes a row from it.
LEMMA JobOther ==
  ASSUME JobInv, NEW q \in Requests,
         pc'[q] = pc[q], job'[q] = job[q], answer'[q] = answer[q], cur'[q] = cur[q],
         todo'[q] = todo[q], skipped'[q] = skipped[q], Written(q)' = Written(q),
         \A k \in Keys : row[k].st # "absent" => row'[k].st # "absent",
         skipped[q] \subseteq Keys
  PROVE  JobOK(q)'
  <1>0. JobOK(q)
    BY DEF JobInv
  <1>1. PlaceFits(q)' /\ SingleItem(q)'
    BY <1>0 DEF JobOK, PlaceFits, SingleItem, Atomic!Idle
  <1>2. SkippedInUse(q)'
    BY <1>0 DEF JobOK, SkippedInUse
  <1>3. ItemsAccounted(q)'
    BY <1>0 DEF JobOK, ItemsAccounted
  <1> QED
    BY <1>1, <1>2, <1>3 DEF JobOK

\* The row a statement that commits by itself writes is locked by nobody.
LEMMA WrittenOpenKept ==
  ASSUME TypeOK, WrittenOpen, NEW r \in Requests,
         \A q \in Requests \ {r} : pc'[q] = pc[q] /\ job'[q] = job[q],
         \A k \in Keys : lock'[k] # NoRequest =>
             /\ lock'[k] = lock[k] /\ pending'[k] = pending[k] /\ row'[k] = row[k]
             /\ lock[k] # r
  PROVE  WrittenOpen'
  <1> SUFFICES ASSUME NEW k \in Keys, lock'[k] # NoRequest
               PROVE  /\ pending'[k] = Atomic!Successor(row'[k], lock'[k])
                      /\ \/ pc'[lock'[k]] = "commit" /\ row'[k].st # "absent"
                         \/ /\ job'[lock'[k]].op = "import"
                            /\ pc'[lock'[k]] \in {"open", "txupdate", "txinsert"}
                            /\ job'[lock'[k]].overwrite \/ row'[k].st = "absent"
    BY DEF WrittenOpen, Free, Atomic!Successor
  <1>1. lock[k] \in Requests \ {r} /\ lock[k] # NoRequest /\ lock'[k] = lock[k]
    BY DEF TypeOK
  <1> QED
    BY <1>1 DEF WrittenOpen, Free

\* A request that finishes leaves JobInv to the others.
LEMMA JobFinish ==
  ASSUME TypeOK, JobInv, NEW r \in Requests, NEW a \in Answers \ {"none"}, Finish(r, a),
         pc[r] # "idle", pc[r] # "done",
         \A k \in Keys : row[k].st # "absent" => row'[k].st # "absent",
         \A k \in Keys : lock[k] \notin {r, NoRequest} => row'[k] = row[k]
  PROVE  JobInv'
  <1>1. /\ \A q \in Requests \ {r} : pc'[q] = pc[q] /\ answer'[q] = answer[q]
        /\ UNCHANGED <<pending, job, cur, todo, skipped>>
        /\ pc'[r] = "done" /\ answer'[r] = a
    BY DEF Finish, Goto, TypeOK
  <1>2. \A k \in Keys : lock'[k] = IF lock[k] = r THEN NoRequest ELSE lock[k]
    BY DEF Finish
  <1>3. WrittenOpen'
    <2>1. \A k \in Keys : lock'[k] # NoRequest => lock[k] \notin {r, NoRequest} /\ lock'[k] = lock[k]
      BY <1>2
    <2> QED
      BY <1>1, <2>1, WrittenOpenKept DEF JobInv
  <1>4. ASSUME NEW q \in Requests \ {r} PROVE JobOK(q)'
    <2>1. Written(q)' = Written(q)
      BY <1>2, SecretStoreAssumption DEF Written
    <2>2. skipped[q] \subseteq Keys
      BY DEF TypeOK
    <2> QED
      BY <1>1, <2>1, <2>2, JobOther
  <1>5. JobOK(r)'
    <2>1. job[r].op # "none"
      <3>1. pc[r] \in Places
        BY DEF TypeOK
      <3> QED
        BY <3>1 DEF JobInv, JobOK, PlaceFits, Places
    <2> QED
      BY <1>1, <2>1 DEF JobOK, PlaceFits, SingleItem, SkippedInUse, ItemsAccounted
  <1> QED
    BY <1>3, <1>4, <1>5 DEF JobInv

\* A request that goes on without a lock or a table changing.
LEMMA JobGoesOn ==
  ASSUME TypeOK, JobInv, NEW r \in Requests,
         UNCHANGED <<row, lock, pending>>,
         \A q \in Requests \ {r} :
             /\ pc'[q] = pc[q] /\ job'[q] = job[q] /\ answer'[q] = answer[q]
             /\ cur'[q] = cur[q] /\ todo'[q] = todo[q] /\ skipped'[q] = skipped[q],
         Written(r) # {} => pc'[r] \in {"open", "txupdate", "txinsert"} /\ job'[r] = job[r]
                            /\ pc[r] # "commit",
         JobOK(r)'
  PROVE  JobInv'
  <1>1. WrittenOpen'
    <2> SUFFICES ASSUME NEW k \in Keys, lock'[k] # NoRequest
                 PROVE  /\ pending'[k] = Atomic!Successor(row'[k], lock'[k])
                        /\ \/ pc'[lock'[k]] = "commit" /\ row'[k].st # "absent"
                           \/ /\ job'[lock'[k]].op = "import"
                              /\ pc'[lock'[k]] \in {"open", "txupdate", "txinsert"}
                              /\ job'[lock'[k]].overwrite \/ row'[k].st = "absent"
      BY DEF WrittenOpen, Free, Atomic!Successor
    <2>1. lock[k] = r => Written(r) # {}
      BY DEF Written
    <2>2. lock[k] \in Requests
      BY DEF TypeOK
    <2>3. /\ pending[k] = Atomic!Successor(row[k], lock[k])
          /\ \/ pc[lock[k]] = "commit" /\ row[k].st # "absent"
             \/ /\ job[lock[k]].op = "import"
                /\ pc[lock[k]] \in {"open", "txupdate", "txinsert"}
                /\ job[lock[k]].overwrite \/ row[k].st = "absent"
      BY DEF JobInv, WrittenOpen, Free
    <2> QED
      BY <2>1, <2>2, <2>3
  <1>2. ASSUME NEW q \in Requests \ {r} PROVE JobOK(q)'
    <2>1. Written(q)' = Written(q)
      BY DEF Written
    <2>2. skipped[q] \subseteq Keys
      BY DEF TypeOK
    <2> QED
      BY <2>1, <2>2, JobOther
  <1> QED
    BY <1>1, <1>2 DEF JobInv

\* Before its first Stage a request holds no row.
LEMMA NothingWritten ==
  ASSUME TypeOK, JobInv, NEW r \in Requests,
         \/ pc[r] \notin {"open", "txupdate", "txinsert", "commit"}
         \/ pc[r] = "txupdate" /\ job[r].op = "rotate"
  PROVE  Written(r) = {}
  <1> SUFFICES ASSUME NEW k \in Keys, lock[k] = r PROVE FALSE
    BY DEF Written
  <1> QED
    BY SecretStoreAssumption DEF JobInv, WrittenOpen, Free

LEMMA JobNext == TypeOK /\ VersionInv /\ JobInv /\ [Next]_vars => JobInv'
  <1> SUFFICES ASSUME TypeOK, VersionInv, JobInv, [Next]_vars PROVE JobInv'
    OBVIOUS
  <1> USE DEF db, txn
  <1>1. CASE UNCHANGED vars
    BY <1>1 DEF vars, JobInv, JobOK, PlaceFits, SingleItem, SkippedInUse, ItemsAccounted,
                WrittenOpen, Free, Written, Atomic!Idle, Atomic!Successor
  <1>2. ASSUME NEW r \in Requests, Begin(r) PROVE JobInv'
    <2>1. pc[r] = "idle" /\ Written(r) = {}
      BY <1>2, NothingWritten
      DEF Begin, BeginCreate, BeginUpdate, BeginDelete, BeginRotate, BeginOn, BeginImport, Accept
    <2>2. UNCHANGED <<row, lock, pending, skipped>> /\ Written(r)' = {}
      BY <1>2, <2>1
      DEF Begin, BeginCreate, BeginUpdate, BeginDelete, BeginRotate, BeginOn, BeginImport, Written
    <2>4. ASSUME NEW q \in Requests \ {r}
          PROVE  /\ pc'[q] = pc[q] /\ job'[q] = job[q] /\ answer'[q] = answer[q]
                 /\ cur'[q] = cur[q] /\ todo'[q] = todo[q] /\ skipped'[q] = skipped[q]
      BY <1>2
      DEF Begin, BeginCreate, BeginUpdate, BeginDelete, BeginRotate, BeginOn, BeginImport,
          Accept, Goto, TypeOK
    <2>5. JobOK(r)'
      <3>1. ASSUME NEW k \in Keys, BeginCreate(r, k) PROVE JobOK(r)'
        BY <2>1, <2>2, <3>1
        DEF BeginCreate, Accept, Goto, TypeOK, JobInv, JobOK, PlaceFits, SingleItem, SkippedInUse, ItemsAccounted
      <3>2. ASSUME NEW k \in Keys, NEW o \in {"update", "delete", "rotate"},
                   NEW p \in {"save", "delete", "rotate"}, BeginOn(r, k, o, p),
                   <<o, p>> \in {<<"update", "save">>, <<"delete", "delete">>, <<"rotate", "rotate">>}
            PROVE  JobOK(r)'
        BY <2>1, <2>2, <3>2
        DEF BeginOn, Accept, Goto, TypeOK, JobInv, JobOK, PlaceFits, SingleItem, SkippedInUse, ItemsAccounted
      <3>3. ASSUME NEW ks \in SUBSET Keys, NEW w \in BOOLEAN, BeginImport(r, ks, w)
            PROVE  JobOK(r)'
        BY <2>1, <2>2, <3>3
        DEF BeginImport, Accept, Goto, TypeOK, JobInv, JobOK, PlaceFits, SingleItem, SkippedInUse, ItemsAccounted
      <3> QED
        BY <1>2, <3>1, <3>2, <3>3 DEF Begin, BeginUpdate, BeginDelete, BeginRotate
    <2> QED
      BY <2>1, <2>2, <2>4, <2>5, JobGoesOn
  <1>3. ASSUME NEW r \in Requests, CreateLookup(r) PROVE JobInv'
    <2>1. pc[r] = "lookup" /\ UNCHANGED row
      BY <1>3 DEF CreateLookup
    <2>2. CASE Finish(r, "conflict")
      BY <2>1, <2>2, JobFinish DEF Answers
    <2>3. CASE Goto(r, "insert") /\ UNCHANGED <<txn, job, cur, todo, skipped, answer>>
      <3>1. JobOK(r)'
        BY <2>1, <2>3
        DEF Goto, TypeOK, JobInv, JobOK, PlaceFits, SingleItem, SkippedInUse, ItemsAccounted
      <3> QED
        BY <2>1, <2>3, <3>1, NothingWritten, JobGoesOn DEF Goto, TypeOK
    <2> QED
      BY <1>3, <2>2, <2>3 DEF CreateLookup
  <1>4. ASSUME NEW r \in Requests, SaveSecretVersion(r) PROVE JobInv'
    <2>1. /\ pc[r] = "save" /\ Goto(r, "update")
          /\ UNCHANGED <<row, txn, job, cur, todo, skipped, answer>>
      BY <1>4 DEF SaveSecretVersion
    <2>2. JobOK(r)'
      BY <2>1
      DEF Goto, TypeOK, JobInv, JobOK, PlaceFits, SingleItem, SkippedInUse, ItemsAccounted
    <2> QED
      BY <2>1, <2>2, NothingWritten, JobGoesOn DEF Goto, TypeOK
  \* A statement that commits by itself writes a free row, and the request answers.
  <1>5. ASSUME NEW r \in Requests, CreateInsert(r) \/ UpdateSecret(r) \/ DeleteSecret(r)
        PROVE  JobInv'
    <2>1. pc[r] \in {"insert", "update", "delete"} /\ Free(cur[r]) /\ cur[r] \in Keys
      BY <1>5 DEF CreateInsert, UpdateSecret, DeleteSecret, TypeOK
    <2>2. PICK a \in Outcome : Finish(r, a)
      BY <1>5 DEF CreateInsert, UpdateSecret, DeleteSecret, Outcome
    <2>3. \A k \in Keys : k # cur[r] => row'[k] = row[k]
      BY <1>5 DEF CreateInsert, UpdateSecret, DeleteSecret, Put, TypeOK
    <2>4. row[cur[r]].st # "absent" => row'[cur[r]].st # "absent"
      BY <1>5, <2>1 DEF CreateInsert, UpdateSecret, DeleteSecret, Put, TypeOK, Bumped, Deleted
    <2> QED
      BY <2>1, <2>2, <2>3, <2>4, JobFinish DEF Free, Outcome, Answers
  <1>6. ASSUME NEW r \in Requests, RotateSelect(r) PROVE JobInv'
    <2>1. /\ pc[r] = "rotate" /\ Goto(r, "txupdate")
          /\ UNCHANGED <<row, lock, pending, job, cur, todo, skipped, answer>>
      BY <1>6 DEF RotateSelect
    <2>2. JobOK(r)'
      BY <2>1
      DEF Goto, TypeOK, JobInv, JobOK, PlaceFits, SingleItem, SkippedInUse, ItemsAccounted
    <2> QED
      BY <2>1, <2>2, NothingWritten, JobGoesOn DEF Goto, TypeOK
  <1>7. ASSUME NEW r \in Requests, NEW k \in Keys, ImportItem(r, k) PROVE JobInv'
    <2>1. /\ pc[r] = "open" /\ k \in todo[r]
          /\ cur' = [cur EXCEPT ![r] = k] /\ todo' = [todo EXCEPT ![r] = @ \ {k}]
          /\ UNCHANGED <<row, lock, pending, job, answer>>
      BY <1>7 DEF ImportItem
    <2>2. cur'[r] = k /\ todo'[r] = todo[r] \ {k} /\ Written(r)' = Written(r)
      BY <2>1 DEF TypeOK, Written
    <2>3. \/ /\ pc'[r] = "txupdate" /\ job[r].overwrite /\ skipped'[r] = skipped[r]
          \/ /\ pc'[r] = "txinsert" /\ skipped'[r] = skipped[r]
          \/ /\ pc'[r] = "open" /\ ~job[r].overwrite /\ row[k].st # "absent"
             /\ skipped'[r] = skipped[r] \cup {k}
      BY <1>7, <2>1 DEF ImportItem, Goto, Live, TypeOK
    <2>4. \A q \in Requests \ {r} : /\ pc'[q] = pc[q] /\ cur'[q] = cur[q]
                                   /\ todo'[q] = todo[q] /\ skipped'[q] = skipped[q]
      BY <1>7, <2>1 DEF ImportItem, Goto, TypeOK
    <2>5. JobOK(r)'
      <3>1. JobOK(r)
        BY DEF JobInv
      <3>2. PlaceFits(r)' /\ SingleItem(r)'
        BY <2>1, <2>3, <3>1 DEF JobOK, PlaceFits, SingleItem
      <3>3. SkippedInUse(r)'
        BY <2>1, <2>3, <3>1 DEF JobOK, SkippedInUse
      <3>4. ItemsAccounted(r)'
        BY <2>1, <2>2, <2>3, <3>1 DEF JobOK, PlaceFits, ItemsAccounted
      <3> QED
        BY <3>2, <3>3, <3>4 DEF JobOK
    <2> QED
      BY <2>1, <2>3, <2>4, <2>5, JobGoesOn
  \* An open transaction writes a free row.
  <1>8. ASSUME NEW r \in Requests, NEW w, Free(cur[r]), Stage(r, cur[r], w),
               w = Atomic!Successor(row[cur[r]], r), UNCHANGED row,
               \/ pc[r] = "txupdate" /\ row[cur[r]].st # "absent"
               \/ pc[r] = "txinsert" /\ row[cur[r]].st = "absent"
        PROVE  JobInv'
    <2> DEFINE k == cur[r]
    <2>1. JobOK(r) /\ k \in Keys
      BY DEF JobInv, TypeOK
    <2>2. /\ UNCHANGED <<job, cur, todo, skipped, answer>>
          /\ pc'[r] = IF job[r].op = "rotate" THEN "commit" ELSE "open"
          /\ \A q \in Requests \ {r} : pc'[q] = pc[q]
          /\ lock'[k] = r /\ pending'[k] = w
          /\ \A q \in Keys \ {k} : lock'[q] = lock[q] /\ pending'[q] = pending[q]
      BY <1>8 DEF Stage, Goto, TypeOK
    <2>3. Written(r)' = Written(r) \cup {k}
      BY <2>1, <2>2 DEF Written
    <2>4. JobOK(r)'
      <3>1. PlaceFits(r)' /\ SingleItem(r)' /\ SkippedInUse(r)'
        BY <1>8, <2>1, <2>2 DEF JobOK, PlaceFits, SingleItem, SkippedInUse
      <3>2. CASE job[r].op = "rotate"
        <4>1. Written(r) = {}
          BY <1>8, <2>1, <3>2, NothingWritten DEF JobOK, PlaceFits
        <4> QED
          BY <2>2, <2>3, <3>1, <3>2, <4>1 DEF JobOK, ItemsAccounted
      <3>3. CASE job[r].op # "rotate"
        BY <1>8, <2>1, <2>2, <2>3, <3>1, <3>3 DEF JobOK, PlaceFits, ItemsAccounted
      <3> QED
        BY <3>2, <3>3
    <2>5. ASSUME NEW q \in Requests \ {r} PROVE JobOK(q)'
      <3>1. Written(q)' = Written(q)
        BY <1>8, <2>2, SecretStoreAssumption DEF Written, Free
      <3>2. skipped[q] \subseteq Keys
        BY DEF TypeOK
      <3> QED
        BY <1>8, <2>2, <3>1, <3>2, JobOther
    <2>6. WrittenOpen'
      <3> SUFFICES ASSUME NEW q \in Keys, lock'[q] # NoRequest
                   PROVE  /\ pending'[q] = Atomic!Successor(row[q], lock'[q])
                          /\ \/ pc'[lock'[q]] = "commit" /\ row[q].st # "absent"
                             \/ /\ job[lock'[q]].op = "import"
                                /\ pc'[lock'[q]] \in {"open", "txupdate", "txinsert"}
                                /\ job[lock'[q]].overwrite \/ row[q].st = "absent"
        BY <1>8, <2>2 DEF WrittenOpen, Free, Atomic!Successor
      <3>1. CASE q = k
        BY <1>8, <2>1, <2>2, <3>1 DEF JobOK, PlaceFits
      <3>2. CASE q # k /\ lock[q] # r
        BY <2>2, <3>2 DEF JobInv, WrittenOpen, Free, TypeOK
      <3>3. CASE q # k /\ lock[q] = r
        <4>1. Written(r) # {}
          BY <3>3 DEF Written
        <4>2. job[r].op = "import" /\ pc'[r] = "open"
          BY <1>8, <2>1, <2>2, <4>1, NothingWritten DEF JobOK, PlaceFits
        <4>3. /\ pending[q] = Atomic!Successor(row[q], lock[q])
              /\ pc[r] # "commit" => job[r].overwrite \/ row[q].st = "absent"
          BY <2>2, <3>3 DEF JobInv, WrittenOpen, Free
        <4> QED
          BY <1>8, <2>2, <3>3, <4>2, <4>3
      <3> QED
        BY <3>1, <3>2, <3>3
    <2> QED
      BY <2>4, <2>5, <2>6 DEF JobInv
  <1>9. ASSUME NEW r \in Requests, TxUpdate(r) PROVE JobInv'
    <2>1. row[cur[r]].st # "absent"
      BY <1>9 DEF TxUpdate, VersionInv, RewrittenExists
    <2> QED
      BY <1>8, <1>9, <2>1 DEF TxUpdate, Bumped, Atomic!Successor
  <1>10. ASSUME NEW r \in Requests, Finish(r, "error"), UNCHANGED <<db, seen>>,
                pc[r] \notin {"idle", "done"}
         PROVE  JobInv'
    BY <1>10, JobFinish DEF Answers
  <1>11. ASSUME NEW r \in Requests, TxInsert(r) PROVE JobInv'
    BY <1>8, <1>10, <1>11 DEF TxInsert, Atomic!Successor
  <1>12. ASSUME NEW r \in Requests, DeadlockVictim(r) PROVE JobInv'
    <2>1. pc[r] \in {"txupdate", "txinsert"}
      BY <1>12 DEF DeadlockVictim, WaitsFor
    <2> QED
      BY <1>10, <1>12, <2>1 DEF DeadlockVictim
  <1>13. ASSUME NEW r \in Requests, Commit(r) PROVE JobInv'
    <2>1. PICK a \in Outcome : Finish(r, a)
      BY <1>13 DEF Commit
    <2>2. row' = [k \in Keys |-> IF k \in Written(r) THEN pending[k] ELSE row[k]]
      BY <1>13 DEF Commit
    <2>3. \A k \in Written(r) : pending[k].st # "absent"
      BY SecretStoreAssumption DEF Written, VersionInv, PendingFollows, Follows, Free
    <2> QED
      BY <1>13, <2>1, <2>2, <2>3, JobFinish DEF Commit, Written, Outcome, Answers
  <1> QED
    BY <1>1, <1>2, <1>3, <1>4, <1>5, <1>6, <1>7, <1>9, <1>10, <1>11, <1>12, <1>13
    DEF Next, Continue, Fail
-----------------------------------------------------------------------------
LEMMA AtomicInit == Init => Atomic!Init
  BY DEF Init, Atomic!Init, NoRow, Atomic!NoRow, Atomic!Idle, VersionOf

\* The answer of a request that finishes unserved.
LEMMA RefusedAtomically ==
  ASSUME TypeOK, JobInv, NEW r \in Requests, pc[r] \notin {"idle", "done"},
         NEW a \in {"notfound", "conflict", "overquota", "error"}, Finish(r, a),
         UNCHANGED <<row, held, history>>
  PROVE  Atomic!Refuse(r)
  <1>1. job[r] # Atomic!Idle
    BY DEF JobInv, JobOK, PlaceFits, TypeOK, Places, Atomic!Idle
  <1>2. answer[r] = "none"
    BY DEF JobInv, JobOK, PlaceFits
  <1> QED
    BY <1>1, <1>2 DEF Finish, Atomic!Refuse, Atomic!Reply, Atomic!Refusals

\* One key's new version, as the abstract specification writes it.
LEMMA PutIsWrite ==
  ASSUME TypeOK, NEW r \in Requests, NEW k \in Keys, NEW w,
         w = Atomic!Successor(row[k], r), Put(k, w)
  PROVE  Atomic!Write({k}, r)
  <1>1. row' = [q \in Keys |-> IF q \in {k} THEN Atomic!Successor(row[q], r) ELSE row[q]]
    BY DEF Put, TypeOK
  <1>2. VersionOf(k, w) = <<k, Atomic!Successor(row[k], r).ver, r>>
    BY DEF VersionOf, Atomic!Successor
  <1>3. held' = held \cup {<<q, Atomic!Successor(row[q], r).ver, r>> : q \in {k}}
    BY <1>2 DEF Put
  <1> QED
    BY <1>1, <1>3 DEF Atomic!Write

LEMMA AtomicNext ==
  TypeOK /\ VersionInv /\ JobInv /\ [Next]_vars => [Atomic!Next]_Atomic!vars
  <1> SUFFICES ASSUME TypeOK, VersionInv, JobInv, [Next]_vars
               PROVE  Atomic!Next \/ UNCHANGED Atomic!vars
    OBVIOUS
  <1> USE DEF db, txn
  <1>0. \A r \in Requests : JobOK(r)
    BY DEF JobInv
  <1>1. CASE UNCHANGED vars
    BY <1>1 DEF vars, Atomic!vars
  <1>2. ASSUME NEW r \in Requests, Begin(r) PROVE Atomic!Ask(r)
    <2>1. pc[r] = "idle"
      BY <1>2
      DEF Begin, BeginCreate, BeginUpdate, BeginDelete, BeginRotate, BeginOn, BeginImport, Accept
    <2>2. job[r] = Atomic!Idle /\ answer[r] = "none"
      BY <1>0, <2>1 DEF JobOK, PlaceFits
    <2>3. \E o \in {"create", "update", "delete", "rotate", "import"}, w \in BOOLEAN,
             ks \in SUBSET Keys :
             job' = [job EXCEPT ![r] = [op |-> o, items |-> ks, overwrite |-> w]]
      <3>1. ASSUME NEW k \in Keys PROVE {k} \in SUBSET Keys
        OBVIOUS
      <3> QED
        BY <1>2, <3>1
        DEF Begin, BeginCreate, BeginUpdate, BeginDelete, BeginRotate, BeginOn, BeginImport, Accept
    <2>4. \E a \in Atomic!Refusals \cup {"none"} : answer' = [answer EXCEPT ![r] = a]
      <3>1. answer = [answer EXCEPT ![r] = "none"]
        BY <2>2 DEF TypeOK
      <3> QED
        BY <1>2, <3>1
        DEF Begin, BeginCreate, BeginUpdate, BeginDelete, BeginRotate, BeginOn, BeginImport,
            Atomic!Refusals
    <2>5. UNCHANGED <<row, held, history>>
      BY <1>2
      DEF Begin, BeginCreate, BeginUpdate, BeginDelete, BeginRotate, BeginOn, BeginImport
    <2> QED
      BY <2>2, <2>3, <2>4, <2>5 DEF Atomic!Ask, Atomic!Reply
  <1>3. ASSUME NEW r \in Requests, CreateLookup(r)
        PROVE  Atomic!Refuse(r) \/ UNCHANGED Atomic!vars
    BY <1>3, RefusedAtomically DEF CreateLookup, Atomic!vars
  <1>4. ASSUME NEW r \in Requests, SaveSecretVersion(r)
        PROVE  Atomic!Save(r) \/ UNCHANGED Atomic!vars
    <2>1. pc[r] = "save" /\ UNCHANGED <<row, held, job, answer>>
      BY <1>4 DEF SaveSecretVersion
    <2>2. CASE UNCHANGED history
      BY <2>1, <2>2 DEF Atomic!vars
    <2>3. CASE history' = history \cup {VersionOf(cur[r], seen[r])}
      <3>1. VersionOf(cur[r], seen[r]) \in held
        BY <2>1 DEF VersionInv, CopiesHeld
      <3>2. job[r].op = "update" /\ answer[r] = "none"
        BY <1>0, <2>1 DEF JobOK, PlaceFits
      <3> QED
        BY <2>1, <2>3, <3>1, <3>2 DEF Atomic!Save, Atomic!Saves, Atomic!Asked
    <2> QED
      BY <1>4, <2>2, <2>3 DEF SaveSecretVersion
  \* A request that commits its write answers in the same step.
  <1>5. ASSUME NEW r \in Requests, NEW a \in Outcome, Finish(r, a),
               Atomic!Create(r) \/ Atomic!Update(r) \/ Atomic!Delete(r)
                   \/ Atomic!Rotate(r) \/ Atomic!Import(r)
        PROVE  Atomic!Serve(r)
    BY <1>5 DEF Finish, Outcome, Atomic!Serve, Atomic!Reply
  <1>6. ASSUME NEW r \in Requests, CreateInsert(r) PROVE Atomic!Next
    <2> DEFINE w == [st |-> "live", ver |-> 1, val |-> r]
    <2>1. pc[r] = "insert" /\ cur[r] \in Keys
      BY <1>6 DEF CreateInsert, TypeOK
    <2>2. CASE row[cur[r]].st = "absent"
      <3>1. PICK a \in Outcome : Finish(r, a)
        BY <1>6, <2>2 DEF CreateInsert
      <3>2. Put(cur[r], w) /\ UNCHANGED history
        BY <1>6, <2>2 DEF CreateInsert
      <3>3. Atomic!Write({cur[r]}, r)
        BY <2>1, <2>2, <3>2, PutIsWrite DEF Atomic!Successor
      <3>4. job[r].items = {cur[r]} /\ job[r].op = "create" /\ answer[r] = "none"
        BY <1>0, <2>1 DEF JobOK, PlaceFits, SingleItem
      <3>5. Atomic!Create(r)
        BY <2>2, <3>2, <3>3, <3>4 DEF Atomic!Create, Atomic!Asked
      <3> QED
        BY <1>5, <3>1, <3>5 DEF Atomic!Next
    <2>3. CASE row[cur[r]].st # "absent"
      BY <1>6, <2>1, <2>3, RefusedAtomically DEF CreateInsert, Atomic!Next
    <2> QED
      BY <2>2, <2>3
  <1>7. ASSUME NEW r \in Requests, UpdateSecret(r) PROVE Atomic!Next
    <2>1. pc[r] = "update" /\ cur[r] \in Keys
      BY <1>7 DEF UpdateSecret, TypeOK
    <2>2. CASE Live(cur[r])
      <3>1. PICK a \in Outcome : Finish(r, a)
        BY <1>7, <2>2 DEF UpdateSecret
      <3>2. Put(cur[r], Bumped(row[cur[r]], r)) /\ UNCHANGED history
        BY <1>7, <2>2 DEF UpdateSecret
      <3>3. Atomic!Write({cur[r]}, r)
        BY <2>1, <2>2, <3>2, PutIsWrite DEF Atomic!Successor, Live, Bumped
      <3>4. job[r].items = {cur[r]} /\ job[r].op = "update" /\ answer[r] = "none"
        BY <1>0, <2>1 DEF JobOK, PlaceFits, SingleItem
      <3>5. Atomic!Update(r)
        BY <2>2, <3>2, <3>3, <3>4 DEF Atomic!Update, Atomic!Asked, Live
      <3> QED
        BY <1>5, <3>1, <3>5 DEF Atomic!Next
    <2>3. CASE ~Live(cur[r])
      BY <1>7, <2>1, <2>3, RefusedAtomically DEF UpdateSecret, Atomic!Next
    <2> QED
      BY <2>2, <2>3
  <1>8. ASSUME NEW r \in Requests, DeleteSecret(r) PROVE Atomic!Next
    <2>1. pc[r] = "delete" /\ cur[r] \in Keys /\ UNCHANGED <<held, history>>
      BY <1>8 DEF DeleteSecret, TypeOK
    <2>2. PICK a \in Outcome : Finish(r, a)
      BY <1>8 DEF DeleteSecret
    <2>3. job[r].items = {cur[r]} /\ job[r].op = "delete" /\ answer[r] = "none"
      BY <1>0, <2>1 DEF JobOK, PlaceFits, SingleItem
    <2>4. Deleted(row[cur[r]]) = [row[cur[r]] EXCEPT !.st = "deleted"]
      <3>1. row[cur[r]] \in Row
        BY <2>1 DEF TypeOK
      <3> QED
        BY <3>1 DEF Deleted, Row
    <2>5. row' = [k \in Keys |-> IF k \in {cur[r]} THEN [row[k] EXCEPT !.st = "deleted"]
                                                 ELSE row[k]]
      BY <1>8, <2>1, <2>4 DEF DeleteSecret, TypeOK
    <2>6. Atomic!Delete(r)
      BY <2>1, <2>3, <2>5 DEF Atomic!Delete, Atomic!Asked
    <2> QED
      BY <1>5, <2>2, <2>6 DEF Atomic!Next
  <1>9. ASSUME NEW r \in Requests, Commit(r) PROVE Atomic!Next
    <2>1. PICK a \in Outcome : Finish(r, a)
      BY <1>9 DEF Commit
    <2>2. \A k \in Written(r) : pending[k] = Atomic!Successor(row[k], r)
      BY SecretStoreAssumption DEF JobInv, WrittenOpen, Written, Free
    <2>3. Atomic!Write(Written(r), r)
      <3>1. row' = [k \in Keys |-> IF k \in Written(r) THEN Atomic!Successor(row[k], r) ELSE row[k]]
        BY <1>9, <2>2 DEF Commit
      <3>2. {VersionOf(k, pending[k]) : k \in Written(r)}
              = {<<k, Atomic!Successor(row[k], r).ver, r>> : k \in Written(r)}
        <4>1. \A k \in Written(r) :
                 VersionOf(k, pending[k]) = <<k, Atomic!Successor(row[k], r).ver, r>>
          <5>1. ASSUME NEW k \in Written(r) PROVE Atomic!Successor(row[k], r).val = r
            BY DEF Atomic!Successor
          <5> QED
            BY <2>2, <5>1 DEF VersionOf
        <4> QED
          BY <4>1
      <3>3. held' = held \cup {VersionOf(k, pending[k]) : k \in Written(r)}
        BY <1>9 DEF Commit
      <3> QED
        BY <3>1, <3>2, <3>3 DEF Atomic!Write
    <2>4. Atomic!Saves
      BY <1>9 DEF Commit, Atomic!Saves, VersionInv, CopiesHeld
    <2>5. answer[r] = "none" /\ JobOK(r)
      BY <1>0, <1>9 DEF Commit, JobOK, PlaceFits
    <2>6. CASE pc[r] = "commit"
      <3>1. job[r].op = "rotate" /\ job[r].items = {cur[r]} /\ Written(r) = {cur[r]}
        BY <2>5, <2>6 DEF JobOK, PlaceFits, SingleItem, ItemsAccounted
      <3>4. row[cur[r]].st # "absent"
        BY <2>6, <3>1, SecretStoreAssumption DEF JobInv, WrittenOpen, Written, Free
      <3>5. Atomic!Rotate(r)
        BY <2>3, <2>4, <2>5, <3>1, <3>4 DEF Atomic!Rotate, Atomic!Asked
      <3> QED
        BY <1>5, <2>1, <3>5 DEF Atomic!Next
    <2>7. CASE pc[r] = "open" /\ todo[r] = {}
      <3>1. job[r].op = "import" /\ job[r].items = skipped[r] \cup Written(r)
        BY <2>5, <2>7 DEF JobOK, PlaceFits, ItemsAccounted
      <3>2. \A k \in skipped[r] : row[k].st # "absent" /\ ~job[r].overwrite
        BY <2>5, <2>7 DEF JobOK, SkippedInUse
      <3>3. \A k \in Written(r) : job[r].overwrite \/ row[k].st = "absent"
        BY <2>7, SecretStoreAssumption DEF JobInv, WrittenOpen, Written, Free
      <3>4. Written(r) = {k \in job[r].items : job[r].overwrite \/ row[k].st = "absent"}
        BY <3>1, <3>2, <3>3
      <3>5. Atomic!Import(r)
        BY <2>3, <2>4, <2>5, <3>1, <3>4 DEF Atomic!Import, Atomic!Asked
      <3> QED
        BY <1>5, <2>1, <3>5 DEF Atomic!Next
    <2> QED
      BY <1>9, <2>6, <2>7 DEF Commit
  <1>10. ASSUME NEW r \in Requests, Finish(r, "error"), UNCHANGED <<db, seen>>,
                pc[r] \notin {"idle", "done"}
         PROVE  Atomic!Next
    BY <1>10, RefusedAtomically DEF Atomic!Next
  <1>11. ASSUME NEW r \in Requests,
                \/ RotateSelect(r) \/ TxUpdate(r)
                \/ TxInsert(r) /\ ~Finish(r, "error")
                \/ \E k \in Keys : ImportItem(r, k)
         PROVE  UNCHANGED Atomic!vars
    BY <1>11 DEF RotateSelect, TxUpdate, TxInsert, ImportItem, Stage, Atomic!vars
  <1>12. ASSUME NEW r \in Requests, TxInsert(r), Finish(r, "error") PROVE Atomic!Next
    BY <1>10, <1>12 DEF TxInsert
  <1>13. ASSUME NEW r \in Requests, DeadlockVictim(r) PROVE Atomic!Next
    <2>1. pc[r] \in {"txupdate", "txinsert"}
      BY <1>13 DEF DeadlockVictim, WaitsFor
    <2> QED
      BY <1>10, <1>13, <2>1 DEF DeadlockVictim
  <1> QED
    BY <1>1, <1>2, <1>3, <1>4, <1>6, <1>7, <1>8, <1>9, <1>10, <1>11, <1>12, <1>13
    DEF Next, Continue, Fail, Atomic!Next

\* The handlers and their statements implement requests that take effect in one step.
THEOREM RequestsAreAtomic == Spec => TakesEffectAtomically
  BY TypeInit, TypeNext, VersionInit, VersionNext, JobInit, JobNext, AtomicInit, AtomicNext, PTL
  DEF Spec, TakesEffectAtomically, Atomic!Spec

-----------------------------------------------------------------------------
LEMMA OutcomeInit == Init => OutcomeInv
  <1> SUFFICES ASSUME Init PROVE OutcomeInv
    OBVIOUS
  <1>1. \A k \in Keys : row[k].val = Original
    BY DEF Init, NoRow
  <1>2. \A h \in held : \E k \in Keys : h = <<k, row[k].ver, row[k].val>>
    BY DEF Init, VersionOf
  <1>3. \A h \in held : h[3] = Original
    BY <1>1, <1>2
  <1> QED
    BY <1>3, SecretStoreAssumption
    DEF Init, OutcomeInv, NothingYet, ImportAllOrNothing, AckedWriteLanded

\* A step that writes nothing, of a request that has not answered.
LEMMA OutcomeQuiet ==
  ASSUME TypeOK, OutcomeInv, NEW r \in Requests, pc[r] # "done",
         \A q \in Requests \ {r} :
             /\ pc'[q] = pc[q] /\ job'[q] = job[q] /\ answer'[q] = answer[q]
             /\ cur'[q] = cur[q] /\ seen'[q] = seen[q] /\ skipped'[q] = skipped[q],
         held' = held,
         answer'[r] = "ok" => job'[r].op \notin {"create", "update"}
  PROVE  OutcomeInv'
  <1>1. NothingYet'
    BY DEF OutcomeInv, NothingYet
  <1>2. ImportAllOrNothing'
    <2> SUFFICES ASSUME NEW q \in Requests, job'[q].op = "import"
                 PROVE  {k \in Keys : \E h \in held : h[1] = k /\ h[3] = q}
                            \in {{}, job'[q].items \ skipped'[q]}
      BY DEF ImportAllOrNothing
    <2>1. CASE q = r
      BY <2>1 DEF OutcomeInv, NothingYet
    <2>2. CASE q # r
      BY <2>2 DEF OutcomeInv, ImportAllOrNothing
    <2> QED
      BY <2>1, <2>2
  <1>3. AckedWriteLanded'
    BY DEF OutcomeInv, AckedWriteLanded, VersionOf
  <1> QED
    BY <1>1, <1>2, <1>3 DEF OutcomeInv

\* A step that writes and answers.
LEMMA OutcomeWrites ==
  ASSUME TypeOK, OutcomeInv, NEW r \in Requests, pc[r] # "done", pc'[r] = "done",
         \A q \in Requests \ {r} :
             /\ pc'[q] = pc[q] /\ answer'[q] = answer[q] /\ seen'[q] = seen[q],
         UNCHANGED <<job, cur, skipped>>,
         held \subseteq held', \A h \in held' : h \in held \/ h[3] = r,
         job[r].op = "import" =>
             {k \in Keys : \E h \in held' : h[1] = k /\ h[3] = r} = job[r].items \ skipped[r],
         job[r].op \in {"create", "update"} /\ answer'[r] = "ok" =>
             seen'[r].val = r /\ VersionOf(cur[r], seen'[r]) \in held'
  PROVE  OutcomeInv'
  <1>1. NothingYet'
    BY DEF OutcomeInv, NothingYet
  <1>2. ImportAllOrNothing'
    <2> SUFFICES ASSUME NEW q \in Requests, job[q].op = "import"
                 PROVE  {k \in Keys : \E h \in held' : h[1] = k /\ h[3] = q}
                            \in {{}, job[q].items \ skipped[q]}
      BY DEF ImportAllOrNothing
    <2>1. CASE q = r
      BY <2>1
    <2>2. CASE q # r
      <3>1. {k \in Keys : \E h \in held' : h[1] = k /\ h[3] = q}
              = {k \in Keys : \E h \in held : h[1] = k /\ h[3] = q}
        BY <2>2
      <3> QED
        BY <3>1 DEF OutcomeInv, ImportAllOrNothing
    <2> QED
      BY <2>1, <2>2
  <1>3. AckedWriteLanded'
    BY DEF OutcomeInv, AckedWriteLanded, VersionOf
  <1> QED
    BY <1>1, <1>2, <1>3 DEF OutcomeInv

LEMMA OutcomeNext == TypeOK /\ JobInv /\ OutcomeInv /\ [Next]_vars => OutcomeInv'
  <1> SUFFICES ASSUME TypeOK, JobInv, OutcomeInv, [Next]_vars PROVE OutcomeInv'
    OBVIOUS
  <1> USE DEF db, txn
  <1>0. \A r \in Requests : JobOK(r)
    BY DEF JobInv
  <1>1. CASE UNCHANGED vars
    BY <1>1 DEF vars, OutcomeInv, NothingYet, ImportAllOrNothing, AckedWriteLanded, VersionOf
  <1>2. ASSUME NEW r \in Requests, Begin(r) PROVE OutcomeInv'
    <2>1. pc[r] = "idle" /\ held' = held /\ skipped' = skipped
      BY <1>2
      DEF Begin, BeginCreate, BeginUpdate, BeginDelete, BeginRotate, BeginOn, BeginImport, Accept
    <2>2. \A q \in Requests \ {r} :
             /\ pc'[q] = pc[q] /\ job'[q] = job[q] /\ answer'[q] = answer[q]
             /\ cur'[q] = cur[q] /\ seen'[q] = seen[q]
      BY <1>2
      DEF Begin, BeginCreate, BeginUpdate, BeginDelete, BeginRotate, BeginOn, BeginImport,
          Accept, Goto, TypeOK
    <2>3. answer[r] = "none"
      BY <1>0, <2>1 DEF JobOK, PlaceFits
    <2>4. answer'[r] # "ok"
      BY <1>2, <2>3
      DEF Begin, BeginCreate, BeginUpdate, BeginDelete, BeginRotate, BeginOn, BeginImport, TypeOK
    <2> QED
      BY <2>1, <2>2, <2>4, OutcomeQuiet
  <1>3. ASSUME NEW r \in Requests, NEW a \in {"notfound", "conflict", "overquota", "error"},
               Finish(r, a), UNCHANGED <<held, seen>>, pc[r] # "done"
        PROVE  OutcomeInv'
    BY <1>3, OutcomeQuiet DEF Finish, Goto, TypeOK
  <1>4. ASSUME NEW r \in Requests,
               \/ CreateLookup(r) /\ Goto(r, "insert") /\ UNCHANGED <<job, cur, skipped, answer>>
               \/ SaveSecretVersion(r) \/ RotateSelect(r) \/ TxUpdate(r)
               \/ TxInsert(r) /\ ~Finish(r, "error")
               \/ \E k \in Keys : ImportItem(r, k)
        PROVE  OutcomeInv'
    <2>1. pc[r] \notin {"idle", "done"} /\ held' = held /\ answer' = answer
      BY <1>4 DEF CreateLookup, SaveSecretVersion, RotateSelect, TxUpdate, TxInsert, ImportItem, Stage
    <2>2. \A q \in Requests \ {r} :
             /\ pc'[q] = pc[q] /\ job'[q] = job[q]
             /\ cur'[q] = cur[q] /\ seen'[q] = seen[q] /\ skipped'[q] = skipped[q]
      BY <1>4
      DEF CreateLookup, SaveSecretVersion, RotateSelect, TxUpdate, TxInsert, ImportItem, Stage,
          SelectAndSave, Goto, TypeOK
    <2>3. answer[r] = "none"
      BY <1>0, <2>1 DEF JobOK, PlaceFits
    <2> QED
      BY <2>1, <2>2, <2>3, OutcomeQuiet
  \* One row written and reported.
  <1>5. ASSUME NEW r \in Requests, NEW k \in Keys, NEW w, NEW a \in Outcome, k = cur[r],
               w.val = r, pc[r] # "done", job[r].op # "import", Finish(r, a),
               Put(k, w), seen' = [seen EXCEPT ![r] = w]
        PROVE  OutcomeInv'
    <2>1. held' = held \cup {<<k, w.ver, r>>} /\ seen'[r] = w
      BY <1>5 DEF Put, VersionOf, TypeOK
    <2>2. \A q \in Requests \ {r} : pc'[q] = pc[q] /\ answer'[q] = answer[q] /\ seen'[q] = seen[q]
      BY <1>5 DEF Finish, Goto, TypeOK
    <2>3. pc'[r] = "done" /\ UNCHANGED <<job, cur, skipped>>
      BY <1>5 DEF Finish, Goto, TypeOK
    <2>4. \A h \in held' : h \in held \/ h[3] = r
      BY <2>1
    <2>5. VersionOf(cur[r], seen'[r]) \in held' /\ seen'[r].val = r
      BY <1>5, <2>1 DEF VersionOf
    <2> QED
      BY <1>5, <2>1, <2>2, <2>3, <2>4, <2>5, OutcomeWrites
  <1>6. ASSUME NEW r \in Requests, CreateInsert(r) PROVE OutcomeInv'
    <2>1. pc[r] = "insert" /\ cur[r] \in Keys /\ job[r].op # "import"
      BY <1>0, <1>6 DEF CreateInsert, TypeOK, JobOK, PlaceFits
    <2> QED
      BY <1>3, <1>5, <1>6, <2>1 DEF CreateInsert
  <1>7. ASSUME NEW r \in Requests, UpdateSecret(r) PROVE OutcomeInv'
    <2>1. pc[r] = "update" /\ cur[r] \in Keys /\ job[r].op # "import"
      BY <1>0, <1>7 DEF UpdateSecret, TypeOK, JobOK, PlaceFits
    <2>2. Bumped(row[cur[r]], r).val = r
      BY DEF Bumped
    <2> QED
      BY <1>3, <1>5, <1>7, <2>1, <2>2 DEF UpdateSecret
  <1>8. ASSUME NEW r \in Requests, DeleteSecret(r) PROVE OutcomeInv'
    <2>1. pc[r] = "delete" /\ job[r].op = "delete" /\ UNCHANGED <<held, seen>>
      BY <1>0, <1>8 DEF DeleteSecret, JobOK, PlaceFits
    <2>2. PICK a \in Outcome : Finish(r, a)
      BY <1>8 DEF DeleteSecret
    <2> QED
      BY <2>1, <2>2, OutcomeQuiet DEF Finish, Goto, TypeOK
  <1>9. ASSUME NEW r \in Requests, Commit(r) PROVE OutcomeInv'
    <2>1. PICK a \in Outcome : Finish(r, a)
      BY <1>9 DEF Commit
    <2>2. pc[r] # "done" /\ UNCHANGED seen
      BY <1>9 DEF Commit
    <2>3. \A k \in Written(r) : pending[k] = Atomic!Successor(row[k], r)
      BY SecretStoreAssumption DEF JobInv, WrittenOpen, Written, Free
    <2>4. held' = held \cup {<<k, pending[k].ver, r>> : k \in Written(r)}
      <3>1. \A k \in Written(r) : VersionOf(k, pending[k]) = <<k, pending[k].ver, r>>
        <4>1. \A k \in Written(r) : Atomic!Successor(row[k], r).val = r
          BY DEF Atomic!Successor
        <4> QED
          BY <2>3, <4>1 DEF VersionOf
      <3>2. held' = held \cup {VersionOf(k, pending[k]) : k \in Written(r)}
        BY <1>9 DEF Commit
      <3> QED
        BY <3>1, <3>2
    <2>5. {k \in Keys : \E h \in held' : h[1] = k /\ h[3] = r} = Written(r)
      <3>1. \A k \in Keys : (\E h \in held' : h[1] = k /\ h[3] = r) <=> k \in Written(r)
        <4>1. \A h \in held : h[3] # r
          BY <2>2 DEF OutcomeInv, NothingYet
        <4>2. ASSUME NEW k \in Written(r) PROVE \E h \in held' : h[1] = k /\ h[3] = r
          <5>1. <<k, pending[k].ver, r>> \in held'
            BY <2>4
          <5> QED
            BY <5>1
        <4> QED
          BY <2>4, <4>1, <4>2
      <3> QED
        BY <3>1 DEF Written
    <2>6. job[r].op = "import" => Written(r) = job[r].items \ skipped[r]
      <3>1. CASE pc[r] = "commit"
        BY <1>0, <3>1 DEF JobOK, PlaceFits
      <3>2. CASE pc[r] = "open" /\ todo[r] = {}
        <4>1. job[r].items = skipped[r] \cup Written(r)
          BY <1>0, <3>2 DEF JobOK, PlaceFits, ItemsAccounted
        <4>2. \A k \in skipped[r] : row[k].st # "absent" /\ ~job[r].overwrite
          BY <1>0, <3>2 DEF JobOK, SkippedInUse
        <4>3. \A k \in Written(r) : job[r].overwrite \/ row[k].st = "absent"
          BY <3>2, SecretStoreAssumption DEF JobInv, WrittenOpen, Written, Free
        <4> QED
          BY <4>1, <4>2, <4>3
      <3> QED
        BY <1>9, <3>1, <3>2 DEF Commit
    <2>7. job[r].op \notin {"create", "update"}
      BY <1>0, <1>9 DEF Commit, JobOK, PlaceFits
    <2>8. /\ \A q \in Requests \ {r} : pc'[q] = pc[q] /\ answer'[q] = answer[q]
          /\ pc'[r] = "done" /\ UNCHANGED <<job, cur, skipped>>
      BY <2>1 DEF Finish, Goto, TypeOK
    <2>9. \A h \in held' : h \in held \/ h[3] = r
      BY <2>4
    <2> QED
      BY <2>2, <2>4, <2>5, <2>6, <2>7, <2>8, <2>9, OutcomeWrites
  <1>10. ASSUME NEW r \in Requests, DeadlockVictim(r) PROVE OutcomeInv'
    <2>1. pc[r] \in {"txupdate", "txinsert"}
      BY <1>10 DEF DeadlockVictim, WaitsFor
    <2> QED
      BY <1>3, <1>10, <2>1 DEF DeadlockVictim
  <1>11. ASSUME NEW r \in Requests, CreateLookup(r) PROVE OutcomeInv'
    BY <1>3, <1>4, <1>11 DEF CreateLookup
  <1>12. ASSUME NEW r \in Requests, TxInsert(r) PROVE OutcomeInv'
    BY <1>3, <1>4, <1>12 DEF TxInsert
  <1> QED
    BY <1>1, <1>2, <1>3, <1>4, <1>6, <1>7, <1>8, <1>9, <1>10, <1>11, <1>12
    DEF Next, Continue, Fail

THEOREM OutcomeInvariant == Spec => []OutcomeInv
  BY TypeInit, TypeNext, VersionInit, VersionNext, JobInit, JobNext, OutcomeInit, OutcomeNext, PTL
  DEF Spec

\* An import writes all of its items, the skipped ones excepted, or none.
THEOREM ImportsAreAtomic == Spec => []ImportAllOrNothing
  <1>1. OutcomeInv => ImportAllOrNothing
    BY DEF OutcomeInv
  <1> QED
    BY <1>1, OutcomeInvariant, PTL

\* A create or update that was acknowledged is among the secret's versions.
THEOREM AckedWritesLanded == Spec => []AckedWriteLanded
  <1>1. OutcomeInv => AckedWriteLanded
    BY DEF OutcomeInv
  <1> QED
    BY <1>1, OutcomeInvariant, PTL
-----------------------------------------------------------------------------
LEMMA SuccessorVersion ==
  ASSUME NEW r, NEW w \in Row
  PROVE  /\ Atomic!Successor(w, r).ver >= 1
         /\ w.st = "absent" => Atomic!Successor(w, r).ver = 1
  <1>1. w.ver \in Nat
    BY DEF Row
  <1>2. CASE w.st = "absent"
    BY <1>2 DEF Atomic!Successor
  <1>3. CASE w.st # "absent"
    <2>1. Atomic!Successor(w, r).ver = w.ver + 1
      BY <1>3 DEF Atomic!Successor
    <2> QED
      BY <1>1, <1>3, <2>1
  <1> QED
    BY <1>2, <1>3

LEMMA KeepInit == Init => KeepInv
  <1> SUFFICES ASSUME Init PROVE KeepInv
    OBVIOUS
  <1>1. \A k \in Keys : row[k].ver \in {0, 1} /\ (row[k].st = "live" => row[k].ver = 1)
    BY DEF Init, NoRow
  <1>2. FirstVersionKept
    BY <1>1 DEF FirstVersionKept
  <1>3. VersionsFromOne
    <2>1. \A h \in held : \E k \in Keys : row[k].st = "live" /\ h = <<k, row[k].ver, row[k].val>>
      BY DEF Init, VersionOf
    <2> QED
      BY <1>1, <2>1 DEF VersionsFromOne
  <1> QED
    BY <1>2, <1>3 DEF Init, KeepInv, SavedBeforeUpdate, SavedBeforeRewrite, Free

\* A step that commits nothing and saves no less.
LEMMA KeepQuiet ==
  ASSUME TypeOK, KeepInv, NEW r \in Requests,
         UNCHANGED <<row, held>>, history \subseteq history', unsaved \subseteq unsaved',
         \A q \in Requests \ {r} :
             /\ pc'[q] = pc[q] /\ cur'[q] = cur[q] /\ seen'[q] = seen[q]
             /\ saving'[q] = saving[q],
         \A k \in Keys : lock'[k] \in {lock[k], NoRequest},
         \A k \in Keys : lock'[k] = r => saving[r] \subseteq saving'[r],
         pc'[r] = "update" => cur'[r] \in unsaved' \/ VersionOf(cur'[r], seen'[r]) \in history',
         pc'[r] = "txupdate" => \E v \in saving'[r] : v[1] = cur'[r]
  PROVE  KeepInv'
  <1>1. FirstVersionKept' /\ VersionsFromOne'
    BY DEF KeepInv, FirstVersionKept, VersionsFromOne
  <1>2. SavedBeforeUpdate'
    BY DEF KeepInv, SavedBeforeUpdate, VersionOf
  <1>3. SavedBeforeRewrite'
    <2>1. ASSUME NEW q \in Requests, pc'[q] = "txupdate"
          PROVE  \E v \in saving'[q] : v[1] = cur'[q]
      BY <2>1 DEF KeepInv, SavedBeforeRewrite
    <2>2. ASSUME NEW k \in Keys, lock'[k] # NoRequest, row[k].st # "absent"
          PROVE  \E v \in saving'[lock'[k]] : v[1] = k
      <3>1. lock'[k] = lock[k] /\ lock[k] \in Requests
        BY <2>2 DEF TypeOK
      <3>2. PICK v \in saving[lock[k]] : v[1] = k
        BY <2>2, <3>1 DEF KeepInv, SavedBeforeRewrite, Free
      <3> QED
        BY <3>1, <3>2
    <2> QED
      BY <2>1, <2>2 DEF SavedBeforeRewrite, Free
  <1> QED
    BY <1>1, <1>2, <1>3 DEF KeepInv

\* A step that commits rows and ends.
LEMMA KeepWrites ==
  ASSUME TypeOK, KeepInv, NEW r \in Requests, NEW a, Finish(r, a),
         history \subseteq history', unsaved' = unsaved,
         \A q \in Requests \ {r} : seen'[q] = seen[q],
         \A k \in Keys : lock[k] \notin {r, NoRequest} => row'[k] = row[k],
         FirstVersionKept', VersionsFromOne'
  PROVE  KeepInv'
  <1>1. /\ \A q \in Requests \ {r} : pc'[q] = pc[q] /\ saving'[q] = saving[q]
        /\ pc'[r] = "done" /\ UNCHANGED cur
    BY DEF Finish, Goto, TypeOK
  <1>2. SavedBeforeUpdate'
    BY <1>1 DEF KeepInv, SavedBeforeUpdate, VersionOf
  <1>3. SavedBeforeRewrite'
    <2>1. ASSUME NEW q \in Requests, pc'[q] = "txupdate"
          PROVE  \E v \in saving'[q] : v[1] = cur[q]
      BY <1>1, <2>1 DEF KeepInv, SavedBeforeRewrite
    <2>2. ASSUME NEW k \in Keys, lock'[k] # NoRequest, row'[k].st # "absent"
          PROVE  \E v \in saving'[lock'[k]] : v[1] = k
      <3>1. lock[k] = lock'[k] /\ lock[k] \in Requests \ {r}
        BY <2>2 DEF TypeOK, Finish
      <3>2. row'[k] = row[k]
        BY <2>2, <3>1
      <3>3. \E v \in saving[lock[k]] : v[1] = k
        BY <2>2, <3>1, <3>2 DEF KeepInv, SavedBeforeRewrite, Free
      <3> QED
        BY <1>1, <3>1, <3>3
    <2> QED
      BY <1>1, <2>1, <2>2 DEF SavedBeforeRewrite, Free
  <1> QED
    BY <1>2, <1>3 DEF KeepInv

\* Rows replaced by their successors, of which a version had been saved.
LEMMA FirstKept ==
  ASSUME TypeOK, VersionInv, KeepInv, NEW W \in SUBSET Keys, NEW new \in [Keys -> Row],
         \A k \in Keys : row'[k] = IF k \in W THEN new[k] ELSE row[k],
         unsaved' = unsaved, history \subseteq history', history' \subseteq held,
         \A k \in W \ unsaved : new[k].ver > 1 => \E v \in history' : v[1] = k
  PROVE  FirstVersionKept'
  <1> SUFFICES ASSUME NEW k \in Keys \ unsaved, row'[k].ver > 1
               PROVE  \E v \in Values : <<k, 1, v>> \in history'
    BY DEF FirstVersionKept
  <1>1. CASE row[k].ver > 1
    BY <1>1 DEF KeepInv, FirstVersionKept
  <1>2. CASE ~(row[k].ver > 1)
    <2>1. k \in W /\ new[k].ver > 1
      BY <1>2
    <2>2. PICK v \in history' : v[1] = k
      BY <2>1
    <2>3. v \in held /\ v \in Version
      BY <2>2 DEF TypeOK
    <2>4. v[2] \in Nat /\ v[3] \in Values /\ v = <<v[1], v[2], v[3]>> /\ row[k].ver \in Nat
      BY <2>3 DEF Version, TypeOK, Row
    <2>5. v[2] >= 1 /\ v[2] <= row[k].ver
      BY <2>2, <2>3 DEF KeepInv, VersionsFromOne, VersionInv, RowIsNewest
    <2>6. v[2] = 1
      BY <1>2, <2>4, <2>5
    <2> QED
      BY <2>2, <2>4, <2>6
  <1> QED
    BY <1>1, <1>2

LEMMA KeepNext == TypeOK /\ VersionInv /\ JobInv /\ KeepInv /\ [Next]_vars => KeepInv'
  <1> SUFFICES ASSUME TypeOK, VersionInv, JobInv, KeepInv, [Next]_vars PROVE KeepInv'
    OBVIOUS
  <1> USE DEF db, txn
  <1>1. CASE UNCHANGED vars
    BY <1>1 DEF vars, KeepInv, FirstVersionKept, VersionsFromOne, SavedBeforeUpdate,
                SavedBeforeRewrite, VersionOf, Free
  <1>2. ASSUME NEW r \in Requests, Begin(r) PROVE KeepInv'
    <2>1. /\ UNCHANGED <<row, held, history, unsaved, lock, saving>>
          /\ pc'[r] \notin {"update", "txupdate"}
          /\ \A q \in Requests \ {r} : pc'[q] = pc[q] /\ cur'[q] = cur[q] /\ seen'[q] = seen[q]
      BY <1>2
      DEF Begin, BeginCreate, BeginUpdate, BeginDelete, BeginRotate, BeginOn, BeginImport,
          Accept, Goto, TypeOK
    <2> QED
      BY <2>1, KeepQuiet
  <1>3. ASSUME NEW r \in Requests, NEW a \in Answers, Finish(r, a),
               UNCHANGED <<row, held, history, unsaved, seen>>
        PROVE  KeepInv'
    <2>1. FirstVersionKept' /\ VersionsFromOne'
      BY <1>3 DEF KeepInv, FirstVersionKept, VersionsFromOne
    <2> QED
      BY <1>3, <2>1, KeepWrites
  <1>4. ASSUME NEW r \in Requests, CreateLookup(r) PROVE KeepInv'
    <2>1. CASE Finish(r, "conflict")
      BY <1>3, <1>4, <2>1 DEF CreateLookup, Answers
    <2>2. CASE Goto(r, "insert") /\ UNCHANGED <<txn, job, cur, todo, skipped, answer>>
      <3>1. pc'[r] = "insert" /\ \A q \in Requests \ {r} : pc'[q] = pc[q]
        BY <2>2 DEF Goto, TypeOK
      <3> QED
        BY <1>4, <2>2, <3>1, KeepQuiet DEF CreateLookup
    <2> QED
      BY <1>4, <2>1, <2>2 DEF CreateLookup
  <1>5. ASSUME NEW r \in Requests, SaveSecretVersion(r) PROVE KeepInv'
    <2>1. /\ UNCHANGED <<row, held, txn, cur, seen>>
          /\ history \subseteq history' /\ unsaved \subseteq unsaved'
          /\ cur[r] \in unsaved' \/ VersionOf(cur[r], seen[r]) \in history'
      BY <1>5 DEF SaveSecretVersion
    <2>2. pc'[r] = "update" /\ \A q \in Requests \ {r} : pc'[q] = pc[q]
      BY <1>5 DEF SaveSecretVersion, Goto, TypeOK
    <2> QED
      BY <2>1, <2>2, KeepQuiet DEF VersionOf
  \* One row written, whose version had been saved if it had one.
  <1>6. ASSUME NEW r \in Requests, NEW k \in Keys, NEW w \in Row, NEW a \in Answers,
               Free(k), Put(k, w), Finish(r, a), UNCHANGED <<history, unsaved>>,
               \A q \in Requests \ {r} : seen'[q] = seen[q],
               w.ver >= 1,
               w.ver > 1 /\ k \notin unsaved => \E v \in history : v[1] = k
        PROVE  KeepInv'
    <2> DEFINE new == [row EXCEPT ![k] = w]
    <2>1. new \in [Keys -> Row] /\ new[k] = w
      BY DEF TypeOK
    <2>2. \A q \in Keys : row'[q] = IF q \in {k} THEN new[q] ELSE row[q]
      BY <1>6 DEF Put, TypeOK
    <2>3. history \subseteq held
      BY DEF VersionInv, HistoryTruthful
    <2> HIDE DEF new
    <2>4. FirstVersionKept'
      <3>1. {k} \in SUBSET Keys
        OBVIOUS
      <3>2. \A q \in {k} \ unsaved : new[q].ver > 1 => \E v \in history' : v[1] = q
        BY <1>6, <2>1
      <3>3. unsaved' = unsaved /\ history \subseteq history' /\ history' \subseteq held
        BY <1>6, <2>3
      <3> QED
        BY <2>1, <2>2, <3>1, <3>2, <3>3, FirstKept
    <2>5. VersionsFromOne'
      <3>1. held' = held \cup {<<k, w.ver, w.val>>}
        BY <1>6 DEF Put, VersionOf
      <3> QED
        BY <1>6, <3>1 DEF KeepInv, VersionsFromOne
    <2>6. \A q \in Keys : lock[q] \notin {r, NoRequest} => row'[q] = row[q]
      BY <1>6, <2>2 DEF Free
    <2> QED
      BY <1>6, <2>4, <2>5, <2>6, KeepWrites
  <1>7. ASSUME NEW r \in Requests, CreateInsert(r) PROVE KeepInv'
    <2> DEFINE w == [st |-> "live", ver |-> 1, val |-> r]
    <2>1. w \in Row /\ cur[r] \in Keys /\ w.ver = 1 /\ Free(cur[r])
      BY <1>7 DEF Row, Values, TypeOK, CreateInsert
    <2>2. CASE row[cur[r]].st = "absent"
      <3>1. PICK a \in Outcome : Finish(r, a)
        BY <1>7, <2>2 DEF CreateInsert
      <3>2. /\ Put(cur[r], w) /\ UNCHANGED <<history, unsaved>>
            /\ \A q \in Requests \ {r} : seen'[q] = seen[q]
        BY <1>7, <2>2 DEF CreateInsert, TypeOK
      <3> QED
        BY <1>6, <2>1, <3>1, <3>2 DEF Outcome, Answers
    <2>3. CASE row[cur[r]].st # "absent"
      BY <1>3, <1>7, <2>3 DEF CreateInsert, Answers
    <2> QED
      BY <2>2, <2>3
  <1>8. ASSUME NEW r \in Requests, UpdateSecret(r) PROVE KeepInv'
    <2> DEFINE w == Bumped(row[cur[r]], r)
    <2>1. cur[r] \in Keys /\ row[cur[r]] \in Row /\ pc[r] = "update" /\ Free(cur[r])
      BY <1>8 DEF TypeOK, UpdateSecret
    <2>2. w \in Row /\ w.ver >= 1
      BY <2>1 DEF Bumped, Row, Values
    <2>3. CASE Live(cur[r])
      <3>1. PICK a \in Outcome : Finish(r, a)
        BY <1>8, <2>3 DEF UpdateSecret
      <3>2. /\ Put(cur[r], w) /\ UNCHANGED <<history, unsaved>>
            /\ \A q \in Requests \ {r} : seen'[q] = seen[q]
        BY <1>8, <2>3 DEF UpdateSecret, TypeOK
      <3>3. cur[r] \notin unsaved => \E v \in history : v[1] = cur[r]
        BY <2>1 DEF KeepInv, SavedBeforeUpdate, VersionOf
      <3> QED
        BY <1>6, <2>1, <2>2, <3>1, <3>2, <3>3 DEF Outcome, Answers
    <2>4. CASE ~Live(cur[r])
      BY <1>3, <1>8, <2>4 DEF UpdateSecret, Answers
    <2> QED
      BY <2>3, <2>4
  <1>9. ASSUME NEW r \in Requests, DeleteSecret(r) PROVE KeepInv'
    <2>1. cur[r] \in Keys /\ Free(cur[r]) /\ UNCHANGED <<history, held, unsaved, seen>>
      BY <1>9 DEF TypeOK, DeleteSecret
    <2>2. PICK a \in Outcome : Finish(r, a)
      BY <1>9 DEF DeleteSecret
    <2>3. row' = [row EXCEPT ![cur[r]] = Deleted(row[cur[r]])]
      BY <1>9 DEF DeleteSecret
    <2>4. \A k \in Keys : row'[k].ver = row[k].ver
      BY <2>1, <2>3 DEF Deleted, TypeOK
    <2>5. FirstVersionKept' /\ VersionsFromOne'
      BY <2>1, <2>4 DEF KeepInv, FirstVersionKept, VersionsFromOne
    <2>6. \A k \in Keys : lock[k] \notin {r, NoRequest} => row'[k] = row[k]
      BY <2>1, <2>3 DEF Free, TypeOK
    <2> QED
      BY <2>1, <2>2, <2>5, <2>6, KeepWrites
  <1>10. ASSUME NEW r \in Requests, NEW k \in Keys, SelectAndSave(r, k), cur'[r] = k,
                pc'[r] = "txupdate",
                \A q \in Requests \ {r} : pc'[q] = pc[q] /\ cur'[q] = cur[q],
                UNCHANGED <<db, lock>>
         PROVE  KeepInv'
    <2>1. \A q \in Requests \ {r} : seen'[q] = seen[q] /\ saving'[q] = saving[q]
      BY <1>10 DEF SelectAndSave, TypeOK
    <2>2. saving'[r] = saving[r] \cup {<<k, row[k].ver, row[k].val>>}
      BY <1>10 DEF SelectAndSave, VersionOf, TypeOK
    <2>3. \E v \in saving'[r] : v[1] = k
      <3>1. <<k, row[k].ver, row[k].val>> \in saving'[r] /\ <<k, row[k].ver, row[k].val>>[1] = k
        BY <2>2
      <3> QED
        BY <3>1
    <2> QED
      BY <1>10, <2>1, <2>2, <2>3, KeepQuiet
  <1>11. ASSUME NEW r \in Requests, RotateSelect(r) PROVE KeepInv'
    BY <1>10, <1>11 DEF RotateSelect, Goto, TypeOK
  <1>12. ASSUME NEW r \in Requests, NEW k \in Keys, ImportItem(r, k) PROVE KeepInv'
    <2>0. \A q \in Requests \ {r} : cur'[q] = cur[q]
      BY <1>12 DEF ImportItem, TypeOK
    <2>1. CASE SelectAndSave(r, k) /\ Goto(r, "txupdate")
      BY <1>10, <1>12, <2>0, <2>1 DEF ImportItem, Goto, TypeOK
    <2>2. CASE UNCHANGED <<saving, seen, pc>>
      <3>1. pc[r] = "open" /\ UNCHANGED <<db, lock>>
        BY <1>12 DEF ImportItem
      <3> QED
        BY <2>0, <2>2, <3>1, KeepQuiet
    <2>3. CASE Goto(r, "txinsert") /\ UNCHANGED <<saving, seen>>
      <3>1. pc'[r] = "txinsert" /\ \A q \in Requests \ {r} : pc'[q] = pc[q]
        BY <2>3 DEF Goto, TypeOK
      <3> QED
        BY <1>12, <2>0, <2>3, <3>1, KeepQuiet DEF ImportItem
    <2> QED
      BY <1>12, <2>1, <2>2, <2>3 DEF ImportItem
  <1>13. ASSUME NEW r \in Requests, NEW w, Stage(r, cur[r], w), UNCHANGED <<db, seen>>,
                row[cur[r]].st # "absent" => \E v \in saving[r] : v[1] = cur[r]
         PROVE  KeepInv'
    <2>1. /\ pc'[r] \in {"commit", "open"}
          /\ \A q \in Requests \ {r} : pc'[q] = pc[q]
          /\ UNCHANGED <<saving, cur>> /\ lock' = [lock EXCEPT ![cur[r]] = r]
      BY <1>13 DEF Stage, Goto, TypeOK
    <2>2. FirstVersionKept' /\ VersionsFromOne' /\ SavedBeforeUpdate'
      BY <1>13, <2>1
      DEF KeepInv, FirstVersionKept, VersionsFromOne, SavedBeforeUpdate, VersionOf
    <2>3. SavedBeforeRewrite'
      BY <1>13, <2>1 DEF KeepInv, SavedBeforeRewrite, Free, TypeOK
    <2> QED
      BY <2>2, <2>3 DEF KeepInv
  <1>14. ASSUME NEW r \in Requests, TxUpdate(r) PROVE KeepInv'
    <2>1. \E v \in saving[r] : v[1] = cur[r]
      BY <1>14 DEF TxUpdate, KeepInv, SavedBeforeRewrite
    <2> QED
      BY <1>13, <1>14, <2>1 DEF TxUpdate
  <1>15. ASSUME NEW r \in Requests, Finish(r, "error"), UNCHANGED <<db, seen>>
         PROVE  KeepInv'
    BY <1>3, <1>15 DEF Answers
  <1>16. ASSUME NEW r \in Requests, TxInsert(r) PROVE KeepInv'
    BY <1>13, <1>15, <1>16 DEF TxInsert
  <1>17. ASSUME NEW r \in Requests, Commit(r) PROVE KeepInv'
    <2>1. PICK a \in Outcome : Finish(r, a)
      BY <1>17 DEF Commit
    <2>2. \A k \in Written(r) : pending[k] = Atomic!Successor(row[k], r)
      BY SecretStoreAssumption DEF JobInv, WrittenOpen, Written, Free
    <2>3. /\ \A k \in Keys : row'[k] = IF k \in Written(r) THEN pending[k] ELSE row[k]
          /\ history' = history \cup saving[r] /\ unsaved' = unsaved /\ seen' = seen
          /\ Written(r) \in SUBSET Keys /\ pending \in [Keys -> Row]
      BY <1>17 DEF Commit, Written, TypeOK
    <2>4. history' \subseteq held
      BY <2>3 DEF VersionInv, HistoryTruthful, CopiesHeld
    <2>5. ASSUME NEW k \in Written(r), pending[k].ver > 1 PROVE \E v \in history' : v[1] = k
      <3>1. row[k].st # "absent"
        <4>1. row[k] \in Row /\ pending[k] = Atomic!Successor(row[k], r)
          BY <2>2, <2>5 DEF Written, TypeOK
        <4> QED
          BY <2>5, <4>1, SuccessorVersion
      <3>2. lock[k] = r /\ k \in Keys /\ r # NoRequest
        BY SecretStoreAssumption DEF Written
      <3>3. \E v \in saving[r] : v[1] = k
        BY <3>1, <3>2 DEF KeepInv, SavedBeforeRewrite, Free
      <3> QED
        BY <2>3, <3>3
    <2>6. FirstVersionKept'
      BY <2>3, <2>4, <2>5, FirstKept
    <2>7. VersionsFromOne'
      <3>1. \A k \in Written(r) : pending[k].ver >= 1
        <4>1. \A k \in Written(r) : row[k] \in Row
          BY DEF Written, TypeOK
        <4> QED
          BY <2>2, <4>1, SuccessorVersion
      <3>2. \A h \in held' : h \in held \/ \E k \in Written(r) : h = <<k, pending[k].ver, pending[k].val>>
        BY <1>17 DEF Commit, VersionOf
      <3> QED
        BY <3>1, <3>2 DEF KeepInv, VersionsFromOne
    <2>8. \A k \in Keys : lock[k] \notin {r, NoRequest} => row'[k] = row[k]
      BY <2>3 DEF Written
    <2> QED
      BY <2>1, <2>3, <2>6, <2>7, <2>8, KeepWrites
  <1> QED
    BY <1>1, <1>2, <1>4, <1>5, <1>7, <1>8, <1>9, <1>11, <1>12, <1>14, <1>15, <1>16, <1>17
    DEF Next, Continue, Fail, DeadlockVictim

\* The value a secret was created with can always be read from its versions.
THEOREM FirstVersionIsKept == Spec => []FirstVersionKept
  <1>1. KeepInv => FirstVersionKept
    BY DEF KeepInv
  <1> QED
    BY <1>1, TypeInit, TypeNext, VersionInit, VersionNext, JobInit, JobNext, KeepInit, KeepNext, PTL
    DEF Spec
=============================================================================
