----------------------------- MODULE SecretStore -----------------------------
(***************************************************************************)
(* The secrets of one environment: the HTTP handlers of handler/secret.go  *)
(* and the statements of store/secret.go they run, interleaved at the      *)
(* granularity of one SQL statement.  Several requests are in flight at    *)
(* once; a statement outside a transaction commits by itself; the two      *)
(* multi-statement operations, RotateSecretValue and BulkImportSecrets,    *)
(* run in a READ COMMITTED transaction that holds the row (or unique-index *)
(* entry) of every key it has written until it commits.                    *)
(*                                                                         *)
(* The table's UNIQUE (env_id, key) covers soft-deleted rows too, and no   *)
(* statement removes a row, so a key has at most one row and the key names *)
(* the secret.  The value a request writes is named by the request.        *)
(***************************************************************************)
EXTENDS Integers, FiniteSets

CONSTANTS
    Requests,      \* requests (and rotation workers); each runs one operation
    Keys,          \* the normalised keys of the environment
    NoRequest,     \* owner of a lock nobody holds
    Original,      \* the value a secret has before any request
    MaxSecrets     \* the plan's MaxSecrets; 0 is unlimited

ASSUME SecretStoreAssumption ==
    /\ NoRequest \notin Requests
    /\ Original \notin Requests
    /\ MaxSecrets \in Nat
    /\ IsFiniteSet(Keys)

VARIABLES
    row,           \* secrets: the committed row of each key
    history,       \* secret_versions: committed rows, as versions
    held,          \* every version a committed row has ever had (auxiliary)
    unsaved,       \* keys for which a SaveSecretVersion failed (auxiliary)
    lock,          \* the open transaction that has written a key's row
    pending,       \* the uncommitted row of a locked key
    saving,        \* secret_versions rows inserted by a request's open transaction
    pc, job,       \* where a request is, and what it was asked
    cur, seen,     \* the key it works on, and the row it last read of that key
    todo, skipped, \* keys an import has still to do, and those it skipped
    answer         \* the response sent

db    == <<row, history, held, unsaved>>
txn   == <<lock, pending, saving>>
local == <<pc, job, cur, seen, todo, skipped, answer>>
vars  == <<row, history, held, unsaved, lock, pending, saving,
           pc, job, cur, seen, todo, skipped, answer>>

Values  == Requests \cup {Original}
Row     == [st : {"absent", "live", "deleted"}, ver : Nat, val : Values]
NoRow   == [st |-> "absent", ver |-> 0, val |-> Original]
Version == Keys \X Nat \X Values
Job     == [op : {"none", "create", "update", "delete", "rotate", "import"},
            items : SUBSET Keys, overwrite : BOOLEAN]
Answers == {"none", "ok", "error", "notfound", "conflict", "overquota"}
Places  == {"idle", "lookup", "insert", "save", "update", "delete", "rotate",
            "open", "txupdate", "txinsert", "commit", "done"}

\* A row's content as a version of key k: what secret_versions records of it.
VersionOf(k, w) == <<k, w.ver, w.val>>

TypeOK ==
    /\ row \in [Keys -> Row]
    /\ history \subseteq Version
    /\ held \subseteq Version
    /\ unsaved \subseteq Keys
    /\ lock \in [Keys -> Requests \cup {NoRequest}]
    /\ pending \in [Keys -> Row]
    /\ saving \in [Requests -> SUBSET Version]
    /\ pc \in [Requests -> Places]
    /\ job \in [Requests -> Job]
    /\ cur \in [Requests -> Keys]
    /\ seen \in [Requests -> Row]
    /\ todo \in [Requests -> SUBSET Keys]
    /\ skipped \in [Requests -> SUBSET Keys]
    /\ answer \in [Requests -> Answers]

\* Every key has no row yet or a live first version, within the plan's limit.
Init ==
    /\ row \in [Keys -> {NoRow, [st |-> "live", ver |-> 1, val |-> Original]}]
    /\ MaxSecrets > 0 => Cardinality({k \in Keys : row[k].st = "live"}) <= MaxSecrets
    /\ history = {}
    /\ held = {VersionOf(k, row[k]) : k \in {k \in Keys : row[k].st = "live"}}
    /\ unsaved = {}
    /\ lock = [k \in Keys |-> NoRequest]
    /\ pending = [k \in Keys |-> NoRow]
    /\ saving = [r \in Requests |-> {}]
    /\ pc = [r \in Requests |-> "idle"]
    /\ job = [r \in Requests |->
                 [op |-> "none", items |-> {}, overwrite |-> FALSE]]
    /\ \E k \in Keys : cur = [r \in Requests |-> k]
    /\ seen = [r \in Requests |-> NoRow]
    /\ todo = [r \in Requests |-> {}]
    /\ skipped = [r \in Requests |-> {}]
    /\ answer = [r \in Requests |-> "none"]

-----------------------------------------------------------------------------
Live(k)   == row[k].st = "live"
LiveCount == Cardinality({k \in Keys : Live(k)})
OverQuota == MaxSecrets > 0 /\ LiveCount >= MaxSecrets

\* No other transaction has written the row or index entry of key k.
Free(k) == lock[k] = NoRequest

Goto(r, place) == pc' = [pc EXCEPT ![r] = place]

\* Mutant of Finish: the transaction is neither committed nor rolled back.
FinishTxLeftOpen(r, a) ==
    /\ Goto(r, "done")
    /\ answer' = [answer EXCEPT ![r] = a]
    /\ UNCHANGED <<lock, saving, pending, job, cur, todo, skipped>>

\* The handler answers; whatever transaction it had open is over.
Finish(r, a) ==
    /\ Goto(r, "done")
    /\ answer' = [answer EXCEPT ![r] = a]
    /\ lock' = [k \in Keys |-> IF lock[k] = r THEN NoRequest ELSE lock[k]]
    /\ saving' = [saving EXCEPT ![r] = {}]
    /\ UNCHANGED <<pending, job, cur, todo, skipped>>

\* The first step of every operation: the request is routed to its handler.
Accept(r, o, ks, overwrite) ==
    /\ pc[r] = "idle"
    /\ job' = [job EXCEPT ![r] = [op |-> o, items |-> ks, overwrite |-> overwrite]]

\* A statement that committed is reported as an error when the connection
\* breaks before its result is read.
Outcome == {"ok", "error"}

\* The write of one row by a statement that commits by itself.
Put(k, w) ==
    /\ row' = [row EXCEPT ![k] = w]
    /\ held' = held \cup {VersionOf(k, w)}

-----------------------------------------------------------------------------
\* CreateSecret: plan check, duplicate check, INSERT.  The errors of the two checks'
\* reads are ignored: an unreadable plan or count is within the limit, an
\* unreadable row is no duplicate.
BeginCreate(r, k) ==
    /\ Accept(r, "create", {k}, FALSE)
    /\ cur' = [cur EXCEPT ![r] = k]
    /\ \/ OverQuota /\ Goto(r, "done")
          /\ answer' = [answer EXCEPT ![r] = "overquota"]
       \/ Goto(r, "lookup") /\ UNCHANGED answer
    /\ UNCHANGED <<db, txn, seen, todo, skipped>>

CreateLookup(r) ==
    /\ pc[r] = "lookup"
    /\ \/ Live(cur[r]) /\ Finish(r, "conflict")
       \/ /\ Goto(r, "insert")
          /\ UNCHANGED <<txn, job, cur, todo, skipped, answer>>
    /\ UNCHANGED <<db, seen>>

\* INSERT waits for a transaction that has inserted the same key, and fails on
\* the unique index when the key has a row, live or soft-deleted.
CreateInsert(r) ==
    LET k == cur[r]
        w == [st |-> "live", ver |-> 1, val |-> r]
    IN  /\ pc[r] = "insert"
        /\ Free(k)
        /\ \/ /\ row[k].st = "absent"
              /\ Put(k, w)
              /\ seen' = [seen EXCEPT ![r] = w]
              /\ \E a \in Outcome : Finish(r, a)
           \/ /\ row[k].st # "absent"
              /\ Finish(r, "error")
              /\ UNCHANGED <<row, held, seen>>
        /\ UNCHANGED <<history, unsaved>>

-----------------------------------------------------------------------------
\* The read of a live secret by ID that opens UpdateSecret, DeleteSecret and
\* a rotation: not found or not readable, or the row is remembered and the
\* operation goes on.
BeginOn(r, k, o, next) ==
    /\ Accept(r, o, {k}, FALSE)
    /\ cur' = [cur EXCEPT ![r] = k]
    /\ \/ /\ Live(k)
          /\ seen' = [seen EXCEPT ![r] = row[k]]
          /\ Goto(r, next)
          /\ UNCHANGED answer
       \/ /\ Goto(r, "done")
          /\ answer' = [answer EXCEPT ![r] = "notfound"]
          /\ UNCHANGED seen
    /\ UNCHANGED <<db, txn, todo, skipped>>

\* Mutant of BeginUpdate: the old version is not saved.
BeginUpdateUnsaved(r, k) == BeginOn(r, k, "update", "update")

BeginUpdate(r, k) == BeginOn(r, k, "update", "save")

\* Mutant of SaveSecretVersion: the value read earlier, numbered by a fresh read.
SaveSecretVersionFreshNumber(r) ==
    /\ pc[r] = "save"
    /\ history' = history \cup {<<cur[r], row[cur[r]].ver, seen[r].val>>}
    /\ Goto(r, "update")
    /\ UNCHANGED <<row, held, unsaved, txn, job, cur, seen, todo, skipped, answer>>

\* `_ = h.DB.SaveSecretVersion(secret)`: the row read earlier becomes a
\* secret_versions row; a failed INSERT is ignored.
SaveSecretVersion(r) ==
    /\ pc[r] = "save"
    /\ \/ history' = history \cup {VersionOf(cur[r], seen[r])} /\ UNCHANGED unsaved
       \/ unsaved' = unsaved \cup {cur[r]} /\ UNCHANGED history
    /\ Goto(r, "update")
    /\ UNCHANGED <<row, held, txn, job, cur, seen, todo, skipped, answer>>

\* What UPDATE ... SET version = version + 1 RETURNING makes of the row it finds.
Bumped(w, r) == [st |-> w.st, ver |-> w.ver + 1, val |-> r]

\* Mutants of UpdateSecret: the version is computed from the row read earlier; a row
\* that is gone is answered with success.
UpdateSecretReadModifyWrite(r) ==
    LET k == cur[r] IN
    /\ pc[r] = "update"
    /\ Free(k)
    /\ \/ /\ Live(k)
          /\ Put(k, Bumped(seen[r], r))
          /\ seen' = [seen EXCEPT ![r] = Bumped(seen[r], r)]
          /\ Finish(r, "ok")
       \/ ~Live(k) /\ Finish(r, "error") /\ UNCHANGED <<row, held, seen>>
    /\ UNCHANGED <<history, unsaved>>

UpdateSecretIgnoresMissing(r) ==
    LET k == cur[r] IN
    /\ pc[r] = "update"
    /\ Free(k)
    /\ \/ /\ Live(k)
          /\ Put(k, Bumped(row[k], r))
          /\ seen' = [seen EXCEPT ![r] = Bumped(row[k], r)]
       \/ ~Live(k) /\ UNCHANGED <<row, held, seen>>
    /\ Finish(r, "ok")
    /\ UNCHANGED <<history, unsaved>>

\* UPDATE ... WHERE id = $3 AND deleted_at IS NULL.  With no such row the store
\* returns nil and the handler panics on updated.Version: a 500.
UpdateSecret(r) ==
    LET k == cur[r] IN
    /\ pc[r] = "update"
    /\ Free(k)
    /\ \/ /\ Live(k)
          /\ Put(k, Bumped(row[k], r))
          /\ seen' = [seen EXCEPT ![r] = Bumped(row[k], r)]
          /\ \E a \in Outcome : Finish(r, a)
       \/ /\ ~Live(k)
          /\ Finish(r, "error")
          /\ UNCHANGED <<row, held, seen>>
    /\ UNCHANGED <<history, unsaved>>

BeginDelete(r, k) == BeginOn(r, k, "delete", "delete")

\* UPDATE ... SET deleted_at = NOW() WHERE id = $1, deleted already or not.
Deleted(w) == [st |-> "deleted", ver |-> w.ver, val |-> w.val]

DeleteSecret(r) ==
    LET k == cur[r] IN
    /\ pc[r] = "delete"
    /\ Free(k)
    /\ row' = [row EXCEPT ![k] = Deleted(row[k])]
    /\ \E a \in Outcome : Finish(r, a)
    /\ UNCHANGED <<history, held, unsaved, seen>>

-----------------------------------------------------------------------------
(* The two transactions.  Their writes stay in pending and saving until    *)
(* Commit; what they read is committed state (READ COMMITTED, no FOR       *)
(* UPDATE), which may have changed by the time they write.                 *)

\* The rotation worker loads the live secret and calls its backend, then
\* RotateSecretValue starts.
BeginRotate(r, k) == BeginOn(r, k, "rotate", "rotate")

\* SELECT ... WHERE id = $1 (soft-deleted or not) and the INSERT of what it saw.
SelectAndSave(r, k) ==
    /\ seen' = [seen EXCEPT ![r] = row[k]]
    /\ saving' = [saving EXCEPT ![r] = @ \cup {VersionOf(k, row[k])}]

RotateSelect(r) ==
    /\ pc[r] = "rotate"
    /\ SelectAndSave(r, cur[r])
    /\ Goto(r, "txupdate")
    /\ UNCHANGED <<db, lock, pending, job, cur, todo, skipped, answer>>

\* BulkImportSecrets: plan check on the count before the import (its read errors
\* ignored), then one item
\* after another in the random order the encryption goroutines finished in.
BeginImport(r, ks, overwrite) ==
    /\ Accept(r, "import", ks, overwrite)
    /\ \/ /\ OverQuota
          /\ Goto(r, "done")
          /\ answer' = [answer EXCEPT ![r] = "overquota"]
          /\ UNCHANGED todo
       \/ /\ Goto(r, "open")
          /\ todo' = [todo EXCEPT ![r] = ks]
          /\ UNCHANGED answer
    /\ UNCHANGED <<db, txn, cur, seen, skipped>>

\* SELECT the live row of the next item's key, and decide what to do with it.
ImportItem(r, k) ==
    /\ pc[r] = "open"
    /\ k \in todo[r]
    /\ cur' = [cur EXCEPT ![r] = k]
    /\ todo' = [todo EXCEPT ![r] = @ \ {k}]
    /\ \/ /\ Live(k) /\ job[r].overwrite
          /\ SelectAndSave(r, k)
          /\ Goto(r, "txupdate")
          /\ UNCHANGED skipped
       \/ /\ Live(k) /\ ~job[r].overwrite
          /\ skipped' = [skipped EXCEPT ![r] = @ \cup {k}]
          /\ UNCHANGED <<saving, seen, pc>>
       \/ /\ ~Live(k)
          /\ Goto(r, "txinsert")
          /\ UNCHANGED <<saving, seen, skipped>>
    /\ UNCHANGED <<db, lock, pending, job, answer>>

\* The transaction's own version of key k, locked until it ends.
Stage(r, k, w) ==
    /\ lock' = [lock EXCEPT ![k] = r]
    /\ pending' = [pending EXCEPT ![k] = w]
    /\ Goto(r, IF job[r].op = "rotate" THEN "commit" ELSE "open")
    /\ UNCHANGED <<saving, job, cur, todo, skipped, answer>>

\* UPDATE ... WHERE id = ..., with no test of deleted_at.
TxUpdate(r) ==
    LET k == cur[r] IN
    /\ pc[r] = "txupdate"
    /\ Free(k)
    /\ Stage(r, k, Bumped(row[k], r))
    /\ UNCHANGED <<db, seen>>

\* INSERT of a key the import saw no live row of; a unique violation ends the
\* transaction.
TxInsert(r) ==
    LET k == cur[r] IN
    /\ pc[r] = "txinsert"
    /\ Free(k)
    /\ \/ /\ row[k].st = "absent"
          /\ Stage(r, k, [st |-> "live", ver |-> 1, val |-> r])
       \/ /\ row[k].st # "absent"
          /\ Finish(r, "error")
    /\ UNCHANGED <<db, seen>>

Written(r) == {k \in Keys : lock[k] = r}

Commit(r) ==
    /\ pc[r] = "commit" \/ (pc[r] = "open" /\ todo[r] = {})
    /\ row' = [k \in Keys |-> IF k \in Written(r) THEN pending[k] ELSE row[k]]
    /\ held' = held \cup {VersionOf(k, pending[k]) : k \in Written(r)}
    /\ history' = history \cup saving[r]
    /\ \E a \in Outcome : Finish(r, a)
    /\ UNCHANGED <<unsaved, seen>>

-----------------------------------------------------------------------------
\* Mutant of Fail: what an import has written so far is committed with the error.
FailCommits(r) ==
    /\ pc[r] \notin {"idle", "done"}
    /\ row' = [k \in Keys |-> IF k \in Written(r) THEN pending[k] ELSE row[k]]
    /\ held' = held \cup {VersionOf(k, pending[k]) : k \in Written(r)}
    /\ Finish(r, "error")
    /\ UNCHANGED <<history, unsaved, seen>>

\* A statement fails or the client goes away (every statement runs under the
\* request's context): the handler answers with an error and an open
\* transaction is rolled back.
Fail(r) ==
    /\ pc[r] \notin {"idle", "done"}
    /\ Finish(r, "error")
    /\ UNCHANGED <<db, seen>>

\* r waits for the row that another open transaction has written.
WaitsFor(r, q) ==
    /\ pc[r] \in {"txupdate", "txinsert"}
    /\ q # r
    /\ lock[cur[r]] = q

\* PostgreSQL's deadlock detector aborts a member of a cycle of waiting
\* transactions.
DeadlockVictim(r) ==
    /\ \E S \in SUBSET Requests :
          /\ r \in S
          /\ \A q \in S : (\E p \in S : WaitsFor(q, p)) /\ (\E p \in S : WaitsFor(p, q))
    /\ Finish(r, "error")
    /\ UNCHANGED <<db, seen>>

Begin(r) ==
    \/ \E k \in Keys : \/ BeginCreate(r, k) \/ BeginUpdate(r, k)
                       \/ BeginDelete(r, k) \/ BeginRotate(r, k)
    \/ \E ks \in SUBSET Keys \ {{}}, overwrite \in BOOLEAN :
          BeginImport(r, ks, overwrite)

Continue(r) ==
    \/ CreateLookup(r) \/ CreateInsert(r)
    \/ SaveSecretVersion(r) \/ UpdateSecret(r)
    \/ DeleteSecret(r)
    \/ RotateSelect(r) \/ (\E k \in Keys : ImportItem(r, k))
    \/ TxUpdate(r) \/ TxInsert(r) \/ Commit(r)
    \/ DeadlockVictim(r)

Next == \E r \in Requests : Begin(r) \/ Continue(r) \/ Fail(r)

Spec == Init /\ [][Next]_vars

\* net/http runs every handler in its own goroutine, and PostgreSQL queues lock
\* waiters and breaks deadlocks: a request that can go on does.
FairSpec == Spec /\ \A r \in Requests : WF_vars(Continue(r))

-----------------------------------------------------------------------------
(* Properties.                                                             *)

\* secret_versions never lies: whatever statements interleave between the read
\* of a row and the INSERT of its copy (SaveSecretVersion, RotateSecretValue,
\* BulkImportSecrets), a row (key, version, value) there is a value the secret
\* really had at that version.
HistoryTruthful == history \subseteq held

\* A version number of a secret names one value: two writers that read the same
\* row never produce the same version, because the UPDATEs increment in place.
VersionsUnambiguous ==
    \A h, g \in held : (h[1] = g[1] /\ h[2] = g[2]) => h[3] = g[3]

\* The parts of VersionInv: a committed row is one of its versions ...
RowIsVersion == \A k \in Keys : row[k].st # "absent" => VersionOf(k, row[k]) \in held
\* ... and the newest of them;
RowIsNewest ==
    \A h \in held : row[h[1]].st # "absent" /\ h[2] <= row[h[1]].ver
\* a row about to be copied into secret_versions was once committed;
CopiesHeld ==
    /\ \A r \in Requests : saving[r] \subseteq held
    /\ \A r \in Requests : pc[r] = "save" => VersionOf(cur[r], seen[r]) \in held
\* a secret about to be deleted or rewritten in a transaction has a row;
RewrittenExists ==
    \A r \in Requests : pc[r] \in {"delete", "rotate", "txupdate"} => row[cur[r]].st # "absent"
\* an uncommitted row is the next version of the row it replaces, which nobody
\* else can change while the lock is held.
Follows(w, old) ==
    /\ w.st # "absent"
    /\ old.st # "absent" => w.st = old.st /\ w.ver = old.ver + 1
PendingFollows == \A k \in Keys : ~Free(k) => Follows(pending[k], row[k])

\* Why the two hold, as an inductive invariant.
VersionInv ==
    /\ HistoryTruthful /\ VersionsUnambiguous
    /\ RowIsVersion /\ RowIsNewest /\ CopiesHeld /\ RewrittenExists /\ PendingFollows

\* The value a secret was created with is kept in secret_versions once any writer
\* has replaced it, however writers overlap, unless the ignored INSERT of
\* SaveSecretVersion failed.
FirstVersionKept ==
    \A k \in Keys \ unsaved :
        row[k].ver > 1 => \E v \in Values : <<k, 1, v>> \in history

\* Why it does: a writer that goes on after SaveSecretVersion has saved what it
\* read, or the INSERT failed, and a transaction that rewrites a row has saved one.
VersionsFromOne == \A h \in held : h[2] >= 1
SavedBeforeUpdate ==
    \A r \in Requests :
        pc[r] = "update" /\ cur[r] \notin unsaved => VersionOf(cur[r], seen[r]) \in history
SavedBeforeRewrite ==
    /\ \A r \in Requests : pc[r] = "txupdate" => \E v \in saving[r] : v[1] = cur[r]
    /\ \A k \in Keys : ~Free(k) /\ row[k].st # "absent" => \E v \in saving[lock[k]] : v[1] = k
KeepInv == FirstVersionKept /\ VersionsFromOne /\ SavedBeforeUpdate /\ SavedBeforeRewrite

\* BulkImportSecrets writes all of its items or none, the ones it skipped
\* excepted, whatever fails, deadlocks or is cancelled in the middle.
ImportAllOrNothing ==
    \A r \in Requests : job[r].op = "import" =>
        {k \in Keys : \E h \in held : h[1] = k /\ h[3] = r}
            \in {{}, job[r].items \ skipped[r]}

\* A create or an update the client saw succeed did take effect, with the version
\* number the response carries.
AckedWriteLanded ==
    \A r \in Requests :
        (answer[r] = "ok" /\ job[r].op \in {"create", "update"}) =>
            seen[r].val = r /\ VersionOf(cur[r], seen[r]) \in held

\* Why they hold: a request's value is in the store only once it has answered.
NothingYet == \A r \in Requests : pc[r] # "done" => \A h \in held : h[3] # r
OutcomeInv == NothingYet /\ ImportAllOrNothing /\ AckedWriteLanded

Atomic == INSTANCE AtomicSecrets WITH
    row <- row, held <- held, history <- history, job <- job, answer <- answer

\* Where a request is tells what it was asked: ...
PlaceFits(r) ==
    /\ pc[r] = "done" <=> answer[r] # "none"
    /\ pc[r] = "idle" => job[r] = Atomic!Idle /\ skipped[r] = {}
    /\ pc[r] \in {"lookup", "insert"} => job[r].op = "create"
    /\ pc[r] \in {"save", "update"}   => job[r].op = "update"
    /\ pc[r] = "delete"               => job[r].op = "delete"
    /\ pc[r] \in {"rotate", "commit"} => job[r].op = "rotate"
    /\ pc[r] \in {"open", "txinsert"} => job[r].op = "import"
    /\ pc[r] = "txupdate" => job[r].op = "rotate" \/ (job[r].op = "import" /\ job[r].overwrite)
    /\ pc[r] = "done" => job[r].op # "none"
\* ... an operation on one secret works on that one;
SingleItem(r) ==
    pc[r] \notin {"idle", "done"} => job[r].op = "import" \/ job[r].items = {cur[r]}
\* an import skips only keys in use, and none when it overwrites;
SkippedInUse(r) ==
    pc[r] # "done" => \A k \in skipped[r] : row[k].st # "absent" /\ ~job[r].overwrite
\* every item is still to do, in hand, skipped or written; a rotation writes its one.
ItemsAccounted(r) ==
    /\ pc[r] \in {"open", "txupdate", "txinsert"} /\ job[r].op = "import" =>
          job[r].items = todo[r] \cup skipped[r] \cup Written(r)
                         \cup (IF pc[r] = "open" THEN {} ELSE {cur[r]})
    /\ pc[r] = "commit" => Written(r) = {cur[r]}
\* An open transaction has written only what it will commit, each row as the
\* successor of the one the table still shows.
WrittenOpen ==
    \A k \in Keys : ~Free(k) =>
        /\ pending[k] = Atomic!Successor(row[k], lock[k])
        /\ \/ pc[lock[k]] = "commit" /\ row[k].st # "absent"
           \/ /\ job[lock[k]].op = "import"
              /\ pc[lock[k]] \in {"open", "txupdate", "txinsert"}
              /\ job[lock[k]].overwrite \/ row[k].st = "absent"

\* Why the refinement below holds, as an inductive invariant.
JobOK(r) == PlaceFits(r) /\ SingleItem(r) /\ SkippedInUse(r) /\ ItemsAccounted(r)
JobInv   == WrittenOpen /\ \A r \in Requests : JobOK(r)

\* Requests are atomic to their clients: the statements, transactions, aborts and
\* lost answers of the handlers implement requests that each take effect in one step,
\* at the moment it is answered or not at all.
TakesEffectAtomically == Atomic!Spec

\* A soft-deleted secret stays deleted: no later operation on its key brings the
\* row back to life (the unique index covers deleted rows).
DeletedStaysDeleted ==
    [][\A k \in Keys : row[k].st = "deleted" => row'[k].st = "deleted"]_vars

\* No request hangs: every operation that starts is answered, though imports lock
\* rows in random order and can wait for one another in a cycle.
EveryRequestAnswered ==
    \A r \in Requests : pc[r] # "idle" ~> pc[r] = "done"

=============================================================================
