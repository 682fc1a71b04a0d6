---------------------------- MODULE AtomicSecrets ----------------------------
(***************************************************************************)
(* What the secret store promises its clients: however requests overlap,   *)
(* each takes effect in one step, on all of its keys or on none, and the   *)
(* answer says so.  "ok" is sent in that step; a refusal changes nothing;  *)
(* after "error" the effect is there entirely or not at all.               *)
(*                                                                         *)
(* SecretStore, where a request is several statements and transactions     *)
(* wait for and abort one another, implements this specification.          *)
(***************************************************************************)
EXTENDS Naturals

CONSTANTS Requests, Keys, Original

VARIABLES
    row,           \* the current version of each key
    held,          \* every version a key has had
    history,       \* the versions that can be looked up
    job,           \* what each request was asked
    answer         \* what it was answered

vars == <<row, held, history, job, answer>>

NoRow == [st |-> "absent", ver |-> 0, val |-> Original]
Idle  == [op |-> "none", items |-> {}, overwrite |-> FALSE]
Refusals == {"notfound", "conflict", "overquota"}

Init ==
    /\ row \in [Keys -> {NoRow, [st |-> "live", ver |-> 1, val |-> Original]}]
    /\ held = {<<k, row[k].ver, row[k].val>> : k \in {k \in Keys : row[k].st = "live"}}
    /\ history = {}
    /\ job = [r \in Requests |-> Idle]
    /\ answer = [r \in Requests |-> "none"]

Reply(r, answers) == \E a \in answers : answer' = [answer EXCEPT ![r] = a]

\* A request comes in; it may be refused at once.
Ask(r) ==
    /\ job[r] = Idle /\ answer[r] = "none"
    /\ \E o \in {"create", "update", "delete", "rotate", "import"}, w \in BOOLEAN,
          ks \in SUBSET Keys :
          job' = [job EXCEPT ![r] = [op |-> o, items |-> ks, overwrite |-> w]]
    /\ Reply(r, Refusals \cup {"none"})
    /\ UNCHANGED <<row, held, history>>

-----------------------------------------------------------------------------
Asked(r, o) == job[r].op = o /\ answer[r] = "none"

\* The version of a key that request r makes of its version w.
Successor(w, r) ==
    IF w.st = "absent" THEN [st |-> "live", ver |-> 1, val |-> r]
                       ELSE [st |-> w.st, ver |-> w.ver + 1, val |-> r]

\* A new version of every key of S.
Write(S, r) ==
    /\ row' = [k \in Keys |-> IF k \in S THEN Successor(row[k], r) ELSE row[k]]
    /\ held' = held \cup {<<k, Successor(row[k], r).ver, r>> : k \in S}

\* Only versions that existed are saved, and none is removed.
Saves ==
    /\ history \subseteq history'
    /\ history' \subseteq history \cup held

\* A key is created once in its life, deleted or not.
Create(r) ==
    /\ Asked(r, "create")
    /\ \A k \in job[r].items : row[k].st = "absent"
    /\ Write(job[r].items, r)
    /\ UNCHANGED history

Update(r) ==
    /\ Asked(r, "update")
    /\ \A k \in job[r].items : row[k].st = "live"
    /\ Write(job[r].items, r)
    /\ UNCHANGED history

Delete(r) ==
    /\ Asked(r, "delete")
    /\ row' = [k \in Keys |-> IF k \in job[r].items THEN [row[k] EXCEPT !.st = "deleted"]
                                                    ELSE row[k]]
    /\ UNCHANGED <<held, history>>

\* The secret may have been deleted since the rotation started; it stays so.
Rotate(r) ==
    /\ Asked(r, "rotate")
    /\ \A k \in job[r].items : row[k].st # "absent"
    /\ Write(job[r].items, r)
    /\ Saves

\* Every item, or without overwrite every item whose key has never been used.
Import(r) ==
    /\ Asked(r, "import")
    /\ Write({k \in job[r].items : job[r].overwrite \/ row[k].st = "absent"}, r)
    /\ Saves

\* The effect and the answer are one step; the answer may get lost.
Serve(r) ==
    /\ Create(r) \/ Update(r) \/ Delete(r) \/ Rotate(r) \/ Import(r)
    /\ Reply(r, {"ok", "error"})
    /\ UNCHANGED job

Refuse(r) ==
    /\ job[r] # Idle /\ answer[r] = "none"
    /\ Reply(r, Refusals \cup {"error"})
    /\ UNCHANGED <<row, held, history, job>>

\* An update saves the version it is about to replace before it does.
Save(r) ==
    /\ Asked(r, "update")
    /\ Saves
    /\ UNCHANGED <<row, held, job, answer>>

Next == \E r \in Requests : Ask(r) \/ Serve(r) \/ Refuse(r) \/ Save(r)

Spec == Init /\ [][Next]_vars
=============================================================================
