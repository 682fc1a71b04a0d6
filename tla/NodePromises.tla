---------------------------- MODULE NodePromises -----------------------------
(***************************************************************************)
(* What the Node SDK promises an application at any time, and the part of  *)
(* its state this is about.  NodeClient extends this module with the rest; *)
(* what the client does in the end depends on its fairness and is stated   *)
(* there.                                                                  *)
(***************************************************************************)

VARIABLES
    cache,         \* the version of the key's entry in this.cache, 0 without one
    early,         \* the client was used before ready() resolved (auxiliary)
    best           \* the newest version the cache has held (auxiliary)

\* Whatever polls, messages, stale reads and refreshes do, a key the cache has is at the
\* newest version it has had, in an application that awaits ready() first; the first load
\* does not take refreshLock, so in another one it may go back.
NeverGoesBack == early \/ cache \in {0, best}

==============================================================================
