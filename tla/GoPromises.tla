----------------------------- MODULE GoPromises ------------------------------
(***************************************************************************)
(* What the Go SDK promises an application at any time, and the part of    *)
(* its state that the application would notice it by.  GoClient extends    *)
(* this module with the rest; what the client does in the end depends on   *)
(* its fairness and is stated there.                                       *)
(***************************************************************************)
EXTENDS Naturals

VARIABLES
    secrets,       \* the version in c.secrets, 0 for a nil map
    wiped          \* the first Close has returned (auxiliary)

\* The cache never goes back to an earlier version, whoever refreshes it, as two
\* fetches never overlap; only Close empties it.
SecretsNeverGoBack ==
    [][secrets' >= secrets \/ (secrets' = 0 /\ wiped')]_<<secrets, wiped>>

==============================================================================
