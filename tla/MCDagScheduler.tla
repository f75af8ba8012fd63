--------------------------- MODULE MCDagScheduler ---------------------------
(* Three roots compete for two slots; a join and a node behind it and a root. *)
EXTENDS DagScheduler, TLC

CONSTANTS r1, r2, r3, join, last
AllNodes == {r1, r2, r3, join, last}
Graph == (r1 :> {}) @@ (r2 :> {}) @@ (r3 :> {}) @@ (join :> {r1, r2}) @@ (last :> {join, r3})
Retries == (r1 :> 1) @@ (r2 :> 0) @@ (r3 :> 0) @@ (join :> 1) @@ (last :> 0)

\* Two independent tasks and one slot, for the agents that outlive their attempt.
PairNodes == {r1, r2}
PairGraph == (r1 :> {}) @@ (r2 :> {})
PairRetries == (r1 :> 1) @@ (r2 :> 0)
=============================================================================
