------------------------------ MODULE MCLinks ------------------------------
(***************************************************************************)
(* Three parts that share nothing, each explored on its own: scene says    *)
(* which of them moves in a behaviour.  "mcp" is one MCP server with its   *)
(* delegations, idle timer and hot reload; "breaker" a circuit breaker;    *)
(* "pool" a worker pool with one batch of tasks.                           *)
(***************************************************************************)
EXTENDS McpLinks, CircuitBreaker, WorkerPool

VARIABLE scene

vars == <<scene, mcpVars, breakerVars, poolVars>>

Init ==
    /\ McpInit /\ BreakerInit /\ PoolInit
    /\ scene \in {"mcp", "breaker", "pool"}

\* Bound: overlapping reloads are explored without delegations.
Small == "reload" \in upset => \A h \in Holders : At(h, "idle")

Next ==
    /\ UNCHANGED scene
    /\ \/ scene = "mcp" /\ McpNext /\ Small' /\ UNCHANGED <<breakerVars, poolVars>>
       \/ scene = "breaker" /\ BreakerNext /\ UNCHANGED <<mcpVars, poolVars>>
       \/ scene = "pool" /\ PoolNext /\ UNCHANGED <<mcpVars, breakerVars>>

\* A connect or a disconnect comes to an end, timers fire, and a delegation
\* that is connected stores its lease; nothing makes a delegation end.
Fairness ==
    /\ \A a \in Actors : WF_mcpVars(ConnectOk(a) \/ ConnectFails(a))
    /\ WF_mcpVars(Timer)
    /\ \A h \in Holders : WF_mcpVars(StoreLease(h))
    /\ \A s \in Syncs : WF_mcpVars(Scan(s) \/ SyncStep(s))

Spec == Init /\ [][Next]_vars /\ (scene = "mcp" => Fairness)

\* In its scene: once the row is left alone the manager follows it
\* (hot-reload.ts:61), unless reloads overlapped.
ReloadFollowsRow == scene = "mcp" => ReloadConverges
=============================================================================
