---------------------------- MODULE DagScheduler ----------------------------
(***************************************************************************)
(* swarm/Coordinator.ts, TaskGraph.ts and AgentExecutor.ts: one execution  *)
(* of a graph of tasks with at most Max of them in flight.                 *)
(*                                                                         *)
(* The code between two awaits is one step: what happens when an attempt   *)
(* settles (its then or catch callback), the finally callback that frees   *)
(* its slot and drains the queue, and the loop of execute() that wakes     *)
(* once a promise it raced has settled.  Callbacks of different attempts   *)
(* interleave freely.  The timeout of AgentExecutor rejects an attempt but *)
(* does not stop the agent behind it, so agents outlive attempts.          *)
(*                                                                         *)
(* strategy.pick is an interface with a FIFO and a priority implementation *)
(* (and any the application writes): here it may pick any queued node.     *)
(***************************************************************************)
EXTENDS Naturals, FiniteSets

CONSTANTS
    Nodes,       \* the tasks of the graph
    Deps,        \* Deps[n]: the tasks n depends on
    MaxRetries,  \* MaxRetries[n]: how often n is tried again
    Max          \* maxConcurrentWorkers

\* validateNoCycles: every set of nodes has one with no dependency in the set.
ASSUME DagAssumption ==
    /\ IsFiniteSet(Nodes)
    /\ Deps \in [Nodes -> SUBSET Nodes]
    /\ \A S \in SUBSET Nodes : S # {} => \E n \in S : Deps[n] \cap S = {}
    /\ MaxRetries \in [Nodes -> Nat]
    /\ Max \in Nat \ {0}

VARIABLES
    status,      \* node.status
    retryCount,  \* node.retryCount
    error,       \* node.error: "none", its "own", or that of a "dependency"
    queued,      \* queued[n]: how many times n is in readyQueue
    running,     \* the promises of running: attempts whose finally is due
    live,        \* those of them that have not settled yet
    agents,      \* attempts whose agent is at work, its promise settled or not
    aborted,     \* scheduler.aborted
    pc,          \* execute(): "idle", "waiting" at the race, "returned"
    raced,       \* the promises execute() is waiting on
    report       \* the nodes execute() returned as completed

vars == <<status, retryCount, error, queued, running, live, agents, aborted,
          pc, raced, report>>

Statuses == {"PENDING", "READY", "RUNNING", "COMPLETED", "FAILED"}
Terminal == {"COMPLETED", "FAILED"}
Attempts == Nodes \X Nat
Completed(st) == {n \in Nodes : st[n] = "COMPLETED"}
Waiting(q) == {n \in Nodes : q[n] > 0}
-----------------------------------------------------------------------------
\* Mutant of canStart: one completed dependency is enough.
canStart_any(n, done) == Deps[n] = {} \/ Deps[n] \cap done # {}

canStart(n, done) == Deps[n] \subseteq done

\* Mutant of NewlyReady: a node that already started is found again.
NewlyReady_again(st) == {n \in Nodes : st[n] \in {"PENDING", "RUNNING"} /\ Deps[n] # {}
                                       /\ canStart(n, Completed(st))}

NewlyReady(st) == {n \in Nodes : st[n] = "PENDING" /\ canStart(n, Completed(st))}

\* propagateFailure: the nodes not yet started that depend on id, directly or
\* through one another.
Doomed(id, st) ==
    LET Closed(F) == \A n \in Nodes :
            st[n] \in {"PENDING", "READY"} /\ Deps[n] \cap F # {} => n \in F
    IN {n \in Nodes \ {id} : \A F \in SUBSET Nodes : id \in F /\ Closed(F) => n \in F}

\* Mutant of Picks: abort() is not looked at.
Picks_afterAbort(q, run, stop) ==
    LET free == Max - Cardinality(run)
    IN {S \in SUBSET Waiting(q) :
            Cardinality(S) = IF Cardinality(Waiting(q)) < free
                             THEN Cardinality(Waiting(q)) ELSE free}

\* What drain() may pick: as many queued nodes as there are free slots.
Picks(q, run, stop) ==
    LET free == Max - Cardinality(run)
        some == IF Cardinality(Waiting(q)) < free THEN Cardinality(Waiting(q)) ELSE free
    IN {S \in SUBSET Waiting(q) : Cardinality(S) = IF stop THEN 0 ELSE some}

\* drain(): launchNode for each picked node, given the state drain() finds.
Drain(st, q, run, stop) ==
    \E picked \in Picks(q, run, stop) :
        LET new == {<<n, retryCount[n]>> : n \in picked} IN
        /\ status' = [n \in Nodes |-> IF n \in picked THEN "RUNNING" ELSE st[n]]
        /\ queued' = [n \in Nodes |-> IF n \in picked THEN q[n] - 1 ELSE q[n]]
        /\ running' = run \cup new
        /\ live' = live \cup new
        /\ agents' = agents \cup new

\* The loop of execute(), after a drain: return, or race what is running.
\* With Max > 0 a queued node implies a running one, so that the branch that
\* naps for 10 ms is never taken.
Loop ==
    IF \/ \A n \in Nodes : status'[n] \in Terminal
       \/ aborted'
       \/ running' = {} /\ \A n \in Nodes : queued'[n] = 0
    THEN pc' = "returned" /\ raced' = {} /\ report' = Completed(status')
    ELSE pc' = "waiting" /\ raced' = running' /\ UNCHANGED report
-----------------------------------------------------------------------------
\* An earlier execution may have been aborted.
Init ==
    /\ status = [n \in Nodes |-> "PENDING"]
    /\ retryCount = [n \in Nodes |-> 0]
    /\ error = [n \in Nodes |-> "none"]
    /\ queued = [n \in Nodes |-> 0]
    /\ running = {} /\ live = {} /\ agents = {} /\ raced = {} /\ report = {}
    /\ aborted \in BOOLEAN
    /\ pc = "idle"

\* execute(): seed the queue with the nodes that depend on nothing.
Execute ==
    /\ pc = "idle"
    /\ aborted' = FALSE
    /\ LET roots == {n \in Nodes : Deps[n] = {}} IN
       Drain([n \in Nodes |-> IF n \in roots THEN "READY" ELSE status[n]],
             [n \in Nodes |-> IF n \in roots THEN 1 ELSE 0], {}, FALSE)
    /\ Loop
    /\ UNCHANGED <<retryCount, error>>

\* The then callback of an attempt: unlock the nodes that waited for this one.
Answer(p) ==
    /\ p \in live
    /\ live' = live \ {p}
    /\ agents' = agents \ {p}
    /\ LET done == [status EXCEPT ![p[1]] = "COMPLETED"]
           ready == NewlyReady(done) IN
       /\ status' = [n \in Nodes |-> IF n \in ready THEN "READY" ELSE done[n]]
       /\ queued' = [n \in Nodes |-> IF n \in ready THEN queued[n] + 1 ELSE queued[n]]
    /\ UNCHANGED <<retryCount, error, running, aborted, pc, raced, report>>

\* Mutant of canRetry: one retry too many.
canRetry_oneMore(n) == retryCount[n] <= MaxRetries[n]

canRetry(n) == retryCount[n] < MaxRetries[n]

\* The catch callback, while the node may be tried again.
Retry(n) ==
    /\ canRetry(n)
    /\ retryCount' = [retryCount EXCEPT ![n] = @ + 1]
    /\ status' = [status EXCEPT ![n] = "READY"]
    /\ queued' = [queued EXCEPT ![n] = @ + 1]
    /\ UNCHANGED error

\* The catch callback otherwise: nothing that depends on the node will run.
FailForGood(n) ==
    /\ ~canRetry(n)
    /\ LET failed == [status EXCEPT ![n] = "FAILED"]
           doomed == Doomed(n, failed) IN
       /\ status' = [m \in Nodes |-> IF m \in doomed THEN "FAILED" ELSE failed[m]]
       /\ error' = [m \in Nodes |-> IF m = n THEN "own"
                                    ELSE IF m \in doomed THEN "dependency" ELSE error[m]]
    /\ UNCHANGED <<retryCount, queued>>

Fails(p) ==
    /\ p \in live
    /\ live' = live \ {p}
    /\ Retry(p[1]) \/ FailForGood(p[1])
    /\ UNCHANGED <<running, aborted, pc, raced, report>>

\* The agent throws.
Throws(p) == Fails(p) /\ agents' = agents \ {p}

\* Mutant of Expire: only the first attempt gets a timer.
Expire_firstOnly(p) == p[2] = 0 /\ Fails(p) /\ UNCHANGED agents

\* The timeout wins the race; the agent works on.
Expire(p) == Fails(p) /\ UNCHANGED agents

\* An agent ends whose attempt has timed out: nobody listens.
EndsUnheard(p) ==
    /\ p \in agents \ live
    /\ agents' = agents \ {p}
    /\ UNCHANGED <<status, retryCount, error, queued, running, live, aborted, pc, raced, report>>

\* The finally callback of an attempt.
Release(p) ==
    /\ p \in running \ live
    /\ Drain(status, queued, running \ {p}, aborted)
    /\ UNCHANGED <<retryCount, error, aborted, pc, raced, report>>

\* The race is over: execute() goes on.
Wake ==
    /\ pc = "waiting"
    /\ raced \ running # {}
    /\ UNCHANGED <<retryCount, error, aborted>>
    /\ Drain(status, queued, running, aborted)
    /\ Loop

\* abort()
Abort ==
    /\ pc = "waiting" /\ ~aborted
    /\ aborted' = TRUE
    /\ UNCHANGED <<status, retryCount, error, queued, running, live, agents, pc, raced, report>>

Next ==
    \/ Execute \/ Wake \/ Abort
    \/ \E p \in live : Answer(p) \/ Throws(p) \/ Expire(p)
    \/ \E p \in agents : EndsUnheard(p)
    \/ \E p \in running : Release(p)

Spec == Init /\ [][Next]_vars
-----------------------------------------------------------------------------
TypeOK ==
    /\ status \in [Nodes -> Statuses]
    /\ retryCount \in [Nodes -> Nat]
    /\ error \in [Nodes -> {"none", "own", "dependency"}]
    /\ queued \in [Nodes -> Nat]
    /\ live \subseteq running /\ live \subseteq agents
    /\ agents \subseteq Attempts /\ running \subseteq Attempts
    /\ aborted \in BOOLEAN
    /\ pc \in {"idle", "waiting", "returned"}
    /\ raced \subseteq Attempts
    /\ report \subseteq Nodes

\* No node is queued, runs or has run before all it depends on has completed,
\* whatever fails, times out and is tried again.
DepsFirst ==
    \A n \in Nodes : status[n] \in {"READY", "RUNNING", "COMPLETED"} =>
        Deps[n] \subseteq Completed(status)

\* drain() never exceeds maxConcurrentWorkers, whichever callback calls it.
WorkerBound == Cardinality(running) <= Max

\* Exactly the RUNNING nodes have an unsettled attempt, their latest one.
RunningIsLive ==
    /\ \A n \in Nodes : status[n] = "RUNNING" => <<n, retryCount[n]>> \in live
    /\ \A p \in live : status[p[1]] = "RUNNING" /\ p[2] = retryCount[p[1]]

\* Exactly the READY nodes are queued, once.
QueueIsReady ==
    \A n \in Nodes : queued[n] = IF status[n] = "READY" THEN 1 ELSE 0

\* No node is left READY or RUNNING with nobody to launch or to settle it, and
\* none is launched twice, although every finally callback drains the queue and
\* a retry is queued before its last attempt has left running.
NodesAccounted == RunningIsLive /\ QueueIsReady

\* A node fails only on its own last retry or with something it depends on,
\* and with what it depends on it always does.
FailureIsExplained ==
    \A n \in Nodes :
        /\ error[n] = "own" => retryCount[n] = MaxRetries[n]
        /\ (error[n] = "dependency") <=> \E d \in Deps[n] : status[d] = "FAILED"
        /\ (status[n] = "FAILED") <=> (error[n] # "none")

\* execute() returns only when every node has ended, and what it returns stays
\* true: the guard against a deadlock gives up on nothing.
ReportIsFinal ==
    pc = "returned" /\ ~aborted =>
        /\ \A n \in Nodes : status[n] \in Terminal
        /\ report = Completed(status)

\* After abort() no further agent is started, by no callback.
AbortStops == [][aborted /\ pc # "idle" => agents' \subseteq agents]_vars

\* Nodes, promises and the ready queue stay in step and within the bound, however
\* the finally callbacks interleave (Coordinator.ts:139).
SchedulerSound == TypeOK /\ WorkerBound /\ NodesAccounted

\* What execute() reports and what abort() stops is final (Coordinator.ts:98, :161).
EndIsFinal == []ReportIsFinal /\ AbortStops

\* Timers fire, callbacks and the woken loop run.
Fairness ==
    /\ \A n \in Nodes : \A k \in 0..MaxRetries[n] :
           WF_vars(Expire(<<n, k>>)) /\ WF_vars(Release(<<n, k>>))
    /\ WF_vars(Wake)

FairSpec == Spec /\ Fairness

\* execute() returns, even if every agent hangs.
ExecuteReturns == pc = "waiting" ~> pc = "returned"

\* swarm/Coordinator.ts:6 launches the nodes "concurrently via AgentExecutor
\* (respecting maxConcurrentWorkers)": at most Max agents are at work.  The
\* agent of an attempt that timed out still is.
AgentsBounded == Cardinality(agents) <= Max
=============================================================================
