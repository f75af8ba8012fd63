----------------------------- MODULE MCHarness -----------------------------
(* One delegated task that may be revised once, or one goal.               *)
EXTENDS WorkerTask, GoalRun

\* Bound: a task that is revised meets neither a crash nor a failed write, its
\* executors are stopped by cancel only, and its first job is over after one start,
\* in which the run executes no tool.
Small ==
    run[2] # NoRun =>
        /\ crashes = 0 /\ faults = 0 /\ job[1].attempts = 1 /\ past[1].ran = {}
        /\ \A j \in JobIds : ex[j].aborted => job[j].status = "cancelled"

\* The whole system: any number of jobs, crashes and failed writes.
Step == HostNext \/ \E j \in JobIds : WorkerStep(j) \/ GoalStep(j)

Next == Step /\ Small'

\* Awaits end, timers fire, a restarted process reconciles.  Nobody has to
\* delegate, revise or cancel, and no signal has to be aborted.
Fairness ==
    /\ WF_hostVars(Reconcile)
    /\ WF_hostVars(CallGoesOn)
    /\ \A j \in JobIds : WF_hostVars(QueueStep(j) \/ WorkerStep(j) \/ GoalStep(j))

Spec == Init /\ [][Next]_hostVars /\ Fairness

OneToTwo == 1..2
Kinds == {"worker", "goal"}

\* Over all starts and processes that work on a run or a goal, the work is bounded
\* by what it was given and what each of them may add (agent-loop.ts:561,
\* goal-runner.ts:14).
WorkIsBounded == IterationsBounded /\ BudgetIsHard

\* No run is left behind: while the process is up, a run that says running and
\* that an executor once took over belongs to this boot and to an executor that
\* is still at work (the comment at agent-loop.ts:549, and step 3 of
\* reconcileOnBoot).
RunIsReleased ==
    mode = "up" /\ faults = 0 => \A j \in JobIds :
        run[j] # NoRun /\ run[j].status = "running"
        => run[j].boot = boot /\ (past[j].owned => Busy(j))

\* Every job that is enqueued comes to an end, whatever its executor, its loop
\* and its callers do.
WorkEnds == \A j \in JobIds : Exists(j) ~> Settled(j)
=============================================================================
