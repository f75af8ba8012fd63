------------------------------ MODULE GoalRun ------------------------------
(***************************************************************************)
(* goalRunExecutor (harness/executors.ts): turns of the agent against a    *)
(* goal until a verifier accepts it or the budget is used up.  The run row *)
(* carries the counters from one process to the next.                      *)
(*                                                                         *)
(* A turn (runAgent without a run of its own) is one await: it ends, or it *)
(* throws.  The verdict is any of those verifyGoal can return.             *)
(***************************************************************************)
EXTENDS HarnessHost

CONSTANTS
    MaxTurns,         \* budget.maxTurns (10 by default)
    MaxGoalAttempts   \* maxAttempts of the payload (5 by default)

ASSUME GoalRunAssumption == {MaxTurns, MaxGoalAttempts} \subseteq Nat \ {0}

Goal(j, at) == At(j, "goal", at)

Begin(j) ==
    /\ Goal(j, "start")
    /\ ex' = [ex EXCEPT ![j].at = "reclaim", ![j].attempts = run[j].goal_attempts]
    /\ UNCHANGED <<job, run, task, call, boot, mode, crashes, faults, past>>

ReclaimGoal(j) ==
    /\ Goal(j, "reclaim")
    /\ TryRun(j, ReclaimedRun(run[j], boot))
    /\ Goto(j, "check")
    /\ past' = [past EXCEPT ![j].owned = TRUE]
    /\ UNCHANGED <<job, task, call, boot, mode, crashes>>

GoalAborted(j) ==
    /\ Goal(j, "check") /\ ex[j].aborted
    /\ TryRun(j, InterruptedRun(run[j]))
    /\ Return(j, "fatal")
    /\ UNCHANGED <<job, task, call, boot, mode, crashes, past>>

Spent(j) == ex[j].attempts >= MaxGoalAttempts \/ run[j].turns >= MaxTurns

\* failRun is not caught here; the proof packet of a missed goal is.
GiveUp(j) ==
    /\ Goal(j, "check") /\ ~ex[j].aborted /\ Spent(j)
    /\ \/ /\ run' = [run EXCEPT ![j] = FailedRun(@)]
          /\ Return(j, "fatal")
          /\ UNCHANGED faults
       \/ Throws /\ Goto(j, "catch") /\ UNCHANGED run
    /\ UNCHANGED <<job, task, call, boot, mode, crashes, past>>

BeginTurn(j) ==
    /\ Goal(j, "check") /\ ~ex[j].aborted /\ ~Spent(j)
    /\ past' = [past EXCEPT ![j].turns = @ + 1]
    /\ Goto(j, "turn")
    /\ UNCHANGED <<job, run, task, call, boot, mode, crashes, faults>>

EndTurn(j) ==
    /\ Goal(j, "turn")
    /\ \/ ex' = [ex EXCEPT ![j].at = "bump", ![j].attempts = @ + 1]
       \/ Goto(j, "catch")
    /\ UNCHANGED <<job, run, task, call, boot, mode, crashes, faults, past>>

BumpTurn(j) ==
    /\ Goal(j, "bump")
    /\ TryRun(j, Bumped(run[j]))
    /\ Goto(j, "count")
    /\ UNCHANGED <<job, task, call, boot, mode, crashes, past>>

CountAttempt(j) ==
    /\ Goal(j, "count")
    /\ TryRun(j, [run[j] EXCEPT !.goal_attempts = ex[j].attempts])
    /\ Goto(j, "verify")
    /\ UNCHANGED <<job, task, call, boot, mode, crashes, past>>

\* Resolving the provider may throw; verifyGoal itself never does.
Verify(j) ==
    /\ Goal(j, "verify")
    /\ Goto(j, "met") \/ Goto(j, "check") \/ Goto(j, "catch")
    /\ UNCHANGED <<job, run, task, call, boot, mode, crashes, faults, past>>

CompleteGoal(j) ==
    /\ Goal(j, "met")
    /\ \/ /\ run' = [run EXCEPT ![j] = CompletedRun(@)]
          /\ Goto(j, "proof")
          /\ UNCHANGED faults
       \/ Throws /\ Goto(j, "catch") /\ UNCHANGED run
    /\ UNCHANGED <<job, task, call, boot, mode, crashes, past>>

\* The proof packet of a goal that was met is not caught.
ProveGoal(j) ==
    /\ Goal(j, "proof")
    /\ \/ Return(j, "ok") /\ UNCHANGED faults
       \/ Throws /\ Goto(j, "catch")
    /\ UNCHANGED <<job, run, task, call, boot, mode, crashes, past>>

CatchGoal(j) ==
    /\ Goal(j, "catch")
    /\ TryRun(j, FailedRun(run[j]))
    /\ Return(j, "retry") \/ Return(j, "fatal")
    /\ UNCHANGED <<job, task, call, boot, mode, crashes, past>>
-----------------------------------------------------------------------------
GoalStep(j) ==
    \/ Begin(j) \/ ReclaimGoal(j) \/ GoalAborted(j) \/ GiveUp(j) \/ BeginTurn(j)
    \/ EndTurn(j) \/ BumpTurn(j) \/ CountAttempt(j) \/ Verify(j) \/ CompleteGoal(j)
    \/ ProveGoal(j) \/ CatchGoal(j)
-----------------------------------------------------------------------------
(* Properties *)

\* "The budget is HARD" (goal-runner.ts:14): over all processes that work on a
\* goal, the turns begun exceed the budget by at most one for each earlier start
\* of the job, whose last turn a crash or an exception kept from being counted.
BudgetIsHard ==
    \A j \in JobIds :
        Exists(j) /\ job[j].info = "goal" /\ past[j].turns > 0
        => past[j].turns <= MaxGoalAttempts + faults + (job[j].attempts - 1)
           /\ past[j].turns <= MaxTurns + faults + (job[j].attempts - 1)
=============================================================================
