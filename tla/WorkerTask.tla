----------------------------- MODULE WorkerTask -----------------------------
(***************************************************************************)
(* workerTaskExecutor (harness/executors.ts) and, inside it, the durable   *)
(* agent loop of agent/agent-loop.ts: restore the checkpoint, reclaim the  *)
(* run, then per iteration call the model, checkpoint the tool calls,      *)
(* execute them, checkpoint their results; in the end close the run, judge *)
(* the delivery and close the task.                                        *)
(*                                                                         *)
(* One step per await that matters: between two of them the process may    *)
(* die, the signal may be aborted, a caller may revise the task.  A round  *)
(* of tool calls is one call, named by the number of the model call that   *)
(* asked for it.  What the model says, the tools do and the checks find    *)
(* is any of the outcomes the code tells apart.                            *)
(***************************************************************************)
EXTENDS HarnessHost

CONSTANT MaxIterations   \* max_iterations of the agent

ASSUME WorkerTaskAssumption == MaxIterations \in Nat \ {0}

Worker(j, at) == At(j, "worker", at)

\* The state a checkpoint serializes.
Progress(j) == [iterations |-> ex[j].iterations, known |-> ex[j].known]

\* A checkpoint that completeRun or failRun clears: whoever starts this run again
\* knows of no tool call and no iteration of it.
Forget(j) ==
    past' = IF run[j].state # NoState /\ run'[j].state = NoState
            THEN [past EXCEPT ![j].ran = {}, ![j].cleared = @ + 1] ELSE past
-----------------------------------------------------------------------------
(* Before the loop *)

\* A missing or disabled worker ends the job before the task is touched.
FindWorker(j) ==
    /\ Worker(j, "start")
    /\ \/ Goto(j, "mark") /\ UNCHANGED past
       \/ Return(j, "fatal") /\ past' = [past EXCEPT ![j].untold = TRUE]
    /\ UNCHANGED <<job, run, task, call, boot, mode, crashes, faults>>

MarkInProgress(j) ==
    /\ Worker(j, "mark")
    /\ TryTask([task EXCEPT !.status = "in_progress", !.job = j])
    /\ Goto(j, "prepare")
    /\ UNCHANGED <<job, run, call, boot, mode, crashes, past>>

\* prepareDelegation throws on a missing skill or MCP server.
Prepare(j) ==
    /\ Worker(j, "prepare")
    /\ Goto(j, "restore") \/ Goto(j, "catch")
    /\ UNCHANGED <<job, run, task, call, boot, mode, crashes, faults, past>>

Restore(j) ==
    /\ Worker(j, "restore")
    /\ \/ /\ ex' = [ex EXCEPT ![j].at = "reclaim",
                              ![j].known = Known(run[j]),
                              ![j].iterations = Iterations(run[j])]
          /\ UNCHANGED faults
       \/ Throws /\ Goto(j, "catch")
    /\ UNCHANGED <<job, run, task, call, boot, mode, crashes, past>>

Reclaim(j) ==
    /\ Worker(j, "reclaim")
    /\ TryRun(j, ReclaimedRun(run[j], boot))
    /\ Goto(j, "loop")
    /\ past' = [past EXCEPT ![j].owned = TRUE]
    /\ UNCHANGED <<job, task, call, boot, mode, crashes>>
-----------------------------------------------------------------------------
(* The loop *)

Iterate(j) ==
    /\ Worker(j, "loop")
    /\ ex[j].iterations < MaxIterations /\ ~ex[j].aborted
    /\ ex' = [ex EXCEPT ![j].at = "model", ![j].iterations = @ + 1]
    /\ past' = [past EXCEPT ![j].llm = @ + 1]
    /\ UNCHANGED <<job, run, task, call, boot, mode, crashes, faults>>

LeaveLoop(j) ==
    /\ Worker(j, "loop")
    /\ \/ ex[j].aborted /\ Goto(j, "last")
       \/ ~ex[j].aborted /\ ex[j].iterations >= MaxIterations /\ Goto(j, "synthesis")
    /\ UNCHANGED <<job, run, task, call, boot, mode, crashes, faults, past>>

\* Tool calls, a final text (or a timeout, or the text of an error), an empty
\* text, or an exception.
Answer(j) ==
    /\ Worker(j, "model")
    /\ \/ ex' = [ex EXCEPT ![j].at = "pre", ![j].calling = past[j].llm]
       \/ Goto(j, "last") \/ Goto(j, "synthesis") \/ Goto(j, "thrown")
    /\ UNCHANGED <<job, run, task, call, boot, mode, crashes, faults, past>>

PreCheckpoint(j) ==
    /\ Worker(j, "pre")
    /\ TryRun(j, Checkpointed(run[j], boot, Progress(j), {ex[j].calling}))
    /\ Goto(j, "tools")
    /\ UNCHANGED <<job, task, call, boot, mode, crashes, past>>

\* The effect of the tool, unless it was refused (unknown, invalid, aborted).
RunTools(j) ==
    /\ Worker(j, "tools")
    /\ \/ past' = [past EXCEPT ![j].ran = @ \cup {ex[j].calling}]
       \/ UNCHANGED past
    /\ Goto(j, "results")
    /\ UNCHANGED <<job, run, task, call, boot, mode, crashes, faults>>

\* The results enter the messages; a repeated call, a stuck or a stalled loop
\* ends it with a text of its own.  Working on a result may throw.
ToolResults(j) ==
    /\ Worker(j, "results")
    /\ \/ \E at \in {"post", "last"} :
             ex' = [ex EXCEPT ![j].at = at, ![j].calling = 0,
                              ![j].known = @ \cup {ex[j].calling}]
       \/ Goto(j, "thrown")
    /\ UNCHANGED <<job, run, task, call, boot, mode, crashes, faults, past>>

\* The token budget may end the loop without a text.
PostCheckpoint(j) ==
    /\ Worker(j, "post")
    /\ TryRun(j, Checkpointed(run[j], boot, Progress(j), {}))
    /\ Goto(j, "loop") \/ Goto(j, "synthesis")
    /\ UNCHANGED <<job, task, call, boot, mode, crashes, past>>

Synthesize(j) ==
    /\ Worker(j, "synthesis")
    /\ Goto(j, "last") \/ Goto(j, "thrown")
    /\ UNCHANGED <<job, run, task, call, boot, mode, crashes, faults, past>>
-----------------------------------------------------------------------------
(* The end of the run *)

LastCheckpoint(j) ==
    /\ Worker(j, "last")
    /\ TryRun(j, Checkpointed(run[j], boot, Progress(j), {}))
    /\ Goto(j, "close")
    /\ UNCHANGED <<job, task, call, boot, mode, crashes, past>>

\* The signal decides before the outcome does.
Ending(j, ended) == IF ex[j].aborted THEN InterruptedRun(run[j]) ELSE ended

Close(j) ==
    /\ Worker(j, "close")
    /\ TryRun(j, Ending(j, CompletedRun(run[j])))
    /\ Forget(j)
    /\ Goto(j, "finally")
    /\ UNCHANGED <<job, task, call, boot, mode, crashes>>

Thrown(j) ==
    /\ Worker(j, "thrown")
    /\ TryRun(j, Ending(j, FailedRun(run[j])))
    /\ Forget(j)
    /\ ex' = [ex EXCEPT ![j].at = "finally", ![j].threw = TRUE]
    /\ UNCHANGED <<job, task, call, boot, mode, crashes>>

\* A run still running is interrupted, whoever left it so.
Finally(j) ==
    /\ Worker(j, "finally")
    /\ IF run[j].status = "running" THEN TryRun(j, InterruptedRun(run[j]))
                                    ELSE UNCHANGED <<run, faults>>
    /\ Goto(j, IF ex[j].threw THEN "catch" ELSE "judge")
    /\ UNCHANGED <<job, task, call, boot, mode, crashes, past>>
-----------------------------------------------------------------------------
(* The end of the task *)

Aborted(j) ==
    /\ Worker(j, "judge") /\ ex[j].aborted
    /\ TryTask([task EXCEPT !.status = "pending"])
    /\ Return(j, "fatal")
    /\ UNCHANGED <<job, run, call, boot, mode, crashes, past>>

\* runAcceptanceChecks: failed, or passed and unchecked alike; the row of the
\* run and the record of the agent are awaited on the way.
Judge(j) ==
    /\ Worker(j, "judge") /\ ~ex[j].aborted
    /\ \/ TryTask([task EXCEPT !.status = "blocked"]) /\ Return(j, "fatal")
       \/ UNCHANGED <<task, faults>> /\ Goto(j, "accept")
       \/ Throws /\ Goto(j, "catch") /\ UNCHANGED task
    /\ UNCHANGED <<job, run, call, boot, mode, crashes, past>>

Accept(j) ==
    /\ Worker(j, "accept")
    /\ TryTask([task EXCEPT !.status = "completed"])
    /\ Goto(j, "proof")
    /\ UNCHANGED <<job, run, call, boot, mode, crashes, past>>

BuildProof(j) ==
    /\ Worker(j, "proof")
    /\ \/ Return(j, "ok") /\ UNCHANGED faults
       \/ Throws /\ Goto(j, "catch")
    /\ UNCHANGED <<job, run, task, call, boot, mode, crashes, past>>

\* isRetryableError reads the text of the error.
Catch(j) ==
    /\ Worker(j, "catch")
    /\ TryTask([task EXCEPT !.status = "failed"])
    /\ Return(j, "retry") \/ Return(j, "fatal")
    /\ UNCHANGED <<job, run, call, boot, mode, crashes, past>>
-----------------------------------------------------------------------------
LoopStep(j) ==
    \/ Iterate(j) \/ LeaveLoop(j) \/ Answer(j) \/ PreCheckpoint(j) \/ RunTools(j)
    \/ ToolResults(j) \/ PostCheckpoint(j) \/ Synthesize(j)
EndStep(j) == LastCheckpoint(j) \/ Close(j) \/ Thrown(j) \/ Finally(j)
TaskStep(j) ==
    \/ FindWorker(j) \/ MarkInProgress(j) \/ Prepare(j) \/ Restore(j) \/ Reclaim(j)
    \/ Aborted(j) \/ Judge(j) \/ Accept(j) \/ BuildProof(j) \/ Catch(j)

WorkerStep(j) == TaskStep(j) \/ LoopStep(j) \/ EndStep(j)
-----------------------------------------------------------------------------
(* Properties *)

InLoop(j) ==
    ex[j].at \in {"loop", "model", "pre", "tools", "results", "post", "synthesis", "last"}

\* Whatever crashes and aborts came before, an agent at work knows of every tool
\* call that was executed for its run since the checkpoint was last cleared: its
\* messages hold the result or the mark [interrupted], so no call runs again behind
\* the back of the model (the comment at agent-loop.ts:732).  It says nothing of the
\* calls of a start that ended in failRun: the retry knows none of them.
KnowsWhatRan ==
    faults = 0 => \A j \in JobIds :
        InLoop(j) => past[j].ran \subseteq ex[j].known \cup {ex[j].calling}

\* What an earlier start of the job may add to the model calls of its run: the one
\* call that a crash, an abort or an exception kept from its checkpoint, or all of
\* max_iterations if failRun or completeRun cleared the checkpoint, with which the
\* retry starts to count anew.  A crash alone does not renew the budget.
IterationsBounded ==
    \A j \in JobIds :
        past[j].llm > 0 =>
            past[j].llm <= MaxIterations * (past[j].cleared + 1)
                           + (job[j].attempts - 1 - past[j].cleared) + faults

\* When the job of a task has ended and its executor is gone, the task is no
\* longer in progress, and it is completed if the job is; also after a restart,
\* which repairs jobs before it looks at tasks.  The ways in which the task may
\* miss it are those HarnessHost names.
TaskTellsOutcome ==
    LET j == task.job IN
    /\ mode = "up" /\ faults = 0 /\ j # 0 /\ Settled(j) /\ ~past[j].untold
    /\ call.at = "idle" /\ \A i \in JobIds : ~Busy(i)
    => /\ task.status # "in_progress"
       /\ job[j].status = "completed" => task.status = "completed"
=============================================================================
