---------------------------- MODULE HarnessHost ----------------------------
(***************************************************************************)
(* What surrounds the two executors of harness/executors.ts: the callers   *)
(* that create a run and enqueue its job (task_delegate, task_revise,      *)
(* runGoal), the job as the durable queue hands it out and settles it,     *)
(* cancellation, a crash of the process and the steps of reconcileOnBoot   *)
(* that repair runs, jobs and tasks.                                       *)
(*                                                                         *)
(* The job is the row of JobDoc; DurableQueue checks how the queue drives  *)
(* it, so here a job has one executor at a time.  A revision is a second   *)
(* job, which may start while the executor of the first is still ending:   *)
(* claimJob looks at the row, not at the lane.                             *)
(***************************************************************************)
EXTENDS JobDoc, AgentRunDoc, FiniteSets

CONSTANTS
    MaxTaskRevisions,  \* MAX_TASK_REVISIONS (2 in the code)
    MaxCrashes,        \* bound: crashes of the process
    MaxFaults          \* bound: writes that throw (contention, storage)

ASSUME HarnessHostAssumption ==
    /\ 1 \in JobIds /\ JobIds = 1..Cardinality(JobIds)
    /\ Boots = 1..(MaxCrashes + 1)
    /\ Infos = {"worker", "goal"}
    /\ {MaxTaskRevisions, MaxCrashes, MaxFaults} \subseteq Nat
    /\ NoRun \notin Runs /\ NoState \notin Checkpoints

VARIABLES
    job,      \* job[j]: the jobQueue row; run[j] is the run it carries
    run,      \* run[j]: the agentRuns row
    task,     \* the tasks row the worker jobs belong to
    ex,       \* ex[j]: the executor call of job j
    call,     \* the task_delegate, task_revise or runGoal call in progress
    boot,     \* boot_id of the process
    mode,     \* the step of reconcileOnBoot that is next, then "up"
    crashes, faults,
    past      \* past[j]: what really happened to run j (history)

hostVars == <<job, run, task, ex, call, boot, mode, crashes, faults, past>>

NoTask == [status |-> "none", job |-> 0, attempts |-> 0, thread |-> FALSE]
NoCall == [at |-> "idle", job |-> 0, kind |-> "worker", revises |-> FALSE, attempts |-> 0]
Idle == [at |-> "idle", iterations |-> 0, known |-> {}, calling |-> 0, threw |-> FALSE,
         attempts |-> 0, aborted |-> FALSE, result |-> "none"]

\* cleared: how often completeRun or failRun emptied the checkpoint of the run;
\* ran: tool calls executed since the last time; llm: model calls, turns: turns
\* begun, all of them; owned: an executor reclaimed the run;
\* untold: the task may not tell how the job ended, because the job was cancelled
\* while it waited, its worker was missing or disabled when it started, another
\* job of the task, or its executor, was still live beside it, or task_revise
\* wrote the task after the job had been claimed.
NoPast == [ran |-> {}, llm |-> 0, cleared |-> 0, turns |-> 0, owned |-> FALSE,
           untold |-> FALSE]

Exists(j) == job[j] # NoJob
Busy(j) == ex[j].at # "idle"
At(j, kind, at) == Exists(j) /\ job[j].info = kind /\ ex[j].at = at
Settled(j) == Exists(j) /\ job[j].status \in Terminal

Init ==
    /\ job = [j \in JobIds |-> NoJob]
    /\ run = [j \in JobIds |-> NoRun]
    /\ task = NoTask
    /\ ex = [j \in JobIds |-> Idle]
    /\ call = NoCall
    /\ boot = 1
    /\ mode = "up"
    /\ crashes = 0
    /\ faults = 0
    /\ past = [j \in JobIds |-> NoPast]
-----------------------------------------------------------------------------
(* Writes.  updateDoc reads, merges and puts; it throws when it lost        *)
(* MAX_RETRIES races, or when the storage does.                            *)

Throws == faults < MaxFaults /\ faults' = faults + 1

\* A write whose caller goes on either way (`.catch(() => {})`).
TryRun(j, row) ==
    \/ run' = [run EXCEPT ![j] = row] /\ UNCHANGED faults
    \/ Throws /\ UNCHANGED run
TryTask(row) ==
    \/ task' = row /\ UNCHANGED faults
    \/ Throws /\ UNCHANGED task

Goto(j, at) == ex' = [ex EXCEPT ![j].at = at]
Return(j, result) == ex' = [ex EXCEPT ![j] = [Idle EXCEPT !.at = "settle", !.result = result]]
-----------------------------------------------------------------------------
(* Callers *)

\* task_delegate (mode "async") puts the task first.
Delegate ==
    /\ mode = "up" /\ call.at = "idle" /\ task.status = "none" /\ ~Exists(1)
    /\ task' = [NoTask EXCEPT !.status = "pending"]
    /\ call' = [NoCall EXCEPT !.at = "run", !.job = 1]
    /\ UNCHANGED <<job, run, ex, boot, mode, crashes, faults, past>>

\* runGoal
StartGoal ==
    /\ mode = "up" /\ call.at = "idle" /\ task.status = "none" /\ ~Exists(1)
    /\ run[1] = NoRun
    /\ call' = [NoCall EXCEPT !.at = "run", !.job = 1, !.kind = "goal"]
    /\ UNCHANGED <<job, run, task, ex, boot, mode, crashes, faults, past>>

\* task_revise: attempts is the value read here.
Revise ==
    /\ mode = "up" /\ call.at = "idle"
    /\ task.status \in {"completed", "blocked"}
    /\ task.attempts < MaxTaskRevisions /\ task.thread
    /\ \E j \in JobIds :
          /\ ~Exists(j) /\ run[j] = NoRun
          /\ \A i \in 1..(j - 1) : run[i] # NoRun
          /\ call' = [NoCall EXCEPT !.at = "run", !.job = j, !.revises = TRUE,
                                    !.attempts = task.attempts]
    /\ UNCHANGED <<job, run, task, ex, boot, mode, crashes, faults, past>>

CreateRun ==
    /\ call.at = "run"
    /\ \/ /\ run' = [run EXCEPT ![call.job] = NewRun(boot)]
          /\ call' = [call EXCEPT !.at = "enqueue"]
          /\ UNCHANGED faults
       \/ Throws /\ call' = NoCall /\ UNCHANGED run
    /\ UNCHANGED <<job, task, ex, boot, mode, crashes, past>>

\* enqueue resolves when the job is in the table; a dispatch is scheduled.
Enqueue ==
    /\ call.at = "enqueue"
    /\ job' = [job EXCEPT ![call.job] = NewDoc(call.kind, TRUE)]
    /\ call' = IF call.kind = "goal" THEN NoCall ELSE [call EXCEPT !.at = "link"]
    /\ UNCHANGED <<run, task, ex, boot, mode, crashes, faults, past>>

\* The task learns of its job after the job may have been claimed.
Linked ==
    IF call.revises
    THEN [task EXCEPT !.status = "pending", !.job = call.job, !.attempts = call.attempts + 1]
    ELSE [task EXCEPT !.job = call.job, !.thread = TRUE]
Link ==
    /\ call.at = "link"
    /\ TryTask(Linked)
    /\ past' = [past EXCEPT ![call.job].untold = @ \/ (call.revises /\ job[call.job].attempts > 0)]
    /\ call' = NoCall
    /\ UNCHANGED <<job, run, ex, boot, mode, crashes>>
-----------------------------------------------------------------------------
(* The queue *)

\* Mutant of BecomeDue: the tick overlooks jobs that wait out a backoff.
BecomeDue_first(j) ==
    /\ Exists(j) /\ job[j].status = "pending" /\ ~job[j].due /\ job[j].retry = 0
    /\ job' = [job EXCEPT ![j].due = TRUE]
    /\ UNCHANGED <<run, task, ex, call, boot, mode, crashes, faults, past>>

\* The maintenance tick dispatches a retry whose not_before has passed.
BecomeDue(j) ==
    /\ Exists(j) /\ job[j].status = "pending" /\ ~job[j].due
    /\ job' = [job EXCEPT ![j].due = TRUE]
    /\ UNCHANGED <<run, task, ex, call, boot, mode, crashes, faults, past>>

\* dispatchLane: the claim, and executeJob up to the call of the executor.
Start(j) ==
    /\ mode = "up" /\ Exists(j) /\ Claimable(job[j]) /\ ~Busy(j)
    /\ job' = [job EXCEPT ![j] = Claimed(@, boot)]
    /\ ex' = [ex EXCEPT ![j] = [Idle EXCEPT !.at = "start"]]
    /\ past' = IF \A i \in JobIds \ {j} : Exists(i) => Settled(i) /\ ~Busy(i) THEN past
               ELSE [i \in JobIds |-> [past[i] EXCEPT !.untold = TRUE]]
    /\ UNCHANGED <<run, task, call, boot, mode, crashes, faults>>

\* executeJob after the executor returned.
Settle(j) ==
    /\ ex[j].at = "settle"
    /\ job' = IF ~Owned(job[j], boot) THEN job
              ELSE [job EXCEPT ![j] = CASE ex[j].result = "ok" -> Completed(@)
                                        [] ex[j].result = "retry" -> FailedOrRetried(@)
                                        [] ex[j].result = "fatal" -> Failed(@)]
    /\ ex' = [ex EXCEPT ![j] = Idle]
    /\ UNCHANGED <<run, task, call, boot, mode, crashes, faults, past>>

\* The taskTimeoutMs of executeJob.
TimeOut(j) ==
    /\ Busy(j) /\ ex[j].at # "settle" /\ ~ex[j].aborted
    /\ ex' = [ex EXCEPT ![j].aborted = TRUE]
    /\ UNCHANGED <<job, run, task, call, boot, mode, crashes, faults, past>>

\* cancel: the signal, and the row.
Cancel(j) ==
    /\ mode = "up" /\ Exists(j) /\ Cancellable(job[j])
    /\ job' = [job EXCEPT ![j] = Cancelled(@)]
    /\ ex' = IF Busy(j) /\ ex[j].at # "settle" THEN [ex EXCEPT ![j].aborted = TRUE] ELSE ex
    /\ past' = IF Busy(j) THEN past ELSE [past EXCEPT ![j].untold = TRUE]
    /\ UNCHANGED <<run, task, call, boot, mode, crashes, faults>>
-----------------------------------------------------------------------------
(* Crash and reconcileOnBoot *)

Crash ==
    /\ crashes < MaxCrashes
    /\ crashes' = crashes + 1
    /\ boot' = boot + 1
    /\ mode' = "runs"
    /\ ex' = [j \in JobIds |-> Idle]
    /\ call' = NoCall
    /\ UNCHANGED <<job, run, task, faults, past>>

\* Mutant of Orphan: the filter on boot_id is inverted.
Orphan_own(row) == row.status = "running" /\ row.boot = boot

\* A row is orphaned if it runs and belongs to another boot.
Orphan(row) == row.status = "running" /\ row.boot # boot

\* Step 3
ReconcileRuns ==
    /\ mode = "runs"
    /\ run' = [j \in JobIds |-> IF run[j] # NoRun /\ Orphan(run[j])
                                THEN InterruptedRun(run[j]) ELSE run[j]]
    /\ mode' = "jobs"
    /\ UNCHANGED <<job, task, ex, call, boot, crashes, faults, past>>

\* Step 4
ReconcileJobs ==
    /\ mode = "jobs"
    /\ job' = [j \in JobIds |-> IF Exists(j) /\ Orphan(job[j])
                                THEN Reclaimed(job[j]) ELSE job[j]]
    /\ mode' = "tasks"
    /\ UNCHANGED <<run, task, ex, call, boot, crashes, faults, past>>

\* Step 5
\* Mutant of HasLiveJob: any job of the task will do.
HasLiveJob_any == task.job # 0

HasLiveJob ==
    task.job # 0 /\ Exists(task.job) /\ job[task.job].status \in {"pending", "running"}
ReconcileTasks ==
    /\ mode = "tasks"
    /\ task' = IF task.status # "in_progress" \/ HasLiveJob THEN task
               ELSE [task EXCEPT !.attempts = @ + 1,
                                 !.status = IF task.attempts + 1 >= 2 THEN "failed" ELSE "pending"]
    /\ mode' = "up"
    /\ UNCHANGED <<job, run, ex, call, boot, crashes, faults, past>>
-----------------------------------------------------------------------------
CallStep == Delegate \/ StartGoal \/ Revise
CallGoesOn == CreateRun \/ Enqueue \/ Link
QueueStep(j) == BecomeDue(j) \/ Start(j) \/ Settle(j)
Reconcile == ReconcileRuns \/ ReconcileJobs \/ ReconcileTasks

HostNext ==
    \/ CallStep \/ CallGoesOn \/ Crash \/ Reconcile
    \/ \E j \in JobIds : QueueStep(j) \/ TimeOut(j) \/ Cancel(j)
=============================================================================
