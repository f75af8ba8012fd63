--------------------------- MODULE HarnessProofs ---------------------------
(***************************************************************************)
(* What agent runs and their executors do, for any number of jobs, model   *)
(* calls, turns, crashes and failed writes.                                *)
(*                                                                         *)
(* The theorems are about WideSpec, the system without the bound Small of  *)
(* the checked instance; SpecIsWide says that each behaviour of the        *)
(* instance is one of its behaviours.                                      *)
(*                                                                         *)
(* Each job has a run, an executor and a past, and a step of one executor  *)
(* leaves those of the other jobs alone. So the invariant is one of each   *)
(* job (Good): its places fit its kind and its row (Placed); what its loop *)
(* executed is in the row before it is executed and in the messages        *)
(* afterwards (Remembers); model calls and turns are in the row but for    *)
(* one per start of the job, one per fault and what cleared checkpoints    *)
(* had counted (Rationed, Budgeted); and a run says running only while an  *)
(* executor is between reclaimRun and its end (RunFollows).                *)
(*                                                                         *)
(* The task row is shared. TaskFollows says that one executor at a time is *)
(* at work on it, unless the history calls them untold, and what the row   *)
(* says while the executor is at work and when it has gone (Tells).        *)
(***************************************************************************)
EXTENDS MCHarness, FiniteSetTheorems, TLAPS

WorkerPlaces == {"start", "mark", "prepare", "restore", "reclaim", "loop", "model", "pre",
    "tools", "results", "post", "synthesis", "last", "close", "thrown", "finally", "judge",
    "accept", "proof", "catch", "settle"}
GoalPlaces == {"start", "reclaim", "check", "turn", "bump", "count", "verify", "met",
    "proof", "catch", "settle"}
Executors == [at : WorkerPlaces \cup GoalPlaces \cup {"idle"}, iterations : Nat,
    known : SUBSET Nat, calling : Nat, threw : BOOLEAN, attempts : Nat,
    aborted : BOOLEAN, result : {"none", "ok", "retry", "fatal"}]
TaskRows == [status : {"none", "pending", "in_progress", "completed", "blocked", "failed"},
    job : JobIds \cup {0}, attempts : Nat, thread : BOOLEAN]
CallRows == [at : {"idle", "run", "enqueue", "link"}, job : JobIds \cup {0}, kind : Infos,
    revises : BOOLEAN, attempts : Nat]
Pasts == [ran : SUBSET Nat, llm : Nat, cleared : Nat, turns : Nat, owned : BOOLEAN,
    untold : BOOLEAN]

Typed ==
    /\ job \in [JobIds -> Docs \cup {NoJob}]
    /\ run \in [JobIds -> Runs \cup {NoRun}]
    /\ task \in TaskRows
    /\ ex \in [JobIds -> Executors]
    /\ call \in CallRows
    /\ mode \in {"up", "runs", "jobs", "tasks"}
    /\ crashes \in 0..MaxCrashes /\ boot = crashes + 1
    /\ faults \in Nat
    /\ past \in [JobIds -> Pasts]
-----------------------------------------------------------------------------
(* rows *)

\* A checkpoint stores the loop's state and the pending calls under this boot's
\* name, and nothing else.
LEMMA CheckpointFacts ==
    ASSUME NEW r \in Runs, NEW b \in Nat, NEW s \in Checkpoints, NEW c \in SUBSET Nat
    PROVE  /\ Checkpointed(r, b, s, c) \in Runs
           /\ Checkpointed(r, b, s, c).boot = b
           /\ Checkpointed(r, b, s, c).state = s
           /\ Checkpointed(r, b, s, c).pending = c
           /\ Checkpointed(r, b, s, c).status = r.status
           /\ Checkpointed(r, b, s, c).turns = r.turns
           /\ Checkpointed(r, b, s, c).goal_attempts = r.goal_attempts
BY DEF Runs, Checkpointed

\* A reclaimed run is running again, under this boot, with its checkpoint and
\* its counts.
LEMMA ReclaimFacts ==
    ASSUME NEW r \in Runs, NEW b \in Nat
    PROVE  /\ ReclaimedRun(r, b) \in Runs
           /\ ReclaimedRun(r, b).status = "running"
           /\ ReclaimedRun(r, b).boot = b
           /\ ReclaimedRun(r, b).turns = r.turns
           /\ ReclaimedRun(r, b).goal_attempts = r.goal_attempts
           /\ ReclaimedRun(r, b).state = r.state
           /\ ReclaimedRun(r, b).pending = r.pending
BY DEF Runs, ReclaimedRun, RunStatuses

\* An interrupted run keeps its checkpoint.
LEMMA InterruptFacts ==
    ASSUME NEW r \in Runs
    PROVE  /\ InterruptedRun(r) \in Runs
           /\ InterruptedRun(r).status = "interrupted"
           /\ InterruptedRun(r).boot = r.boot
           /\ InterruptedRun(r).turns = r.turns
           /\ InterruptedRun(r).goal_attempts = r.goal_attempts
           /\ InterruptedRun(r).state = r.state
           /\ InterruptedRun(r).pending = r.pending
BY DEF Runs, InterruptedRun, RunStatuses

\* A completed run has no checkpoint left.
LEMMA CompleteFacts ==
    ASSUME NEW r \in Runs
    PROVE  /\ CompletedRun(r) \in Runs
           /\ CompletedRun(r).status = "completed"
           /\ CompletedRun(r).state = NoState
           /\ CompletedRun(r).pending = {}
           /\ CompletedRun(r).boot = r.boot
           /\ CompletedRun(r).turns = r.turns
           /\ CompletedRun(r).goal_attempts = r.goal_attempts
BY DEF Runs, CompletedRun, RunStatuses

\* Nor has a failed one.
LEMMA FailFacts ==
    ASSUME NEW r \in Runs
    PROVE  /\ FailedRun(r) \in Runs
           /\ FailedRun(r).status = "failed"
           /\ FailedRun(r).state = NoState
           /\ FailedRun(r).pending = {}
           /\ FailedRun(r).boot = r.boot
           /\ FailedRun(r).turns = r.turns
           /\ FailedRun(r).goal_attempts = r.goal_attempts
BY DEF Runs, FailedRun, RunStatuses

\* bumpTurn counts one turn and changes nothing else.
LEMMA BumpFacts ==
    ASSUME NEW r \in Runs
    PROVE  /\ Bumped(r) \in Runs
           /\ Bumped(r).turns = r.turns + 1
           /\ Bumped(r).status = r.status
           /\ Bumped(r).boot = r.boot
           /\ Bumped(r).goal_attempts = r.goal_attempts
           /\ Bumped(r).state = r.state
           /\ Bumped(r).pending = r.pending
<1>1. r.turns \in Nat /\ r.turns + 1 \in Nat
  BY DEF Runs
<1> QED BY <1>1 DEF Runs, Bumped

\* The goal's attempt count is a field of its own.
LEMMA CountFacts ==
    ASSUME NEW r \in Runs, NEW n \in Nat
    PROVE  LET s == [r EXCEPT !.goal_attempts = n] IN
           /\ s \in Runs /\ s.goal_attempts = n
           /\ s.status = r.status /\ s.boot = r.boot /\ s.turns = r.turns
           /\ s.state = r.state /\ s.pending = r.pending
BY DEF Runs

\* What a run restores is its checkpoint and the calls that were pending;
\* without one, nothing.
LEMMA RestoreFacts ==
    ASSUME NEW r \in Runs
    PROVE  /\ Known(r) \in SUBSET Nat /\ Iterations(r) \in Nat
           /\ r.state = NoState => Known(r) = {} /\ Iterations(r) = 0
           /\ r.state # NoState => /\ Known(r) = r.state.known \cup r.pending
                                   /\ Iterations(r) = r.state.iterations
BY DEF Runs, Checkpoints, Known, Iterations

\* A write of a run row succeeds or is a fault, and touches no other row.
LEMMA TryRunFacts ==
    ASSUME Typed, NEW j \in JobIds, NEW row \in Runs, TryRun(j, row)
    PROVE  /\ run' \in [JobIds -> Runs \cup {NoRun}] /\ faults' \in Nat
           /\ \A i \in JobIds \ {j} : run'[i] = run[i]
           /\ \/ run'[j] = row /\ faults' = faults
              \/ run'[j] = run[j] /\ faults' = faults + 1
BY DEF Typed, TryRun, Throws

\* So for the task row.
LEMMA TryTaskFacts ==
    ASSUME Typed, NEW row \in TaskRows, TryTask(row)
    PROVE  /\ task' \in TaskRows /\ faults' \in Nat
           /\ \/ task' = row /\ faults' = faults
              \/ task' = task /\ faults' = faults + 1
BY DEF Typed, TryTask, Throws

\* To go on is to change one executor's place.
LEMMA GotoFacts ==
    ASSUME Typed, NEW j \in JobIds, NEW at \in WorkerPlaces \cup GoalPlaces, Goto(j, at)
    PROVE  /\ ex' \in [JobIds -> Executors]
           /\ \A i \in JobIds \ {j} : ex'[i] = ex[i]
           /\ ex'[j] = [ex[j] EXCEPT !.at = at]
<1>1. ex[j] \in Executors /\ ex' = [ex EXCEPT ![j] = [ex[j] EXCEPT !.at = at]]
  BY DEF Typed, Goto
<1>2. [ex[j] EXCEPT !.at = at] \in Executors
  BY <1>1 DEF Executors
<1> QED BY <1>1, <1>2 DEF Typed

\* To return is to be about to settle with a result.
LEMMA ReturnFacts ==
    ASSUME Typed, NEW j \in JobIds, NEW r \in {"ok", "retry", "fatal"}, Return(j, r)
    PROVE  /\ ex' \in [JobIds -> Executors]
           /\ \A i \in JobIds \ {j} : ex'[i] = ex[i]
           /\ ex'[j].at = "settle" /\ ex'[j].result = r
<1>1. [Idle EXCEPT !.at = "settle", !.result = r] \in Executors
  BY DEF Executors, Idle, WorkerPlaces
<1> QED BY <1>1 DEF Typed, Return, Idle
-----------------------------------------------------------------------------
(* one job *)

Untouched(p) == p.ran = {} /\ p.llm = 0 /\ p.cleared = 0 /\ p.turns = 0 /\ ~p.owned

\* Who is where: an executor works for a job of its kind that has been started
\* by this process, and only cancel takes the job away from it.
Placed(j) ==
    /\ Exists(j) => run[j] # NoRun
    /\ Busy(j) =>
         /\ mode = "up" /\ Exists(j) /\ job[j].attempts >= 1
         /\ Owned(job[j], boot) \/ job[j].status = "cancelled"
         /\ job[j].info = "worker" => ex[j].at \in WorkerPlaces
         /\ job[j].info = "goal" => ex[j].at \in GoalPlaces
    /\ ~Exists(j) \/ job[j].attempts = 0 => Untouched(past[j])
    /\ Exists(j) /\ job[j].info = "worker" => past[j].turns = 0
    /\ Exists(j) /\ job[j].info = "goal" => past[j].ran = {} /\ past[j].llm = 0
    /\ ~Exists(j) /\ run[j] # NoRun => run[j].state = NoState

\* What was executed is in the row before it is executed, and in the messages
\* of whoever works from that row.
Remembers(j) ==
    faults = 0 /\ run[j] # NoRun =>
        /\ past[j].ran \subseteq Known(run[j])
        /\ Exists(j) /\ job[j].info = "worker" =>
            /\ ex[j].at \in {"reclaim", "loop", "model", "pre", "post", "synthesis", "last"}
               => past[j].ran \subseteq ex[j].known
            /\ ex[j].at \in {"tools", "results"} =>
                 /\ past[j].ran \subseteq ex[j].known \cup {ex[j].calling}
                 /\ ex[j].calling \in Known(run[j])

\* What a start of the job, or a failed write, may cost.
Slack(j) == faults + job[j].attempts

\* And what a checkpoint that is cleared may cost beyond that.
Afresh(n) == (MaxIterations - 1) * n

\* Model calls are counted in the executor, and in the row once it is written.
Rationed(j) ==
    Exists(j) /\ job[j].info = "worker" =>
        /\ past[j].llm > 0 =>
               past[j].llm + 1 <= MaxIterations + Slack(j) + Afresh(past[j].cleared)
        /\ Iterations(run[j]) <= MaxIterations
        /\ past[j].llm <= Iterations(run[j]) + Slack(j) + Afresh(past[j].cleared)
        /\ ex[j].at \in {"start", "mark", "prepare", "restore", "reclaim", "loop"} =>
               past[j].llm + 1 <= Iterations(run[j]) + Slack(j) + Afresh(past[j].cleared)
        /\ ex[j].at \in {"reclaim", "loop", "model", "pre", "tools", "results", "post",
                         "synthesis", "last"} =>
               /\ past[j].llm + 1 <= ex[j].iterations + Slack(j) + Afresh(past[j].cleared)
               /\ ex[j].iterations <= MaxIterations

\* Turns are counted as attempts and as turns, one after the other.
Budgeted(j) ==
    Exists(j) /\ job[j].info = "goal" =>
        /\ past[j].turns > 0 => /\ past[j].turns + 1 <= MaxGoalAttempts + Slack(j)
                                /\ past[j].turns + 1 <= MaxTurns + Slack(j)
        /\ past[j].turns <= run[j].goal_attempts + Slack(j)
        /\ past[j].turns <= run[j].turns + Slack(j)
        /\ ex[j].at \in {"start", "reclaim", "check", "verify"} =>
             past[j].turns + 1 <= run[j].goal_attempts + Slack(j)
        /\ ex[j].at \in {"reclaim", "check", "bump", "count", "verify"} =>
             past[j].turns + 1 <= ex[j].attempts + Slack(j)
        /\ ex[j].at = "turn" => past[j].turns <= ex[j].attempts + Slack(j)
        /\ ex[j].at \in {"start", "reclaim", "check", "count", "verify"} =>
             past[j].turns + 1 <= run[j].turns + Slack(j)

\* A run says running from reclaimRun to the end of the loop, or of the goal.
RunFollows(j) ==
    run[j] # NoRun =>
       /\ run[j].boot <= boot /\ (mode = "runs" => run[j].boot # boot)
       /\ run[j].status = "running" /\ mode # "runs" =>
            /\ run[j].boot = boot
            /\ faults = 0 /\ past[j].owned =>
                 /\ ex[j].at \notin {"idle", "start", "mark", "prepare", "restore", "reclaim",
                                     "judge", "accept", "proof", "settle"}
                 /\ ex[j].at = "catch" => job[j].info = "goal"

Good(j) == Placed(j) /\ Remembers(j) /\ Rationed(j) /\ Budgeted(j) /\ RunFollows(j)

\* A checkpoint that is cleared costs a budget, less the call each start may cost.
LEMMA AfreshFacts ==
    ASSUME NEW n \in Nat
    PROVE  Afresh(n) \in Nat /\ Afresh(n + 1) = Afresh(n) + MaxIterations - 1
<1>1. PICK m \in Nat : MaxIterations = m + 1
  <2>1. MaxIterations - 1 \in Nat /\ MaxIterations = (MaxIterations - 1) + 1
    BY WorkerTaskAssumption
  <2> QED BY <2>1
<1>2. Afresh(n) = m * n /\ Afresh(n + 1) = m * (n + 1)
  BY <1>1 DEF Afresh
<1>3. m * n \in Nat /\ m * (n + 1) = m * n + m
  OBVIOUS
<1> QED BY <1>1, <1>2, <1>3

\* The rows of a job are well formed.
LEMMA Base ==
    ASSUME Typed, NEW j \in JobIds
    PROVE  /\ Exists(j) => job[j] \in Docs /\ job[j].attempts \in Nat
                           /\ job[j].info \in {"worker", "goal"} /\ job[j].status \in Statuses
           /\ run[j] # NoRun =>
                /\ run[j] \in Runs /\ run[j].turns \in Nat /\ run[j].goal_attempts \in Nat
                /\ run[j].boot \in Nat
                /\ Known(run[j]) \in SUBSET Nat /\ Iterations(run[j]) \in Nat
           /\ ex[j] \in Executors /\ ex[j].iterations \in Nat /\ ex[j].attempts \in Nat
           /\ ex[j].known \in SUBSET Nat /\ ex[j].calling \in Nat
           /\ past[j] \in Pasts /\ past[j].llm \in Nat /\ past[j].turns \in Nat
           /\ past[j].ran \in SUBSET Nat
           /\ past[j].cleared \in Nat /\ Afresh(past[j].cleared) \in Nat
           /\ faults \in Nat /\ boot \in Nat /\ MaxIterations \in Nat \ {0}
           /\ MaxTurns \in Nat \ {0} /\ MaxGoalAttempts \in Nat \ {0}
           /\ NoRun \notin Runs /\ NoState \notin Checkpoints
<1>1. Exists(j) => job[j] \in Docs
  BY DEF Typed, Exists
<1>2. run[j] # NoRun => run[j] \in Runs
  BY DEF Typed
<1>3. ex[j] \in Executors /\ past[j] \in Pasts /\ faults \in Nat
  BY DEF Typed
<1>4. boot \in Nat
  BY HarnessHostAssumption DEF Typed
<1>5. run[j] # NoRun => Known(run[j]) \in SUBSET Nat /\ Iterations(run[j]) \in Nat
  BY <1>2, RestoreFacts
<1>6. past[j].cleared \in Nat /\ Afresh(past[j].cleared) \in Nat
  BY <1>3, AfreshFacts DEF Pasts
<1> QED
  BY <1>1, <1>2, <1>3, <1>4, <1>5, <1>6, HarnessHostAssumption, WorkerTaskAssumption,
     GoalRunAssumption
  DEF Docs, Runs, Executors, Pasts

\* A step leaves job i alone, though its task may have been told less.
Kept(i) ==
    /\ job'[i] = job[i] /\ run'[i] = run[i] /\ ex'[i] = ex[i]
    /\ past'[i].ran = past[i].ran /\ past'[i].llm = past[i].llm /\ past'[i].cleared = past[i].cleared
    /\ past'[i].turns = past[i].turns /\ past'[i].owned = past[i].owned

\* What the executor of job j leaves alone.
Local(j) ==
    /\ job' = job /\ call' = call /\ boot' = boot /\ mode' = mode /\ crashes' = crashes
    /\ faults' \in {faults, faults + 1}
    /\ \A i \in JobIds \ {j} : run'[i] = run[i] /\ ex'[i] = ex[i] /\ past'[i] = past[i]

\* Another job is not concerned, whatever writes fail meanwhile.
LEMMA NotConcerned ==
    ASSUME Typed, NEW j \in JobIds, Good(j), Kept(j), boot' = boot,
           mode' = mode \/ (mode = "tasks" /\ mode' = "up"), faults' \in {faults, faults + 1}
    PROVE  Good(j)'
<1>1. Exists(j)' = Exists(j) /\ Busy(j)' = Busy(j)
  BY DEF Kept, Exists, Busy
<1>2. Placed(j)'
  BY <1>1 DEF Kept, Good, Placed, Untouched, Owned
<1>3. Remembers(j)'
  BY <1>1, Base DEF Kept, Good, Remembers
<1>4. Rationed(j)'
  <2>1. Exists(j) => Slack(j) \in Nat /\ Slack(j)' \in {Slack(j), Slack(j) + 1}
    BY Base DEF Kept, Slack
  <2>2. Iterations(run[j])' = Iterations(run[j]) /\ (Exists(j) => run[j] # NoRun)
    BY DEF Kept, Good, Placed
  <2> QED BY <1>1, <2>1, <2>2, Base DEF Kept, Good, Rationed
<1>5. Budgeted(j)'
  <2>1. Exists(j) => Slack(j) \in Nat /\ Slack(j)' \in {Slack(j), Slack(j) + 1}
    BY Base DEF Kept, Slack
  <2>2. Exists(j) => run[j] # NoRun
    BY DEF Good, Placed
  <2> QED BY <1>1, <2>1, <2>2, Base DEF Kept, Good, Budgeted
<1>6. RunFollows(j)'
  BY <1>1, Base DEF Kept, Good, RunFollows
<1> QED BY <1>2, <1>3, <1>4, <1>5, <1>6 DEF Good

\* The state of a step of job j is well formed.
Running(j) ==
    /\ Local(j)
    /\ run' \in [JobIds -> Runs \cup {NoRun}]
    /\ ex' \in [JobIds -> Executors]
    /\ past' \in [JobIds -> Pasts]

\* An executor of a worker at a place has a row and a job.
LEMMA WorkerAt ==
    ASSUME Typed, NEW j \in JobIds, Good(j), NEW at \in WorkerPlaces, Worker(j, at)
    PROVE  /\ Exists(j) /\ job[j].info = "worker" /\ ex[j].at = at /\ run[j] \in Runs
           /\ mode = "up" /\ job[j].attempts >= 1
BY Base DEF Worker, At, Good, Placed, Busy, WorkerPlaces

\* Steps that only move the executor of a worker on.
WorkerMoves ==
    {<<"start", "mark">>, <<"mark", "prepare">>, <<"prepare", "restore">>, <<"prepare", "catch">>,
     <<"restore", "catch">>, <<"loop", "last">>, <<"loop", "synthesis">>, <<"model", "last">>,
     <<"model", "synthesis">>, <<"model", "thrown">>, <<"results", "thrown">>, <<"synthesis", "last">>,
     <<"synthesis", "thrown">>, <<"judge", "accept">>, <<"judge", "catch">>, <<"accept", "proof">>,
     <<"proof", "catch">>}

\* A worker that goes on without a write keeps its run good.
LEMMA WorkerMovesOn ==
    ASSUME Typed, NEW j \in JobIds, Good(j), NEW at \in WorkerPlaces, NEW to \in WorkerPlaces,
           Worker(j, at), <<at, to>> \in WorkerMoves, Goto(j, to), UNCHANGED <<run, past>>, Local(j)
    PROVE  Running(j) /\ Good(j)'
<1>1. /\ Exists(j) /\ job[j].info = "worker" /\ ex[j].at = at /\ run[j] \in Runs
      /\ mode = "up" /\ job[j].attempts >= 1
  BY WorkerAt
<1>2. ex' \in [JobIds -> Executors] /\ ex'[j] = [ex[j] EXCEPT !.at = to]
  BY GotoFacts
<1>3. /\ ex'[j].at = to /\ ex'[j].known = ex[j].known /\ ex'[j].calling = ex[j].calling
      /\ ex'[j].iterations = ex[j].iterations
  BY <1>2, Base DEF Executors
<1>4. Running(j)
  BY <1>2 DEF Running, Typed
<1>5. Placed(j)'
  BY <1>1, <1>3, Base DEF Local, Good, Placed, Exists, Busy, Owned, WorkerPlaces
<1>6. Remembers(j)'
  BY <1>1, <1>3, Base DEF Local, Good, Remembers, Exists, WorkerMoves
<1>7. Rationed(j)'
  BY <1>1, <1>3, Base DEF Local, Good, Rationed, Exists, Slack, WorkerMoves
<1>8. Budgeted(j)'
  BY <1>1, <1>3, Base DEF Local, Good, Budgeted, Exists
<1>9. RunFollows(j)'
  BY <1>1, <1>3, Base DEF Local, Good, RunFollows, Exists, WorkerMoves
<1> QED BY <1>4, <1>5, <1>6, <1>7, <1>8, <1>9 DEF Good

\* The executor of a worker returns, the run being over or not begun.
LEMMA WorkerReturns ==
    ASSUME Typed, NEW j \in JobIds, Good(j), NEW at \in {"start", "judge", "proof", "catch"},
           Worker(j, at), NEW r \in {"ok", "retry", "fatal"}, Return(j, r), Local(j), UNCHANGED run,
           past' \in [JobIds -> Pasts], past'[j] \in {past[j], [past[j] EXCEPT !.untold = TRUE]}
    PROVE  Running(j) /\ Good(j)'
<1>1. /\ Exists(j) /\ job[j].info = "worker" /\ ex[j].at = at /\ run[j] \in Runs
      /\ mode = "up" /\ job[j].attempts >= 1
  BY WorkerAt DEF WorkerPlaces
<1>2. ex' \in [JobIds -> Executors] /\ ex'[j].at = "settle"
  BY ReturnFacts
<1>3. /\ past'[j].ran = past[j].ran /\ past'[j].llm = past[j].llm /\ past'[j].cleared = past[j].cleared
      /\ past'[j].turns = past[j].turns /\ past'[j].owned = past[j].owned
  BY Base DEF Pasts
<1>4. Running(j)
  BY <1>2 DEF Running, Typed
<1>5. Placed(j)'
  BY <1>1, <1>2, <1>3, Base DEF Local, Good, Placed, Exists, Busy, Owned, WorkerPlaces, Untouched
<1>6. Remembers(j)'
  BY <1>1, <1>2, <1>3, Base DEF Local, Good, Remembers, Exists
<1>7. Rationed(j)'
  BY <1>1, <1>2, <1>3, Base DEF Local, Good, Rationed, Exists, Slack
<1>8. Budgeted(j)'
  BY <1>1, <1>2, <1>3, Base DEF Local, Good, Budgeted, Exists
<1>9. RunFollows(j)'
  BY <1>1, <1>2, <1>3, Base DEF Local, Good, RunFollows, Exists
<1> QED BY <1>4, <1>5, <1>6, <1>7, <1>8, <1>9 DEF Good

\* A checkpoint, which may fail.
LEMMA WorkerCheckpoints ==
    ASSUME Typed, NEW j \in JobIds, Good(j), NEW at \in WorkerPlaces, NEW to \in WorkerPlaces,
           NEW calls \in {{}, {ex[j].calling}},
           Worker(j, at), <<at, to, calls>> \in {<<"pre", "tools", {ex[j].calling}>>,
               <<"post", "loop", {}>>, <<"post", "synthesis", {}>>, <<"last", "close", {}>>},
           TryRun(j, Checkpointed(run[j], boot, Progress(j), calls)), Goto(j, to),
           UNCHANGED <<job, call, boot, mode, crashes, past>>
    PROVE  Running(j) /\ Good(j)'
<1>1. /\ Exists(j) /\ job[j].info = "worker" /\ ex[j].at = at /\ run[j] \in Runs
      /\ mode = "up" /\ job[j].attempts >= 1
  BY WorkerAt
<1>2. /\ ex' \in [JobIds -> Executors] /\ ex'[j] = [ex[j] EXCEPT !.at = to]
      /\ \A i \in JobIds \ {j} : ex'[i] = ex[i]
  BY GotoFacts
<1>3. /\ ex'[j].at = to /\ ex'[j].known = ex[j].known /\ ex'[j].calling = ex[j].calling
      /\ ex'[j].iterations = ex[j].iterations
  BY <1>2, Base DEF Executors
<1> DEFINE r == Checkpointed(run[j], boot, Progress(j), calls)
<1>4. /\ r \in Runs /\ r.status = run[j].status /\ r.boot = boot /\ r.turns = run[j].turns
      /\ r.goal_attempts = run[j].goal_attempts /\ r.state # NoState
      /\ Known(r) = ex[j].known \cup calls /\ Iterations(r) = ex[j].iterations
  <2>1. /\ Progress(j) \in Checkpoints /\ Progress(j).iterations = ex[j].iterations
        /\ Progress(j).known = ex[j].known /\ boot \in Nat /\ calls \in SUBSET Nat
    BY Base DEF Progress, Checkpoints
  <2>2. /\ r \in Runs /\ r.status = run[j].status /\ r.boot = boot /\ r.turns = run[j].turns
        /\ r.goal_attempts = run[j].goal_attempts /\ r.state = Progress(j) /\ r.pending = calls
    BY <1>1, <2>1, CheckpointFacts
  <2> QED BY <2>1, <2>2, Base, RestoreFacts
<1>5. /\ run' \in [JobIds -> Runs \cup {NoRun}] /\ faults' \in Nat
      /\ \A i \in JobIds \ {j} : run'[i] = run[i]
      /\ \/ run'[j] = r /\ faults' = faults
         \/ run'[j] = run[j] /\ faults' = faults + 1
  BY <1>4, TryRunFacts
<1>6. Running(j)
  BY <1>2, <1>5 DEF Running, Local, Typed
<1>7. Placed(j)'
  BY <1>1, <1>3, <1>4, <1>5, Base DEF Good, Placed, Exists, Busy, Owned, WorkerPlaces
<1>8. Remembers(j)'
  BY <1>1, <1>3, <1>4, <1>5, Base DEF Good, Remembers, Exists
<1>9. Rationed(j)'
  BY <1>1, <1>3, <1>4, <1>5, Base DEF Good, Rationed, Exists, Slack
<1>10. Budgeted(j)'
  BY <1>1, <1>3, <1>4, <1>5, Base DEF Good, Budgeted, Exists
<1>11. RunFollows(j)'
  BY <1>1, <1>3, <1>4, <1>5, Base DEF Good, RunFollows, Exists
<1> QED BY <1>6, <1>7, <1>8, <1>9, <1>10, <1>11 DEF Good

\* The checkpoint is read back.
LEMMA WorkerRestores ==
    ASSUME Typed, NEW j \in JobIds, Good(j), Restore(j)
    PROVE  Running(j) /\ Good(j)'
<1> SUFFICES ASSUME ~(Throws /\ Goto(j, "catch")) PROVE Running(j) /\ Good(j)'
  <2>1. CASE Throws /\ Goto(j, "catch")
    <3>1. Worker(j, "restore") /\ Local(j) /\ UNCHANGED <<run, past>>
      BY <2>1, GotoFacts, Base DEF Restore, Throws, Local, WorkerPlaces
    <3> QED BY <2>1, <3>1, WorkerMovesOn DEF WorkerPlaces, WorkerMoves
  <2> QED BY <2>1
<1>1. /\ Exists(j) /\ job[j].info = "worker" /\ ex[j].at = "restore" /\ run[j] \in Runs
      /\ mode = "up" /\ job[j].attempts >= 1
  BY WorkerAt DEF Restore, WorkerPlaces
<1>2. /\ ex' = [ex EXCEPT ![j] = [ex[j] EXCEPT !.at = "reclaim", !.known = Known(run[j]),
                                              !.iterations = Iterations(run[j])]]
      /\ UNCHANGED <<job, run, task, call, boot, mode, crashes, faults, past>>
  BY DEF Restore
<1>3. /\ ex'[j].at = "reclaim" /\ ex'[j].known = Known(run[j])
      /\ ex'[j].iterations = Iterations(run[j]) /\ ex'[j] \in Executors
  <2>1. ex[j] \in Executors /\ Known(run[j]) \in SUBSET Nat /\ Iterations(run[j]) \in Nat
    BY <1>1, Base
  <2> DEFINE x == [ex[j] EXCEPT !.at = "reclaim", !.known = Known(run[j]),
                               !.iterations = Iterations(run[j])]
  <2>2. x \in Executors /\ x.at = "reclaim" /\ x.known = Known(run[j]) /\ x.iterations = Iterations(run[j])
    BY <2>1 DEF Executors, WorkerPlaces
  <2> QED BY <1>2, <2>2 DEF Typed
<1>4. Running(j)
  BY <1>2, <1>3 DEF Running, Local, Typed
<1>5. Placed(j)'
  BY <1>1, <1>2, <1>3, Base DEF Good, Placed, Exists, Busy, Owned, WorkerPlaces
<1>6. Remembers(j)'
  BY <1>1, <1>2, <1>3, Base DEF Good, Remembers, Exists
<1>7. Rationed(j)'
  BY <1>1, <1>2, <1>3, Base DEF Good, Rationed, Exists, Slack
<1>8. Budgeted(j)'
  BY <1>1, <1>2, <1>3, Base DEF Good, Budgeted, Exists, Slack
<1>9. RunFollows(j)'
  BY <1>1, <1>2, <1>3, Base DEF Good, RunFollows, Exists
<1> QED BY <1>4, <1>5, <1>6, <1>7, <1>8, <1>9 DEF Good

\* So does one that takes its run over from an earlier boot.
LEMMA WorkerReclaims ==
    ASSUME Typed, NEW j \in JobIds, Good(j), Reclaim(j)
    PROVE  Running(j) /\ Good(j)'
<1>1. /\ Exists(j) /\ job[j].info = "worker" /\ ex[j].at = "reclaim" /\ run[j] \in Runs
      /\ mode = "up" /\ job[j].attempts >= 1
  BY WorkerAt DEF Reclaim, WorkerPlaces
<1>2. ex'[j] = [ex[j] EXCEPT !.at = "loop"]
  BY GotoFacts DEF Reclaim, WorkerPlaces
<1>3. /\ ex'[j].at = "loop" /\ ex'[j].known = ex[j].known /\ ex'[j].calling = ex[j].calling
      /\ ex'[j].iterations = ex[j].iterations
  BY <1>2, Base DEF Executors
<1> DEFINE r == ReclaimedRun(run[j], boot)
<1>4. /\ r \in Runs /\ r.status = "running" /\ r.boot = boot /\ r.turns = run[j].turns
      /\ r.goal_attempts = run[j].goal_attempts /\ (r.state = NoState <=> run[j].state = NoState)
      /\ Known(r) = Known(run[j]) /\ Iterations(r) = Iterations(run[j])
  <2>1. /\ r \in Runs /\ r.status = "running" /\ r.boot = boot /\ r.turns = run[j].turns
        /\ r.goal_attempts = run[j].goal_attempts /\ r.state = run[j].state /\ r.pending = run[j].pending
    BY <1>1, Base, ReclaimFacts
  <2> QED BY <1>1, <2>1, RestoreFacts
<1>5. /\ run' \in [JobIds -> Runs \cup {NoRun}] /\ faults' \in Nat
      /\ \A i \in JobIds \ {j} : run'[i] = run[i]
      /\ \/ run'[j] = r /\ faults' = faults
         \/ run'[j] = run[j] /\ faults' = faults + 1
  <2>1. TryRun(j, r)
    BY DEF Reclaim
  <2> QED BY <1>4, <2>1, TryRunFacts
<1>6. /\ UNCHANGED <<job, task, call, boot, mode, crashes>>
      /\ past'[j].ran = past[j].ran /\ past'[j].llm = past[j].llm /\ past'[j].cleared = past[j].cleared
      /\ past'[j].turns = past[j].turns /\ past' \in [JobIds -> Pasts]
      /\ \A i \in JobIds \ {j} : past'[i] = past[i]
  BY DEF Reclaim, Typed, Pasts
<1>7. Running(j)
  BY <1>4, <1>6, GotoFacts, TryRunFacts DEF Reclaim, Running, Local, WorkerPlaces
<1>8. Placed(j)'
  BY <1>1, <1>2, <1>3, <1>4, <1>5, <1>6, Base DEF Good, Placed, Exists, Busy, Owned, WorkerPlaces, Untouched
<1>9. Remembers(j)'
  BY <1>1, <1>2, <1>3, <1>4, <1>5, <1>6, Base DEF Good, Remembers, Exists, Untouched
<1>10. Rationed(j)'
  BY <1>1, <1>2, <1>3, <1>4, <1>5, <1>6, Base DEF Good, Rationed, Exists, Slack, Untouched
<1>11. Budgeted(j)'
  BY <1>1, <1>2, <1>3, <1>4, <1>5, <1>6, Base DEF Good, Budgeted, Exists, Slack, Untouched
<1>12. RunFollows(j)'
  BY <1>1, <1>2, <1>3, <1>4, <1>5, <1>6, Base DEF Good, RunFollows, Exists, Untouched
<1> QED BY <1>7, <1>8, <1>9, <1>10, <1>11, <1>12 DEF Good

\* One that starts an iteration within its budget.
LEMMA WorkerIterates ==
    ASSUME Typed, NEW j \in JobIds, Good(j), Iterate(j)
    PROVE  Running(j) /\ Good(j)'
<1>1. /\ Exists(j) /\ job[j].info = "worker" /\ ex[j].at = "loop" /\ run[j] \in Runs
      /\ mode = "up" /\ job[j].attempts >= 1
  BY WorkerAt DEF Iterate, WorkerPlaces
<1>2. /\ ex' = [ex EXCEPT ![j] = [ex[j] EXCEPT !.at = "model", !.iterations = ex[j].iterations + 1]]
      /\ past' = [past EXCEPT ![j] = [past[j] EXCEPT !.llm = past[j].llm + 1]]
      /\ UNCHANGED <<job, run, task, call, boot, mode, crashes, faults>>
      /\ ex[j].iterations < MaxIterations
  BY DEF Iterate
<1>3. /\ ex'[j].at = "model" /\ ex'[j].known = ex[j].known /\ ex'[j].iterations = ex[j].iterations + 1
      /\ ex'[j] \in Executors
  <2> DEFINE x == [ex[j] EXCEPT !.at = "model", !.iterations = ex[j].iterations + 1]
  <2>1. ex[j] \in Executors /\ ex[j].iterations + 1 \in Nat
    BY Base
  <2>2. x \in Executors /\ x.at = "model" /\ x.known = ex[j].known /\ x.iterations = ex[j].iterations + 1
    BY <2>1 DEF Executors, WorkerPlaces
  <2> QED BY <1>2, <2>2 DEF Typed
<1>4. /\ past'[j].ran = past[j].ran /\ past'[j].llm = past[j].llm + 1 /\ past'[j].cleared = past[j].cleared
      /\ past'[j].turns = past[j].turns /\ past'[j].owned = past[j].owned /\ past' \in [JobIds -> Pasts]
      /\ \A i \in JobIds \ {j} : past'[i] = past[i]
  BY <1>2, Base DEF Typed, Pasts
<1>5. Running(j)
  BY <1>2, <1>3, <1>4 DEF Running, Local, Typed
<1>6. Placed(j)'
  BY <1>1, <1>2, <1>3, <1>4, Base DEF Good, Placed, Exists, Busy, Owned, WorkerPlaces, Untouched
<1>7. Remembers(j)'
  BY <1>1, <1>2, <1>3, <1>4, Base DEF Good, Remembers, Exists, Untouched
<1>8. Rationed(j)'
  BY <1>1, <1>2, <1>3, <1>4, Base DEF Good, Rationed, Exists, Slack, Untouched
<1>9. Budgeted(j)'
  BY <1>1, <1>2, <1>3, <1>4, Base DEF Good, Budgeted, Exists, Slack, Untouched
<1>10. RunFollows(j)'
  BY <1>1, <1>2, <1>3, <1>4, Base DEF Good, RunFollows, Exists, Untouched
<1> QED BY <1>5, <1>6, <1>7, <1>8, <1>9, <1>10 DEF Good

\* The model asks for a tool.
LEMMA WorkerAsksForTool ==
    ASSUME Typed, NEW j \in JobIds, Good(j), Worker(j, "model"),
           ex' = [ex EXCEPT ![j].at = "pre", ![j].calling = past[j].llm],
           UNCHANGED <<job, run, task, call, boot, mode, crashes, faults, past>>
    PROVE  Running(j) /\ Good(j)'
<1>1. /\ Exists(j) /\ job[j].info = "worker" /\ ex[j].at = "model" /\ run[j] \in Runs
      /\ mode = "up" /\ job[j].attempts >= 1
  BY WorkerAt DEF WorkerPlaces
<1>2. /\ ex'[j].at = "pre" /\ ex'[j].known = ex[j].known /\ ex'[j].iterations = ex[j].iterations
      /\ ex'[j] \in Executors
  <2> DEFINE x == [ex[j] EXCEPT !.at = "pre", !.calling = past[j].llm]
  <2>1. ex[j] \in Executors /\ past[j].llm \in Nat
    BY Base
  <2>2. x \in Executors /\ x.at = "pre" /\ x.known = ex[j].known /\ x.iterations = ex[j].iterations
    BY <2>1 DEF Executors, WorkerPlaces
  <2>3. ex' = [ex EXCEPT ![j] = x]
    OBVIOUS
  <2> QED BY <2>2, <2>3 DEF Typed
<1>3. Running(j)
  BY <1>2 DEF Running, Local, Typed
<1>4. Placed(j)'
  BY <1>1, <1>2, Base DEF Good, Placed, Exists, Busy, Owned, WorkerPlaces
<1>5. Remembers(j)'
  BY <1>1, <1>2, Base DEF Good, Remembers, Exists
<1>6. Rationed(j)'
  BY <1>1, <1>2, Base DEF Good, Rationed, Exists, Slack
<1>7. Budgeted(j)'
  BY <1>1, <1>2, Base DEF Good, Budgeted, Exists, Slack
<1>8. RunFollows(j)'
  BY <1>1, <1>2, Base DEF Good, RunFollows, Exists
<1> QED BY <1>3, <1>4, <1>5, <1>6, <1>7, <1>8 DEF Good

\* One that executes the calls it has checkpointed.
LEMMA WorkerRunsTools ==
    ASSUME Typed, NEW j \in JobIds, Good(j), RunTools(j)
    PROVE  Running(j) /\ Good(j)'
<1>1. /\ Exists(j) /\ job[j].info = "worker" /\ ex[j].at = "tools" /\ run[j] \in Runs
      /\ mode = "up" /\ job[j].attempts >= 1
  BY WorkerAt DEF RunTools, WorkerPlaces
<1>2. ex'[j] = [ex[j] EXCEPT !.at = "results"]
  BY GotoFacts DEF RunTools, WorkerPlaces
<1>3. /\ ex'[j].at = "results" /\ ex'[j].known = ex[j].known /\ ex'[j].calling = ex[j].calling
      /\ ex'[j].iterations = ex[j].iterations
  BY <1>2, Base DEF Executors
<1>4. /\ UNCHANGED <<job, run, task, call, boot, mode, crashes, faults>>
      /\ past'[j].ran \in {past[j].ran, past[j].ran \cup {ex[j].calling}}
      /\ past'[j].llm = past[j].llm /\ past'[j].cleared = past[j].cleared /\ past'[j].turns = past[j].turns
      /\ past'[j].owned = past[j].owned /\ past' \in [JobIds -> Pasts]
      /\ \A i \in JobIds \ {j} : past'[i] = past[i]
  <2>1. past[j].ran \cup {ex[j].calling} \in SUBSET Nat
    BY Base
  <2>2. past' = [past EXCEPT ![j] = [past[j] EXCEPT !.ran = past[j].ran \cup {ex[j].calling}]]
        \/ past' = past
    BY DEF RunTools
  <2> QED BY <2>1, <2>2 DEF RunTools, Typed, Pasts
<1>5. Running(j)
  BY <1>4, GotoFacts DEF RunTools, Running, Local, WorkerPlaces, Typed
<1>6. Placed(j)'
  BY <1>1, <1>2, <1>3, <1>4, Base DEF Good, Placed, Exists, Busy, Owned, WorkerPlaces, Untouched
<1>7. Remembers(j)'
  BY <1>1, <1>2, <1>3, <1>4, Base DEF Good, Remembers, Exists, Untouched
<1>8. Rationed(j)'
  BY <1>1, <1>2, <1>3, <1>4, Base DEF Good, Rationed, Exists, Slack, Untouched
<1>9. Budgeted(j)'
  BY <1>1, <1>2, <1>3, <1>4, Base DEF Good, Budgeted, Exists, Slack, Untouched
<1>10. RunFollows(j)'
  BY <1>1, <1>2, <1>3, <1>4, Base DEF Good, RunFollows, Exists, Untouched
<1> QED BY <1>5, <1>6, <1>7, <1>8, <1>9, <1>10 DEF Good

\* One that puts the results into its messages.
LEMMA WorkerTakesResults ==
    ASSUME Typed, NEW j \in JobIds, Good(j), ToolResults(j), ~Goto(j, "thrown")
    PROVE  Running(j) /\ Good(j)'
<1>1. /\ Exists(j) /\ job[j].info = "worker" /\ ex[j].at = "results" /\ run[j] \in Runs
      /\ mode = "up" /\ job[j].attempts >= 1
  BY WorkerAt DEF ToolResults, WorkerPlaces
<1>2. PICK at \in {"post", "last"} :
         /\ ex' = [ex EXCEPT ![j] = [ex[j] EXCEPT !.at = at, !.calling = 0,
                                                  !.known = ex[j].known \cup {ex[j].calling}]]
         /\ UNCHANGED <<job, run, task, call, boot, mode, crashes, faults, past>>
  BY DEF ToolResults
<1>3. /\ ex'[j].at = at /\ ex'[j].known = ex[j].known \cup {ex[j].calling}
      /\ ex'[j].iterations = ex[j].iterations /\ ex'[j] \in Executors
  <2> DEFINE x == [ex[j] EXCEPT !.at = at, !.calling = 0, !.known = ex[j].known \cup {ex[j].calling}]
  <2>1. ex[j] \in Executors /\ ex[j].known \cup {ex[j].calling} \in SUBSET Nat
    BY Base
  <2>2. /\ x \in Executors /\ x.at = at /\ x.known = ex[j].known \cup {ex[j].calling}
        /\ x.iterations = ex[j].iterations
    BY <2>1 DEF Executors, WorkerPlaces
  <2> QED BY <1>2, <2>2 DEF Typed
<1>4. Running(j)
  BY <1>2, <1>3 DEF Running, Local, Typed
<1>5. Placed(j)'
  BY <1>1, <1>2, <1>3, Base DEF Good, Placed, Exists, Busy, Owned, WorkerPlaces
<1>6. Remembers(j)'
  BY <1>1, <1>2, <1>3, Base DEF Good, Remembers, Exists
<1>7. Rationed(j)'
  BY <1>1, <1>2, <1>3, Base DEF Good, Rationed, Exists, Slack
<1>8. Budgeted(j)'
  BY <1>1, <1>2, <1>3, Base DEF Good, Budgeted, Exists, Slack
<1>9. RunFollows(j)'
  BY <1>1, <1>2, <1>3, Base DEF Good, RunFollows, Exists
<1> QED BY <1>4, <1>5, <1>6, <1>7, <1>8, <1>9 DEF Good

\* What completeRun, failRun and interruptRun write, each of which may fail.
LEMMA EndFacts ==
    ASSUME NEW r \in Runs, NEW e \in {CompletedRun(r), FailedRun(r), InterruptedRun(r)}
    PROVE  /\ e \in Runs /\ e.status \in {"completed", "failed", "interrupted"}
           /\ e.boot = r.boot /\ e.turns = r.turns /\ e.goal_attempts = r.goal_attempts
           /\ \/ e.state = NoState /\ Known(e) = {} /\ Iterations(e) = 0
              \/ e = InterruptedRun(r) /\ e.state = r.state /\ Known(e) = Known(r) /\ Iterations(e) = Iterations(r)
<1>1. e \in Runs /\ e.status \in {"completed", "failed", "interrupted"}
      /\ e.boot = r.boot /\ e.turns = r.turns /\ e.goal_attempts = r.goal_attempts
      /\ \/ e.state = NoState
         \/ e = InterruptedRun(r) /\ e.state = r.state /\ e.pending = r.pending
  BY CompleteFacts, FailFacts, InterruptFacts
<1> QED BY <1>1, RestoreFacts

\* The loop is over: the run is closed, and what it had done is forgotten with
\* its checkpoint.
LEMMA WorkerCloses ==
    ASSUME Typed, NEW j \in JobIds, Good(j), NEW at \in {"close", "thrown"}, Worker(j, at),
           NEW e \in {CompletedRun(run[j]), FailedRun(run[j]), InterruptedRun(run[j])},
           TryRun(j, e), Forget(j), UNCHANGED <<job, task, call, boot, mode, crashes>>,
           ex' \in [JobIds -> Executors], ex'[j].at = "finally",
           \A i \in JobIds \ {j} : ex'[i] = ex[i]
    PROVE  Running(j) /\ Good(j)'
<1>1. /\ Exists(j) /\ job[j].info = "worker" /\ ex[j].at = at /\ run[j] \in Runs
      /\ mode = "up" /\ job[j].attempts >= 1
  BY WorkerAt DEF WorkerPlaces
<1>2. /\ e \in Runs /\ e.status \in {"completed", "failed", "interrupted"}
      /\ e.boot = run[j].boot /\ e.turns = run[j].turns /\ e.goal_attempts = run[j].goal_attempts
      /\ \/ e.state = NoState /\ Known(e) = {} /\ Iterations(e) = 0
         \/ e.state = run[j].state /\ Known(e) = Known(run[j]) /\ Iterations(e) = Iterations(run[j])
      /\ run[j].state = NoState => Known(run[j]) = {} /\ Iterations(run[j]) = 0
  BY <1>1, EndFacts, RestoreFacts
<1>3. /\ run' \in [JobIds -> Runs \cup {NoRun}] /\ faults' \in Nat
      /\ \A i \in JobIds \ {j} : run'[i] = run[i]
      /\ \/ run'[j] = e /\ faults' = faults
         \/ run'[j] = run[j] /\ faults' = faults + 1
  BY <1>2, TryRunFacts
<1>4. /\ past' \in [JobIds -> Pasts] /\ (\A i \in JobIds \ {j} : past'[i] = past[i])
      /\ past'[j].turns = past[j].turns /\ past'[j].owned = past[j].owned
      /\ past'[j].llm = past[j].llm
      /\ \/ /\ past'[j].ran = {} /\ past'[j].cleared = past[j].cleared + 1
            /\ run[j].state # NoState /\ run'[j].state = NoState
         \/ /\ past'[j].ran = past[j].ran /\ past'[j].cleared = past[j].cleared
            /\ run[j].state = NoState \/ run'[j].state # NoState
  <2> DEFINE x == [past[j] EXCEPT !.ran = {}, !.cleared = past[j].cleared + 1]
  <2>1. past[j] \in Pasts /\ past[j].cleared + 1 \in Nat
    BY Base
  <2>2. /\ x \in Pasts /\ x.ran = {} /\ x.cleared = past[j].cleared + 1 /\ x.llm = past[j].llm
        /\ x.turns = past[j].turns /\ x.owned = past[j].owned
    BY <2>1 DEF Pasts
  <2>3. CASE run[j].state # NoState /\ run'[j].state = NoState
    <3>1. past' = [past EXCEPT ![j] = x]
      BY <2>3 DEF Forget
    <3> QED BY <2>2, <2>3, <3>1 DEF Typed
  <2>4. CASE ~(run[j].state # NoState /\ run'[j].state = NoState)
    BY <2>4 DEF Forget, Typed
  <2> QED BY <2>3, <2>4
<1>5. UNCHANGED <<job, call, boot, mode, crashes>> /\ ex'[j].at = "finally"
  OBVIOUS
<1>6. Running(j)
  BY <1>2, <1>4, <1>5, TryRunFacts DEF Running, Local
<1>7. Placed(j)'
  BY <1>1, <1>2, <1>3, <1>4, <1>5, Base DEF Good, Placed, Exists, Busy, Owned, WorkerPlaces, Untouched
<1>8. Remembers(j)'
  BY <1>1, <1>2, <1>3, <1>4, <1>5, Base DEF Good, Remembers, Exists, Untouched
<1>9. Rationed(j)'
  <2>1. CASE past'[j].ran = past[j].ran /\ past'[j].cleared = past[j].cleared
    BY <1>1, <1>2, <1>3, <1>4, <1>5, <2>1, Base DEF Good, Rationed, Exists, Slack
  <2>2. CASE past'[j].cleared = past[j].cleared + 1 /\ run[j].state # NoState /\ run'[j].state = NoState
    <3>1. Afresh(past'[j].cleared) = Afresh(past[j].cleared) + MaxIterations - 1
      BY <2>2, Base, AfreshFacts
    <3>2. Iterations(run'[j]) = 0 /\ faults' = faults
      BY <1>2, <1>3, <2>2, Base
    <3>3. /\ past[j].llm > 0 =>
                past[j].llm + 1 <= MaxIterations + Slack(j) + Afresh(past[j].cleared)
          /\ Slack(j) \in Nat /\ Slack(j)' = Slack(j)
      BY <1>1, <1>5, <3>2, Base DEF Good, Rationed, Slack, Exists
    <3> QED BY <1>1, <1>4, <1>5, <3>1, <3>2, <3>3, Base DEF Rationed, Exists
  <2> QED BY <1>4, <2>1, <2>2
<1>10. Budgeted(j)'
  BY <1>1, <1>2, <1>3, <1>4, <1>5, Base DEF Good, Budgeted, Exists, Slack, Untouched
<1>11. RunFollows(j)'
  BY <1>1, <1>2, <1>3, <1>4, <1>5, Base DEF Good, RunFollows, Exists, Untouched
<1> QED BY <1>6, <1>7, <1>8, <1>9, <1>10, <1>11 DEF Good

\* One that leaves the loop.
LEMMA WorkerFinally ==
    ASSUME Typed, NEW j \in JobIds, Good(j), Finally(j)
    PROVE  Running(j) /\ Good(j)'
<1>1. /\ Exists(j) /\ job[j].info = "worker" /\ ex[j].at = "finally" /\ run[j] \in Runs
      /\ mode = "up" /\ job[j].attempts >= 1
  BY WorkerAt DEF Finally, WorkerPlaces
<1>2. PICK to \in {"catch", "judge"} : Goto(j, to)
  BY DEF Finally
<1>3. ex'[j].at = to /\ ex' \in [JobIds -> Executors] /\ (\A i \in JobIds \ {j} : ex'[i] = ex[i])
  <2>1. /\ ex' \in [JobIds -> Executors] /\ (\A i \in JobIds \ {j} : ex'[i] = ex[i])
        /\ ex'[j] = [ex[j] EXCEPT !.at = to]
    BY <1>2, GotoFacts DEF WorkerPlaces
  <2> QED BY <2>1, Base DEF Executors
<1>4. UNCHANGED <<job, task, call, boot, mode, crashes, past>>
  BY DEF Finally
<1> DEFINE e == InterruptedRun(run[j])
<1>5. /\ e \in Runs /\ e.status = "interrupted"
      /\ e.boot = run[j].boot /\ e.turns = run[j].turns /\ e.goal_attempts = run[j].goal_attempts
      /\ e.state = run[j].state /\ Known(e) = Known(run[j]) /\ Iterations(e) = Iterations(run[j])
  <2>1. /\ e \in Runs /\ e.status = "interrupted" /\ e.boot = run[j].boot /\ e.turns = run[j].turns
        /\ e.goal_attempts = run[j].goal_attempts /\ e.state = run[j].state /\ e.pending = run[j].pending
    BY <1>1, InterruptFacts
  <2> QED BY <1>1, <2>1, RestoreFacts
<1>6. /\ run' \in [JobIds -> Runs \cup {NoRun}] /\ faults' \in Nat
      /\ \A i \in JobIds \ {j} : run'[i] = run[i]
      /\ \/ run'[j] = e /\ faults' = faults
         \/ run'[j] = run[j] /\ faults' = faults + 1
         \/ run'[j] = run[j] /\ faults' = faults /\ run[j].status # "running"
  <2>1. CASE run[j].status = "running"
    <3>1. TryRun(j, e)
      BY <2>1 DEF Finally
    <3> QED BY <1>5, <3>1, TryRunFacts
  <2>2. CASE run[j].status # "running"
    BY <2>2 DEF Finally, Typed
  <2> QED BY <2>1, <2>2
<1>7. Running(j)
  BY <1>3, <1>4, <1>6 DEF Running, Local, Typed
<1>8. Placed(j)'
  BY <1>1, <1>2, <1>3, <1>4, <1>5, <1>6, Base DEF Good, Placed, Exists, Busy, Owned, WorkerPlaces
<1>9. Remembers(j)'
  BY <1>1, <1>2, <1>3, <1>4, <1>5, <1>6, Base DEF Good, Remembers, Exists
<1>10. Rationed(j)'
  BY <1>1, <1>2, <1>3, <1>4, <1>5, <1>6, Base DEF Good, Rationed, Exists, Slack
<1>11. Budgeted(j)'
  BY <1>1, <1>2, <1>3, <1>4, <1>5, <1>6, Base DEF Good, Budgeted, Exists, Slack
<1>12. RunFollows(j)'
  BY <1>1, <1>2, <1>3, <1>4, <1>5, <1>6, Base DEF Good, RunFollows, Exists
<1> QED BY <1>7, <1>8, <1>9, <1>10, <1>11, <1>12 DEF Good

\* So every step of a worker keeps its run good.
LEMMA WorkerGood ==
    ASSUME Typed, NEW j \in JobIds, Good(j), WorkerStep(j)
    PROVE  Running(j) /\ Good(j)'
<1>1. CASE FindWorker(j)
  <2>1. CASE Return(j, "fatal") /\ past' = [past EXCEPT ![j].untold = TRUE]
    <3>1. [past[j] EXCEPT !.untold = TRUE] \in Pasts /\ past[j] \in Pasts
      BY DEF Typed, Pasts
    <3>2. /\ past' \in [JobIds -> Pasts] /\ past'[j] = [past[j] EXCEPT !.untold = TRUE]
          /\ \A i \in JobIds \ {j} : past'[i] = past[i]
      BY <2>1, <3>1 DEF Typed
    <3>3. Worker(j, "start") /\ Local(j) /\ UNCHANGED run
      BY <1>1, <2>1, <3>2, ReturnFacts DEF FindWorker, Local
    <3> QED BY <2>1, <3>2, <3>3, WorkerReturns
  <2>2. CASE Goto(j, "mark") /\ UNCHANGED past
    <3>1. Worker(j, "start") /\ Local(j) /\ UNCHANGED run
      BY <1>1, <2>2, GotoFacts DEF FindWorker, Local, WorkerPlaces
    <3> QED BY <2>2, <3>1, WorkerMovesOn DEF WorkerPlaces, WorkerMoves
  <2> QED BY <1>1, <2>1, <2>2 DEF FindWorker
<1>2. ASSUME NEW at \in WorkerPlaces, NEW to \in WorkerPlaces, Worker(j, at),
             <<at, to>> \in WorkerMoves, Goto(j, to), faults' \in {faults, faults + 1},
             UNCHANGED <<job, run, call, boot, mode, crashes, past>>
      PROVE  Running(j) /\ Good(j)'
  <2>1. Local(j)
    BY <1>2, GotoFacts DEF Local
  <2> QED BY <1>2, <2>1, WorkerMovesOn
<1>3. ASSUME NEW at \in {"start", "judge", "proof", "catch"}, Worker(j, at),
             NEW r \in {"ok", "retry", "fatal"}, Return(j, r), faults' \in {faults, faults + 1},
             UNCHANGED <<job, run, call, boot, mode, crashes, past>>
      PROVE  Running(j) /\ Good(j)'
  <2>1. Local(j) /\ past' \in [JobIds -> Pasts] /\ past'[j] = past[j]
    BY <1>3, ReturnFacts DEF Local, Typed
  <2> QED BY <1>3, <2>1, WorkerReturns
<1>4. CASE \/ MarkInProgress(j) \/ Prepare(j) \/ LeaveLoop(j) \/ Synthesize(j) \/ Accept(j)
  <2>1. CASE MarkInProgress(j)
    BY <1>2, <2>1 DEF MarkInProgress, TryTask, Throws, WorkerPlaces, WorkerMoves
  <2>2. CASE Accept(j)
    BY <1>2, <2>2 DEF Accept, TryTask, Throws, WorkerPlaces, WorkerMoves
  <2>3. CASE Prepare(j)
    BY <1>2, <2>3 DEF Prepare, WorkerPlaces, WorkerMoves
  <2>4. CASE LeaveLoop(j)
    BY <1>2, <2>4 DEF LeaveLoop, WorkerPlaces, WorkerMoves
  <2>5. CASE Synthesize(j)
    BY <1>2, <2>5 DEF Synthesize, WorkerPlaces, WorkerMoves
  <2> QED BY <1>4, <2>1, <2>2, <2>3, <2>4, <2>5
<1>5. CASE Answer(j)
  BY <1>2, <1>5, WorkerAsksForTool DEF Answer, WorkerPlaces, WorkerMoves
<1>6. CASE Judge(j)
  BY <1>2, <1>3, <1>6 DEF Judge, TryTask, Throws, WorkerPlaces, WorkerMoves
<1>7. CASE BuildProof(j)
  BY <1>2, <1>3, <1>7 DEF BuildProof, Throws, WorkerPlaces, WorkerMoves
<1>8. CASE Aborted(j) \/ Catch(j)
  BY <1>3, <1>8 DEF Aborted, Catch, TryTask, Throws
<1>9. CASE PreCheckpoint(j) \/ PostCheckpoint(j) \/ LastCheckpoint(j)
  <2>1. CASE PreCheckpoint(j)
    BY <2>1, WorkerCheckpoints DEF PreCheckpoint, WorkerPlaces
  <2>2. CASE PostCheckpoint(j)
    BY <2>2, WorkerCheckpoints DEF PostCheckpoint, WorkerPlaces
  <2>3. CASE LastCheckpoint(j)
    BY <2>3, WorkerCheckpoints DEF LastCheckpoint, WorkerPlaces
  <2> QED BY <1>9, <2>1, <2>2, <2>3
<1>10. CASE Close(j)
  <2>1. /\ ex' \in [JobIds -> Executors] /\ (\A i \in JobIds \ {j} : ex'[i] = ex[i])
        /\ ex'[j] = [ex[j] EXCEPT !.at = "finally"]
    BY <1>10, GotoFacts DEF Close, WorkerPlaces
  <2>2. ex'[j].at = "finally"
    BY <2>1, Base DEF Executors
  <2>3. PICK e \in {CompletedRun(run[j]), InterruptedRun(run[j])} : TryRun(j, e)
    BY <1>10 DEF Close, Ending
  <2>4. Worker(j, "close") /\ Forget(j) /\ UNCHANGED <<job, task, call, boot, mode, crashes>>
    BY <1>10 DEF Close
  <2> QED BY <2>1, <2>2, <2>3, <2>4, WorkerCloses
<1>11. CASE Thrown(j)
  <2> DEFINE x == [ex[j] EXCEPT !.at = "finally", !.threw = TRUE]
  <2>1. ex' = [ex EXCEPT ![j] = x] /\ x \in Executors /\ x.at = "finally"
    BY <1>11, Base, ZenonT(30) DEF Thrown, Executors, WorkerPlaces
  <2>2. /\ ex' \in [JobIds -> Executors] /\ (\A i \in JobIds \ {j} : ex'[i] = ex[i])
        /\ ex'[j].at = "finally"
    BY <2>1 DEF Typed
  <2>3. PICK e \in {FailedRun(run[j]), InterruptedRun(run[j])} : TryRun(j, e)
    BY <1>11 DEF Thrown, Ending
  <2>4. Worker(j, "thrown") /\ Forget(j) /\ UNCHANGED <<job, task, call, boot, mode, crashes>>
    BY <1>11 DEF Thrown
  <2> QED BY <2>2, <2>3, <2>4, WorkerCloses
<1>12. CASE ToolResults(j)
  <2>1. CASE Goto(j, "thrown")
    BY <1>2, <1>12, <2>1 DEF ToolResults, WorkerPlaces, WorkerMoves
  <2> QED BY <1>12, <2>1, WorkerTakesResults
<1> QED
  BY <1>1, <1>4, <1>5, <1>6, <1>7, <1>8, <1>9, <1>10, <1>11, <1>12, WorkerRestores, WorkerReclaims,
     WorkerIterates, WorkerRunsTools, WorkerFinally
  DEF WorkerStep, TaskStep, LoopStep, EndStep
-----------------------------------------------------------------------------
(* one goal *)

\* A goal executor somewhere in its code has its job and its run, runs no tool
\* and asks no model.
LEMMA GoalAt ==
    ASSUME Typed, NEW j \in JobIds, Good(j), NEW at \in GoalPlaces, Goal(j, at)
    PROVE  /\ Exists(j) /\ job[j].info = "goal" /\ ex[j].at = at /\ run[j] \in Runs
           /\ mode = "up" /\ job[j].attempts >= 1 /\ past[j].ran = {} /\ past[j].llm = 0
BY Base DEF Goal, At, Good, Placed, Busy, GoalPlaces

\* A goal executor that begins keeps its run good.
LEMMA GoalBegins ==
    ASSUME Typed, NEW j \in JobIds, Good(j), Begin(j)
    PROVE  Running(j) /\ Good(j)'
<1>1. /\ Exists(j) /\ job[j].info = "goal" /\ ex[j].at = "start" /\ run[j] \in Runs
      /\ mode = "up" /\ job[j].attempts >= 1
  BY GoalAt DEF Begin, GoalPlaces
<1>2. /\ ex' = [ex EXCEPT ![j] = [ex[j] EXCEPT !.at = "reclaim", !.attempts = run[j].goal_attempts]]
      /\ UNCHANGED <<job, run, task, call, boot, mode, crashes, faults, past>>
  BY DEF Begin
<1>3. /\ ex'[j].at = "reclaim" /\ ex'[j].attempts = run[j].goal_attempts /\ ex'[j] \in Executors
  <2> DEFINE x == [ex[j] EXCEPT !.at = "reclaim", !.attempts = run[j].goal_attempts]
  <2>1. ex[j] \in Executors /\ run[j].goal_attempts \in Nat
    BY <1>1, Base DEF Runs
  <2>2. x \in Executors /\ x.at = "reclaim" /\ x.attempts = run[j].goal_attempts
    BY <2>1 DEF Executors, GoalPlaces
  <2> QED BY <1>2, <2>2 DEF Typed
<1>4. Running(j)
  BY <1>2, <1>3 DEF Running, Local, Typed
<1>5. Placed(j)'
  BY <1>1, <1>2, <1>3, Base DEF Good, Placed, Exists, Busy, Owned, GoalPlaces
<1>6. Remembers(j)'
  BY <1>1, <1>2, <1>3, Base DEF Good, Remembers, Exists
<1>7. Rationed(j)'
  BY <1>1, <1>2, <1>3, Base DEF Good, Rationed, Exists, Slack
<1>8. Budgeted(j)'
  BY <1>1, <1>2, <1>3, Base DEF Good, Budgeted, Exists, Slack
<1>9. RunFollows(j)'
  BY <1>1, <1>2, <1>3, Base DEF Good, RunFollows, Exists
<1> QED BY <1>4, <1>5, <1>6, <1>7, <1>8, <1>9 DEF Good

\* So does one that takes its run over from an earlier boot.
LEMMA GoalReclaims ==
    ASSUME Typed, NEW j \in JobIds, Good(j), ReclaimGoal(j)
    PROVE  Running(j) /\ Good(j)'
<1>1. /\ Exists(j) /\ job[j].info = "goal" /\ ex[j].at = "reclaim" /\ run[j] \in Runs
      /\ mode = "up" /\ job[j].attempts >= 1
  BY GoalAt DEF ReclaimGoal, GoalPlaces
<1>2. /\ ex' \in [JobIds -> Executors] /\ (\A i \in JobIds \ {j} : ex'[i] = ex[i])
      /\ ex'[j].at = "check" /\ ex'[j].attempts = ex[j].attempts
  <2>1. /\ ex' \in [JobIds -> Executors] /\ (\A i \in JobIds \ {j} : ex'[i] = ex[i])
        /\ ex'[j] = [ex[j] EXCEPT !.at = "check"]
    BY GotoFacts DEF ReclaimGoal, GoalPlaces
  <2> QED BY <2>1, Base DEF Executors
<1> DEFINE r == ReclaimedRun(run[j], boot)
<1>3. /\ r \in Runs /\ r.status = "running" /\ r.boot = boot /\ r.turns = run[j].turns
      /\ r.goal_attempts = run[j].goal_attempts
  BY <1>1, Base, ReclaimFacts
<1>4. /\ run' \in [JobIds -> Runs \cup {NoRun}] /\ faults' \in Nat
      /\ \A i \in JobIds \ {j} : run'[i] = run[i]
      /\ \/ run'[j] = r /\ faults' = faults
         \/ run'[j] = run[j] /\ faults' = faults + 1
  <2>1. TryRun(j, r)
    BY DEF ReclaimGoal
  <2> QED BY <1>3, <2>1, TryRunFacts
<1>5. /\ UNCHANGED <<job, task, call, boot, mode, crashes>>
      /\ past'[j].ran = past[j].ran /\ past'[j].llm = past[j].llm /\ past'[j].cleared = past[j].cleared
      /\ past'[j].turns = past[j].turns /\ past' \in [JobIds -> Pasts]
      /\ \A i \in JobIds \ {j} : past'[i] = past[i]
  BY DEF ReclaimGoal, Typed, Pasts
<1>6. past[j].ran = {} /\ past[j].llm = 0
  BY <1>1 DEF Good, Placed
<1>7. Running(j)
  BY <1>2, <1>4, <1>5 DEF Running, Local, Typed
<1>8. Placed(j)'
  BY <1>1, <1>2, <1>3, <1>4, <1>5, <1>6, Base DEF Good, Placed, Exists, Busy, Owned, GoalPlaces, Untouched
<1>9. Remembers(j)'
  BY <1>1, <1>2, <1>3, <1>4, <1>5, <1>6, Base DEF Good, Remembers, Exists, Untouched
<1>10. Rationed(j)'
  BY <1>1, <1>2, <1>3, <1>4, <1>5, <1>6, Base DEF Good, Rationed, Exists, Slack, Untouched
<1>11. Budgeted(j)'
  BY <1>1, <1>2, <1>3, <1>4, <1>5, <1>6, Base DEF Good, Budgeted, Exists, Slack, Untouched
<1>12. RunFollows(j)'
  BY <1>1, <1>2, <1>3, <1>4, <1>5, <1>6, Base DEF Good, RunFollows, Exists, Untouched
<1> QED BY <1>7, <1>8, <1>9, <1>10, <1>11, <1>12 DEF Good

\* A goal ends, its run being closed or not.
LEMMA GoalReturns ==
    ASSUME Typed, NEW j \in JobIds, Good(j), NEW at \in {"check", "proof", "catch"}, Goal(j, at),
           NEW e \in {CompletedRun(run[j]), FailedRun(run[j]), InterruptedRun(run[j])},
           NEW r \in {"ok", "retry", "fatal"}, Return(j, r),
           UNCHANGED <<job, task, call, boot, mode, crashes, past>>,
           \/ TryRun(j, e)
           \/ at = "proof" /\ UNCHANGED <<run, faults>>
    PROVE  Running(j) /\ Good(j)'
<1>1. /\ Exists(j) /\ job[j].info = "goal" /\ ex[j].at = at /\ run[j] \in Runs
      /\ mode = "up" /\ job[j].attempts >= 1 /\ past[j].ran = {} /\ past[j].llm = 0
  BY GoalAt DEF GoalPlaces
<1>2. /\ ex' \in [JobIds -> Executors] /\ (\A i \in JobIds \ {j} : ex'[i] = ex[i])
      /\ ex'[j].at = "settle"
  BY ReturnFacts
<1>3. /\ e \in Runs /\ e.status \in {"completed", "failed", "interrupted"}
      /\ e.boot = run[j].boot /\ e.turns = run[j].turns /\ e.goal_attempts = run[j].goal_attempts
  BY <1>1, EndFacts
<1>4. /\ run' \in [JobIds -> Runs \cup {NoRun}] /\ faults' \in Nat
      /\ \A i \in JobIds \ {j} : run'[i] = run[i]
      /\ \/ run'[j] = e /\ faults' = faults
         \/ run'[j] = run[j] /\ faults' = faults + 1
         \/ run'[j] = run[j] /\ faults' = faults /\ at = "proof"
  <2>1. CASE TryRun(j, e)
    BY <1>3, <2>1, TryRunFacts
  <2>2. CASE at = "proof" /\ UNCHANGED <<run, faults>>
    BY <2>2 DEF Typed
  <2> QED BY <2>1, <2>2
<1>5. UNCHANGED <<job, task, call, boot, mode, crashes, past>>
  OBVIOUS
<1>6. Running(j)
  BY <1>2, <1>4 DEF Running, Local, Typed
<1>7. Placed(j)'
  BY <1>1, <1>2, <1>3, <1>4, <1>5, Base DEF Good, Placed, Exists, Busy, Owned, GoalPlaces
<1>8. Remembers(j)'
  BY <1>1, <1>2, <1>3, <1>4, <1>5, Base DEF Good, Remembers, Exists
<1>9. Rationed(j)'
  BY <1>1, <1>2, <1>3, <1>4, <1>5, Base DEF Good, Rationed, Exists, Slack
<1>10. Budgeted(j)'
  BY <1>1, <1>2, <1>3, <1>4, <1>5, Base DEF Good, Budgeted, Exists, Slack
<1>11. RunFollows(j)'
  BY <1>1, <1>2, <1>3, <1>4, <1>5, Base DEF Good, RunFollows, Exists
<1> QED BY <1>6, <1>7, <1>8, <1>9, <1>10, <1>11 DEF Good

\* Steps that only move the executor of a goal on, a write having failed or not.
GoalMoves ==
    {<<"check", "catch">>, <<"turn", "catch">>, <<"verify", "met">>, <<"verify", "check">>,
     <<"verify", "catch">>, <<"met", "catch">>, <<"proof", "catch">>}

\* One that goes on without a write.
LEMMA GoalMovesOn ==
    ASSUME Typed, NEW j \in JobIds, Good(j), NEW at \in GoalPlaces, NEW to \in GoalPlaces,
           Goal(j, at), <<at, to>> \in GoalMoves, Goto(j, to), faults' \in {faults, faults + 1},
           UNCHANGED <<job, run, task, call, boot, mode, crashes, past>>
    PROVE  Running(j) /\ Good(j)'
<1>1. /\ Exists(j) /\ job[j].info = "goal" /\ ex[j].at = at /\ run[j] \in Runs
      /\ mode = "up" /\ job[j].attempts >= 1 /\ past[j].ran = {} /\ past[j].llm = 0
  BY GoalAt
<1>2. /\ ex' \in [JobIds -> Executors] /\ (\A i \in JobIds \ {j} : ex'[i] = ex[i])
      /\ ex'[j].at = to /\ ex'[j].attempts = ex[j].attempts
  <2>1. /\ ex' \in [JobIds -> Executors] /\ (\A i \in JobIds \ {j} : ex'[i] = ex[i])
        /\ ex'[j] = [ex[j] EXCEPT !.at = to]
    BY GotoFacts DEF GoalPlaces
  <2> QED BY <2>1, Base DEF Executors
<1>3. UNCHANGED <<job, run, task, call, boot, mode, crashes, past>> /\ faults' \in {faults, faults + 1}
  OBVIOUS
<1>4. Running(j)
  BY <1>2, <1>3, Base DEF Running, Local, Typed
<1>5. Placed(j)'
  BY <1>1, <1>2, <1>3, Base DEF Good, Placed, Exists, Busy, Owned, GoalPlaces, GoalMoves
<1>6. Remembers(j)'
  BY <1>1, <1>2, <1>3, Base DEF Good, Remembers, Exists, GoalMoves
<1>7. Rationed(j)'
  BY <1>1, <1>2, <1>3, Base DEF Good, Rationed, Exists, Slack, GoalMoves
<1>8. Budgeted(j)'
  BY <1>1, <1>2, <1>3, Base DEF Good, Budgeted, Exists, Slack, GoalMoves
<1>9. RunFollows(j)'
  BY <1>1, <1>2, <1>3, Base DEF Good, RunFollows, Exists, GoalMoves
<1> QED BY <1>4, <1>5, <1>6, <1>7, <1>8, <1>9 DEF Good

\* One that starts a turn within its budget.
LEMMA GoalBeginsTurn ==
    ASSUME Typed, NEW j \in JobIds, Good(j), BeginTurn(j)
    PROVE  Running(j) /\ Good(j)'
<1>1. /\ Exists(j) /\ job[j].info = "goal" /\ ex[j].at = "check" /\ run[j] \in Runs
      /\ mode = "up" /\ job[j].attempts >= 1
  BY GoalAt DEF BeginTurn, GoalPlaces
<1>2. /\ ex' \in [JobIds -> Executors] /\ (\A i \in JobIds \ {j} : ex'[i] = ex[i])
      /\ ex'[j].at = "turn" /\ ex'[j].attempts = ex[j].attempts
  <2>1. /\ ex' \in [JobIds -> Executors] /\ (\A i \in JobIds \ {j} : ex'[i] = ex[i])
        /\ ex'[j] = [ex[j] EXCEPT !.at = "turn"]
    BY GotoFacts DEF BeginTurn, GoalPlaces
  <2> QED BY <2>1, Base DEF Executors
<1>3. /\ past'[j].ran = past[j].ran /\ past'[j].llm = past[j].llm /\ past'[j].cleared = past[j].cleared
      /\ past'[j].turns = past[j].turns + 1 /\ past'[j].owned = past[j].owned
      /\ past' \in [JobIds -> Pasts] /\ \A i \in JobIds \ {j} : past'[i] = past[i]
  <2> DEFINE x == [past[j] EXCEPT !.turns = past[j].turns + 1]
  <2>1. /\ x \in Pasts /\ x.ran = past[j].ran /\ x.llm = past[j].llm
        /\ x.cleared = past[j].cleared /\ x.owned = past[j].owned
        /\ x.turns = past[j].turns + 1
    BY Base DEF Pasts
  <2>2. past' = [past EXCEPT ![j] = x]
    BY DEF BeginTurn
  <2> QED BY <2>1, <2>2 DEF Typed
<1>4. UNCHANGED <<job, run, task, call, boot, mode, crashes, faults>>
  BY DEF BeginTurn
<1>5. ex[j].attempts < MaxGoalAttempts /\ run[j].turns < MaxTurns
  BY <1>1, Base DEF BeginTurn, Spent
<1>6. past[j].ran = {} /\ past[j].llm = 0
  BY <1>1 DEF Good, Placed
<1>7. Running(j)
  BY <1>2, <1>3, <1>4 DEF Running, Local, Typed
<1>8. Placed(j)'
  BY <1>1, <1>2, <1>3, <1>4, <1>5, <1>6, Base DEF Good, Placed, Exists, Busy, Owned, GoalPlaces, Untouched
<1>9. Remembers(j)'
  BY <1>1, <1>2, <1>3, <1>4, <1>5, <1>6, Base DEF Good, Remembers, Exists, Untouched
<1>10. Rationed(j)'
  BY <1>1, <1>2, <1>3, <1>4, <1>5, <1>6, Base DEF Good, Rationed, Exists, Slack, Untouched
<1>11. Budgeted(j)'
  BY <1>1, <1>2, <1>3, <1>4, <1>5, <1>6, Base DEF Good, Budgeted, Exists, Slack, Untouched
<1>12. RunFollows(j)'
  BY <1>1, <1>2, <1>3, <1>4, <1>5, <1>6, Base DEF Good, RunFollows, Exists, Untouched
<1> QED BY <1>7, <1>8, <1>9, <1>10, <1>11, <1>12 DEF Good

\* One whose turn ends.
LEMMA GoalEndsTurn ==
    ASSUME Typed, NEW j \in JobIds, Good(j), EndTurn(j)
    PROVE  Running(j) /\ Good(j)'
<1>1. /\ Exists(j) /\ job[j].info = "goal" /\ ex[j].at = "turn" /\ run[j] \in Runs
      /\ mode = "up" /\ job[j].attempts >= 1
  BY GoalAt DEF EndTurn, GoalPlaces
<1> SUFFICES ASSUME ~Goto(j, "catch") PROVE Running(j) /\ Good(j)'
  BY GoalMovesOn DEF EndTurn, GoalPlaces, GoalMoves
<1>2. /\ ex' = [ex EXCEPT ![j] = [ex[j] EXCEPT !.at = "bump", !.attempts = ex[j].attempts + 1]]
      /\ UNCHANGED <<job, run, task, call, boot, mode, crashes, faults, past>>
  BY DEF EndTurn
<1>3. ex'[j].at = "bump" /\ ex'[j].attempts = ex[j].attempts + 1 /\ ex'[j] \in Executors
  <2> DEFINE x == [ex[j] EXCEPT !.at = "bump", !.attempts = ex[j].attempts + 1]
  <2>1. ex[j] \in Executors /\ ex[j].attempts + 1 \in Nat
    BY Base
  <2>2. x \in Executors /\ x.at = "bump" /\ x.attempts = ex[j].attempts + 1
    BY <2>1 DEF Executors, GoalPlaces
  <2> QED BY <1>2, <2>2 DEF Typed
<1>4. past[j].ran = {} /\ past[j].llm = 0
  BY <1>1 DEF Good, Placed
<1>5. Running(j)
  BY <1>2, <1>3 DEF Running, Local, Typed
<1>6. Placed(j)'
  BY <1>1, <1>2, <1>3, <1>4, Base DEF Good, Placed, Exists, Busy, Owned, GoalPlaces
<1>7. Remembers(j)'
  BY <1>1, <1>2, <1>3, <1>4, Base DEF Good, Remembers, Exists
<1>8. Rationed(j)'
  BY <1>1, <1>2, <1>3, <1>4, Base DEF Good, Rationed, Exists, Slack
<1>9. Budgeted(j)'
  BY <1>1, <1>2, <1>3, <1>4, Base DEF Good, Budgeted, Exists, Slack
<1>10. RunFollows(j)'
  BY <1>1, <1>2, <1>3, <1>4, Base DEF Good, RunFollows, Exists
<1> QED BY <1>5, <1>6, <1>7, <1>8, <1>9, <1>10 DEF Good

\* One that counts the turn.
LEMMA GoalBumps ==
    ASSUME Typed, NEW j \in JobIds, Good(j), BumpTurn(j)
    PROVE  Running(j) /\ Good(j)'
<1>1. /\ Exists(j) /\ job[j].info = "goal" /\ ex[j].at = "bump" /\ run[j] \in Runs
      /\ mode = "up" /\ job[j].attempts >= 1
  BY GoalAt DEF BumpTurn, GoalPlaces
<1>2. /\ ex' \in [JobIds -> Executors] /\ (\A i \in JobIds \ {j} : ex'[i] = ex[i])
      /\ ex'[j].at = "count" /\ ex'[j].attempts = ex[j].attempts
  <2>1. /\ ex' \in [JobIds -> Executors] /\ (\A i \in JobIds \ {j} : ex'[i] = ex[i])
        /\ ex'[j] = [ex[j] EXCEPT !.at = "count"]
    BY GotoFacts DEF BumpTurn, GoalPlaces
  <2> QED BY <2>1, Base DEF Executors
<1> DEFINE r == Bumped(run[j])
<1>3. /\ r \in Runs /\ r.status = run[j].status /\ r.boot = run[j].boot
      /\ r.turns = run[j].turns + 1 /\ r.goal_attempts = run[j].goal_attempts
  BY <1>1, BumpFacts
<1>4. /\ run' \in [JobIds -> Runs \cup {NoRun}] /\ faults' \in Nat
      /\ \A i \in JobIds \ {j} : run'[i] = run[i]
      /\ \/ run'[j] = r /\ faults' = faults
         \/ run'[j] = run[j] /\ faults' = faults + 1
  <2>1. TryRun(j, r)
    BY DEF BumpTurn
  <2> QED BY <1>3, <2>1, TryRunFacts
<1>5. UNCHANGED <<job, task, call, boot, mode, crashes, past>>
  BY DEF BumpTurn
<1>6. past[j].ran = {} /\ past[j].llm = 0
  BY <1>1 DEF Good, Placed
<1>7. Running(j)
  BY <1>2, <1>4, <1>5 DEF Running, Local, Typed
<1>8. Placed(j)'
  BY <1>1, <1>2, <1>3, <1>4, <1>5, <1>6, Base DEF Good, Placed, Exists, Busy, Owned, GoalPlaces
<1>9. Remembers(j)'
  BY <1>1, <1>2, <1>3, <1>4, <1>5, <1>6, Base DEF Good, Remembers, Exists
<1>10. Rationed(j)'
  BY <1>1, <1>2, <1>3, <1>4, <1>5, <1>6, Base DEF Good, Rationed, Exists, Slack
<1>11. Budgeted(j)'
  BY <1>1, <1>2, <1>3, <1>4, <1>5, <1>6, Base DEF Good, Budgeted, Exists, Slack
<1>12. RunFollows(j)'
  BY <1>1, <1>2, <1>3, <1>4, <1>5, <1>6, Base DEF Good, RunFollows, Exists
<1> QED BY <1>7, <1>8, <1>9, <1>10, <1>11, <1>12 DEF Good

\* One that counts a failed verification.
LEMMA GoalCounts ==
    ASSUME Typed, NEW j \in JobIds, Good(j), CountAttempt(j)
    PROVE  Running(j) /\ Good(j)'
<1>1. /\ Exists(j) /\ job[j].info = "goal" /\ ex[j].at = "count" /\ run[j] \in Runs
      /\ mode = "up" /\ job[j].attempts >= 1
  BY GoalAt DEF CountAttempt, GoalPlaces
<1>2. /\ ex' \in [JobIds -> Executors] /\ (\A i \in JobIds \ {j} : ex'[i] = ex[i])
      /\ ex'[j].at = "verify" /\ ex'[j].attempts = ex[j].attempts
  <2>1. /\ ex' \in [JobIds -> Executors] /\ (\A i \in JobIds \ {j} : ex'[i] = ex[i])
        /\ ex'[j] = [ex[j] EXCEPT !.at = "verify"]
    BY GotoFacts DEF CountAttempt, GoalPlaces
  <2> QED BY <2>1, Base DEF Executors
<1> DEFINE r == [run[j] EXCEPT !.goal_attempts = ex[j].attempts]
<1>3. /\ r \in Runs /\ r.status = run[j].status /\ r.boot = run[j].boot
      /\ r.turns = run[j].turns /\ r.goal_attempts = ex[j].attempts
  BY <1>1, Base, CountFacts
<1>4. /\ run' \in [JobIds -> Runs \cup {NoRun}] /\ faults' \in Nat
      /\ \A i \in JobIds \ {j} : run'[i] = run[i]
      /\ \/ run'[j] = r /\ faults' = faults
         \/ run'[j] = run[j] /\ faults' = faults + 1
  <2>1. TryRun(j, r)
    BY DEF CountAttempt
  <2> QED BY <1>3, <2>1, TryRunFacts
<1>5. UNCHANGED <<job, task, call, boot, mode, crashes, past>>
  BY DEF CountAttempt
<1>6. past[j].ran = {} /\ past[j].llm = 0
  BY <1>1 DEF Good, Placed
<1>7. Running(j)
  BY <1>2, <1>4, <1>5 DEF Running, Local, Typed
<1>8. Placed(j)'
  BY <1>1, <1>2, <1>3, <1>4, <1>5, <1>6, Base DEF Good, Placed, Exists, Busy, Owned, GoalPlaces
<1>9. Remembers(j)'
  BY <1>1, <1>2, <1>3, <1>4, <1>5, <1>6, Base DEF Good, Remembers, Exists
<1>10. Rationed(j)'
  BY <1>1, <1>2, <1>3, <1>4, <1>5, <1>6, Base DEF Good, Rationed, Exists, Slack
<1>11. Budgeted(j)'
  <2>1. /\ Slack(j) \in Nat /\ past'[j].turns = past[j].turns /\ past[j].turns \in Nat
        /\ ex[j].attempts \in Nat /\ run[j].turns \in Nat /\ run[j].goal_attempts \in Nat
    BY <1>1, <1>5, Base DEF Slack, Exists
  <2>2. /\ past[j].turns > 0 => /\ past[j].turns + 1 <= MaxGoalAttempts + Slack(j)
                                /\ past[j].turns + 1 <= MaxTurns + Slack(j)
        /\ past[j].turns <= run[j].goal_attempts + Slack(j)
        /\ past[j].turns + 1 <= ex[j].attempts + Slack(j)
        /\ past[j].turns + 1 <= run[j].turns + Slack(j)
    BY <1>1, <2>1 DEF Good, Budgeted
  <2>3. /\ run'[j].turns = run[j].turns
        /\ \/ run'[j].goal_attempts = ex[j].attempts /\ Slack(j)' = Slack(j)
           \/ run'[j].goal_attempts = run[j].goal_attempts /\ Slack(j)' = Slack(j) + 1
    <3>1. Slack(j)' = faults' + job[j].attempts /\ Slack(j) = faults + job[j].attempts
      BY <1>5 DEF Slack
    <3>2. faults \in Nat /\ job[j].attempts \in Nat
      BY <1>1, Base DEF Exists
    <3>3. CASE run'[j] = r /\ faults' = faults
      BY <1>3, <3>1, <3>2, <3>3
    <3>4. CASE run'[j] = run[j] /\ faults' = faults + 1
      BY <3>1, <3>2, <3>4
    <3> QED BY <1>4, <3>3, <3>4
  <2> QED BY <1>1, <1>2, <1>5, <2>1, <2>2, <2>3, Base DEF Budgeted, Exists
<1>12. RunFollows(j)'
  BY <1>1, <1>2, <1>3, <1>4, <1>5, <1>6, Base DEF Good, RunFollows, Exists
<1> QED BY <1>7, <1>8, <1>9, <1>10, <1>11, <1>12 DEF Good

\* One that completes the run.
LEMMA GoalCompletes ==
    ASSUME Typed, NEW j \in JobIds, Good(j), CompleteGoal(j), Goto(j, "proof"),
           run' = [run EXCEPT ![j] = CompletedRun(@)], UNCHANGED faults
    PROVE  Running(j) /\ Good(j)'
<1>1. /\ Exists(j) /\ job[j].info = "goal" /\ ex[j].at = "met" /\ run[j] \in Runs
      /\ mode = "up" /\ job[j].attempts >= 1
  BY GoalAt DEF CompleteGoal, GoalPlaces
<1>2. /\ ex' \in [JobIds -> Executors] /\ (\A i \in JobIds \ {j} : ex'[i] = ex[i])
      /\ ex'[j].at = "proof" /\ ex'[j].attempts = ex[j].attempts
  <2>1. /\ ex' \in [JobIds -> Executors] /\ (\A i \in JobIds \ {j} : ex'[i] = ex[i])
        /\ ex'[j] = [ex[j] EXCEPT !.at = "proof"]
    BY GotoFacts DEF CompleteGoal, GoalPlaces
  <2> QED BY <2>1, Base DEF Executors
<1> DEFINE r == CompletedRun(run[j])
<1>3. /\ r \in Runs /\ r.status = "completed" /\ r.turns = run[j].turns
      /\ r.goal_attempts = run[j].goal_attempts /\ r.boot = run[j].boot
  BY <1>1, CompleteFacts
<1>4. run' = [run EXCEPT ![j] = r] /\ UNCHANGED <<job, task, call, boot, mode, crashes, past, faults>>
  BY DEF CompleteGoal
<1>5. run'[j] = r
  BY <1>4 DEF Typed
<1>6. past[j].ran = {} /\ past[j].llm = 0
  BY <1>1 DEF Good, Placed
<1>7. Running(j)
  BY <1>2, <1>3, <1>4 DEF Running, Local, Typed
<1>8. Placed(j)'
  BY <1>1, <1>2, <1>3, <1>4, <1>5, <1>6, Base DEF Good, Placed, Exists, Busy, Owned, GoalPlaces
<1>9. Remembers(j)'
  BY <1>1, <1>2, <1>3, <1>4, <1>5, <1>6, Base DEF Good, Remembers, Exists
<1>10. Rationed(j)'
  BY <1>1, <1>2, <1>3, <1>4, <1>5, <1>6, Base DEF Good, Rationed, Exists, Slack
<1>11. Budgeted(j)'
  BY <1>1, <1>2, <1>3, <1>4, <1>5, <1>6, Base DEF Good, Budgeted, Exists, Slack
<1>12. RunFollows(j)'
  BY <1>1, <1>2, <1>3, <1>4, <1>5, <1>6, Base DEF Good, RunFollows, Exists
<1> QED BY <1>7, <1>8, <1>9, <1>10, <1>11, <1>12 DEF Good

\* So every step of a goal executor keeps its run good.
LEMMA GoalGood ==
    ASSUME Typed, NEW j \in JobIds, Good(j), GoalStep(j)
    PROVE  Running(j) /\ Good(j)'
<1>1. CASE GoalAborted(j)
  BY <1>1, GoalReturns DEF GoalAborted
<1>2. CASE CatchGoal(j)
  BY <1>2, GoalReturns DEF CatchGoal
<1>3. CASE GiveUp(j)
  <2>1. CASE Return(j, "fatal")
    <3>1. TryRun(j, FailedRun(run[j]))
      BY <1>3, <2>1 DEF GiveUp, TryRun
    <3> QED BY <1>3, <2>1, <3>1, GoalReturns DEF GiveUp
  <2>2. CASE Throws /\ Goto(j, "catch") /\ UNCHANGED run
    BY <1>3, <2>2, GoalMovesOn DEF GiveUp, Throws, GoalPlaces, GoalMoves
  <2> QED BY <1>3, <2>1, <2>2 DEF GiveUp
<1>4. CASE Verify(j)
  BY <1>4, GoalMovesOn DEF Verify, GoalPlaces, GoalMoves
<1>5. CASE ProveGoal(j)
  BY <1>5, GoalMovesOn, GoalReturns DEF ProveGoal, Throws, GoalPlaces, GoalMoves
<1>6. CASE CompleteGoal(j)
  <2>1. CASE Throws /\ Goto(j, "catch") /\ UNCHANGED run
    BY <1>6, <2>1, GoalMovesOn DEF CompleteGoal, Throws, GoalPlaces, GoalMoves
  <2>2. CASE run' = [run EXCEPT ![j] = CompletedRun(@)] /\ Goto(j, "proof") /\ UNCHANGED faults
    BY <1>6, <2>2, GoalCompletes
  <2> QED BY <1>6, <2>1, <2>2 DEF CompleteGoal
<1> QED
  BY <1>1, <1>2, <1>3, <1>4, <1>5, <1>6, GoalBegins, GoalReclaims, GoalBeginsTurn, GoalEndsTurn,
     GoalBumps, GoalCounts
  DEF GoalStep
-----------------------------------------------------------------------------
(* the callers, the queue and the boot *)

\* A call works on a job that is not there yet, or just is.
Calling ==
    call.at # "idle" =>
        /\ mode = "up" /\ call.job \in JobIds
        /\ call.at \in {"run", "enqueue"} => ~Exists(call.job)
        /\ call.at = "enqueue" => run[call.job] # NoRun
        /\ call.at = "link" => Exists(call.job)

\* A job row that gets another status without an owner keeps its kind and its
\* counts.
LEMMA ReleasedFacts ==
    ASSUME NEW d \in Docs, NEW s \in Statuses
    PROVE  /\ Released(d, s) \in Docs /\ Released(d, s).status = s
           /\ Released(d, s).info = d.info /\ Released(d, s).attempts = d.attempts
           /\ Released(d, s).retry = d.retry
BY JobDocAssumption DEF Released, Docs

\* A claimed job is running under this boot and has one more start.
LEMMA ClaimedFacts ==
    ASSUME NEW d \in Docs, NEW b \in Boots
    PROVE  /\ Claimed(d, b) \in Docs /\ Claimed(d, b).status = "running" /\ Claimed(d, b).boot = b
           /\ Claimed(d, b).info = d.info /\ Claimed(d, b).attempts = d.attempts + 1
<1>1. d.attempts \in Nat /\ d.attempts + 1 \in Nat
  BY DEF Docs
<1> QED BY <1>1 DEF Claimed, Docs, Statuses

\* A job that becomes due changes in nothing else.
LEMMA DueFacts ==
    ASSUME NEW d \in Docs
    PROVE  LET e == [d EXCEPT !.due = TRUE] IN
           /\ e \in Docs /\ e.info = d.info /\ e.attempts = d.attempts
           /\ e.status = d.status /\ e.boot = d.boot
BY DEF Docs

\* How a job may end, or go back to the queue.
LEMMA SettledFacts ==
    ASSUME NEW d \in Docs, NEW e \in {Completed(d), Failed(d), FailedOrRetried(d), Cancelled(d), Reclaimed(d)}
    PROVE  e \in Docs /\ e.info = d.info /\ e.attempts = d.attempts
<1>1. d.retry \in Nat /\ d.retry + 1 \in Nat
  BY DEF Docs
<1>2. \A s \in Statuses : /\ Released(d, s) \in Docs /\ Released(d, s).info = d.info
                          /\ Released(d, s).attempts = d.attempts /\ Released(d, s).retry = d.retry
  BY ReleasedFacts
<1>3. CASE e = [Released(d, "pending") EXCEPT !.retry = @ + 1, !.due = FALSE]
  <2> DEFINE r == Released(d, "pending")
  <2>1. r.info = d.info /\ r.retry + 1 \in Nat /\ r.attempts = d.attempts /\ r \in Docs
    BY <1>1, <1>2 DEF Statuses
  <2> HIDE DEF r
  <2>2. e = [r EXCEPT !.retry = r.retry + 1, !.due = FALSE]
    BY <1>3 DEF r
  <2> QED BY <2>1, <2>2 DEF Docs
<1> QED BY <1>2, <1>3 DEF Completed, Failed, FailedOrRetried, Cancelled, Reclaimed, Statuses

\* A job that is settled or cancelled, as far as its run is concerned.
LEMMA JobChanges ==
    ASSUME Typed, NEW j \in JobIds, Good(j), Exists(j), NEW d \in Docs, job' = [job EXCEPT ![j] = d],
           d.info = job[j].info, d.attempts = job[j].attempts, run' = run, mode' = mode, boot' = boot,
           faults' = faults,
           \/ ex'[j].at = "idle" /\ ex[j].at \in {"idle", "settle"}
           \/ /\ ex'[j].at = ex[j].at /\ ex'[j].known = ex[j].known /\ ex'[j].calling = ex[j].calling
              /\ ex'[j].iterations = ex[j].iterations /\ ex'[j].attempts = ex[j].attempts
              /\ Busy(j) => Owned(d, boot) \/ d.status = "cancelled",
           past'[j].ran = past[j].ran /\ past'[j].llm = past[j].llm /\ past'[j].cleared = past[j].cleared
           /\ past'[j].turns = past[j].turns /\ past'[j].owned = past[j].owned
    PROVE  Good(j)'
<1> SUFFICES Good(j)'
  OBVIOUS
<1>1. job'[j] = d /\ d # NoJob /\ Exists(j)' /\ job[j].attempts \in Nat
  BY Base, JobDocAssumption DEF Typed, Exists
<1>2. Good(j)'
  <2>1. Placed(j)'
    BY <1>1, Base DEF Good, Placed, Exists, Busy, Owned, Untouched
  <2>2. Remembers(j)'
    BY <1>1, Base DEF Good, Remembers, Exists
  <2>3. Rationed(j)'
    BY <1>1, Base DEF Good, Rationed, Exists, Slack
  <2>4. Budgeted(j)'
    BY <1>1, Base DEF Good, Budgeted, Exists, Slack
  <2>5. RunFollows(j)'
    BY <1>1, Base DEF Good, RunFollows, Exists
  <2> QED BY <2>1, <2>2, <2>3, <2>4, <2>5 DEF Good
<1> QED BY <1>2

AllGood == \A j \in JobIds : Good(j)
Shape == Typed /\ Calling /\ AllGood

\* Neither the process nor its boot changes; a write may fail.
Calm == boot' = boot /\ mode' = mode /\ faults' \in {faults, faults + 1}

\* A job that a step spares stays good.
LEMMA Spared ==
    ASSUME Typed, AllGood, NEW i \in JobIds, Kept(i), Calm
    PROVE  Good(i)'
<1>1. Good(i) /\ boot' = boot /\ faults' \in {faults, faults + 1}
  BY DEF AllGood, Calm
<1>2. mode' = mode \/ (mode = "tasks" /\ mode' = "up")
  BY DEF Calm
<1> QED BY <1>1, <1>2, NotConcerned

\* The empty executor, call, task and past are well formed.
LEMMA IdleFacts == Idle \in Executors /\ NoCall \in CallRows /\ NoTask \in TaskRows /\ NoPast \in Pasts
BY HarnessHostAssumption
DEF Idle, Executors, NoCall, CallRows, NoTask, TaskRows, NoPast, Pasts

\* Steps of a caller before there is a job.
LEMMA CallersGood ==
    ASSUME Shape, Delegate \/ StartGoal \/ Revise
    PROVE  Shape'
<1>1. /\ UNCHANGED <<job, run, ex, boot, mode, crashes, faults, past>>
      /\ mode = "up" /\ task' \in TaskRows
  BY IdleFacts DEF Shape, Typed, Delegate, StartGoal, Revise, TaskRows, NoTask
<1>2. PICK i \in JobIds : ~Exists(i) /\ call'.at = "run" /\ call'.job = i /\ call' \in CallRows
  <2>1. CASE Delegate \/ StartGoal
    BY <2>1, HarnessHostAssumption, IdleFacts DEF Delegate, StartGoal, NoCall, CallRows
  <2>2. CASE Revise
    <3>1. task.attempts \in Nat
      BY DEF Shape, Typed, TaskRows
    <3> QED BY <2>2, <3>1, HarnessHostAssumption DEF Revise, NoCall, CallRows
  <2> QED BY <2>1, <2>2
<1>3. AllGood'
  <2> SUFFICES ASSUME NEW j \in JobIds PROVE Good(j)'
    BY DEF AllGood
  <2>1. Kept(j) /\ Calm
    BY <1>1 DEF Kept, Calm
  <2> QED BY <2>1, Spared DEF Shape
<1>4. Calling'
  BY <1>1, <1>2 DEF Calling, Exists
<1> QED BY <1>1, <1>2, <1>3, <1>4 DEF Shape, Typed

\* startAgentRun writes the row of a job not yet enqueued.
LEMMA CreateRunGood == Shape /\ CreateRun => Shape'
<1> SUFFICES ASSUME Shape, CreateRun PROVE Shape'
  OBVIOUS
<1>0. Typed /\ AllGood
  BY DEF Shape
<1>1. PICK j \in JobIds : j = call.job
  BY DEF Shape, Calling, CreateRun
<1>2. ~Exists(j) /\ mode = "up" /\ Good(j)
  BY <1>1 DEF Shape, Calling, CreateRun, AllGood
<1>3. UNCHANGED <<job, task, ex, boot, mode, crashes, past>>
  BY DEF CreateRun
<1>4. PICK r : r = NewRun(boot)
  OBVIOUS
<1>5. \/ run' = [run EXCEPT ![j] = r] /\ call' = [call EXCEPT !.at = "enqueue"] /\ UNCHANGED faults
      \/ faults' = faults + 1 /\ call' = NoCall /\ UNCHANGED run
  BY <1>1, <1>4 DEF CreateRun, Throws
<1>6. r \in Runs /\ r # NoRun /\ r.state = NoState /\ r.boot = boot /\ Known(r) = {} /\ Iterations(r) = 0
  <2>1. boot \in Nat
    BY <1>0, HarnessHostAssumption DEF Typed
  <2>2. r \in Runs /\ r.state = NoState /\ r.boot = boot
    BY <1>4, <2>1 DEF NewRun, Runs, RunStatuses
  <2> QED BY <2>2, RestoreFacts, HarnessHostAssumption
<1>7. Typed'
  <2>1. call' \in CallRows
    BY <1>0, <1>5, IdleFacts DEF Typed, CallRows
  <2>2. run' \in [JobIds -> Runs \cup {NoRun}] /\ faults' \in Nat
    BY <1>0, <1>5, <1>6 DEF Typed
  <2> QED BY <1>0, <1>3, <2>1, <2>2 DEF Typed
<1>8. Calling'
  <2>1. CASE call' = NoCall
    BY <2>1 DEF Calling, NoCall
  <2>2. CASE run' = [run EXCEPT ![j] = r] /\ call' = [call EXCEPT !.at = "enqueue"]
    <3>1. call'.at = "enqueue" /\ call'.job = j
      BY <1>0, <1>1, <2>2 DEF Typed, CallRows
    <3>2. run'[j] # NoRun
      BY <1>0, <1>6, <2>2 DEF Typed
    <3> QED BY <1>2, <1>3, <3>1, <3>2 DEF Calling, Exists
  <2> QED BY <1>5, <2>1, <2>2
<1>9. ASSUME NEW i \in JobIds, i # j \/ UNCHANGED run
      PROVE  Good(i)'
  <2>1. Kept(i)
    BY <1>0, <1>3, <1>5, <1>9 DEF Kept, Typed
  <2>2. Calm
    BY <1>3, <1>5 DEF Calm
  <2> QED BY <1>0, <2>1, <2>2, Spared
<1>10. ASSUME run' = [run EXCEPT ![j] = r], UNCHANGED faults
       PROVE  Good(j)'
  <2>1. run'[j] = r /\ UNCHANGED <<job, ex, boot, mode, faults, past>>
    BY <1>0, <1>3, <1>10 DEF Typed
  <2>2. /\ past[j].ran = {} /\ ~past[j].owned /\ past[j].llm = 0 /\ past[j].turns = 0
        /\ job[j] = NoJob /\ ex[j].at = "idle" /\ boot \in Nat
    BY <1>0, <1>2, Base DEF Good, Placed, Untouched, Exists, Busy
  <2>3. Placed(j)'
    BY <1>2, <1>6, <2>1, <2>2 DEF Good, Placed, Exists, Busy, Owned, Untouched
  <2>4. Remembers(j)'
    BY <1>2, <1>6, <2>1, <2>2 DEF Good, Remembers, Exists
  <2>5. Rationed(j)'
    BY <1>2, <1>6, <2>1, <2>2 DEF Good, Rationed, Exists, Slack
  <2>6. Budgeted(j)'
    BY <1>2, <1>6, <2>1, <2>2 DEF Good, Budgeted, Exists, Slack
  <2>7. RunFollows(j)'
    BY <1>2, <1>6, <2>1, <2>2 DEF Good, RunFollows, Exists
  <2> QED BY <2>3, <2>4, <2>5, <2>6, <2>7 DEF Good
<1>11. AllGood'
  BY <1>5, <1>9, <1>10 DEF AllGood
<1> QED BY <1>7, <1>8, <1>11 DEF Shape

\* The enqueue makes the job of a call that has its run, or finds the one
\* already there.
LEMMA EnqueueGood == Shape /\ Enqueue => Shape'
<1> SUFFICES ASSUME Shape, Enqueue PROVE Shape'
  OBVIOUS
<1>0. Typed /\ AllGood
  BY DEF Shape
<1>1. PICK j \in JobIds : j = call.job
  BY DEF Shape, Calling, Enqueue
<1>2. ~Exists(j) /\ mode = "up" /\ run[j] # NoRun /\ Good(j)
  BY <1>1 DEF Shape, Calling, Enqueue, AllGood
<1>3. PICK d : d = NewDoc(call.kind, TRUE)
  OBVIOUS
<1>4. /\ UNCHANGED <<run, task, ex, boot, mode, crashes, faults, past>>
      /\ job' = [job EXCEPT ![j] = d]
      /\ call' = NoCall \/ call' = [call EXCEPT !.at = "link"]
  BY <1>1, <1>3 DEF Enqueue
<1>5. d \in Docs /\ d # NoJob /\ d.attempts = 0 /\ d.status = "pending"
  <2>1. call.kind \in Infos
    BY <1>0 DEF Typed, CallRows
  <2>2. d.attempts = 0 /\ d.status = "pending"
    BY <1>3 DEF NewDoc
  <2>3. d \in Docs
    BY <1>3, <2>1 DEF NewDoc, Docs, Statuses
  <2> QED BY <2>2, <2>3, JobDocAssumption
<1>6. job'[j] = d /\ (\A i \in JobIds \ {j} : job'[i] = job[i]) /\ job' \in [JobIds -> Docs \cup {NoJob}]
  BY <1>0, <1>4, <1>5 DEF Typed
<1>7. Typed'
  <2>1. call' \in CallRows
    BY <1>0, <1>4, IdleFacts DEF Typed, CallRows
  <2> QED BY <1>0, <1>4, <1>6, <2>1 DEF Typed
<1>8. Calling'
  <2>1. call'.at = "idle" \/ (call'.at = "link" /\ call'.job = j)
    <3>1. CASE call' = NoCall
      BY <3>1 DEF NoCall
    <3>2. CASE call' = [call EXCEPT !.at = "link"]
      <4>1. call \in CallRows
        BY <1>0 DEF Typed
      <4> QED BY <1>1, <3>2, <4>1 DEF CallRows
    <3> QED BY <1>4, <3>1, <3>2
  <2> QED BY <1>2, <1>4, <1>5, <1>6, <2>1 DEF Calling, Exists
<1>9. ASSUME NEW i \in JobIds \ {j} PROVE Good(i)'
  <2>1. Kept(i) /\ Calm
    BY <1>0, <1>4, <1>6 DEF Kept, Calm
  <2> QED BY <1>0, <2>1, Spared
<1>10. Good(j)'
  <2>1. /\ Iterations(run[j]) = 0 /\ past[j].ran = {} /\ past[j].llm = 0 /\ past[j].turns = 0
        /\ ~past[j].owned /\ ex[j].at = "idle" /\ ex'[j].at = "idle"
    BY <1>0, <1>2, <1>4, Base, RestoreFacts DEF Good, Placed, Untouched, Busy
  <2>2. job'[j] = d /\ Exists(j)' /\ UNCHANGED <<run, boot, mode, faults, past>>
    BY <1>4, <1>5, <1>6 DEF Exists
  <2>3. Slack(j)' = faults /\ faults \in Nat /\ Iterations(run[j])' = 0
    BY <1>0, <1>5, <2>1, <2>2, Base DEF Slack
  <2>4. Placed(j)'
    BY <1>0, <1>2, <1>5, <2>1, <2>2, <2>3, Base DEF Good, Placed, Busy, Owned, Untouched
  <2>5. Remembers(j)'
    BY <1>0, <1>2, <1>5, <2>1, <2>2, <2>3, Base DEF Good, Remembers
  <2>6. Rationed(j)'
    BY <1>0, <1>2, <1>5, <2>1, <2>2, <2>3, Base DEF Good, Rationed
  <2>7. Budgeted(j)'
    BY <1>0, <1>2, <1>5, <2>1, <2>2, <2>3, Base DEF Good, Budgeted
  <2>8. RunFollows(j)'
    BY <1>0, <1>2, <1>5, <2>1, <2>2, <2>3, Base DEF Good, RunFollows
  <2> QED BY <2>4, <2>5, <2>6, <2>7, <2>8 DEF Good
<1>11. AllGood'
  BY <1>9, <1>10 DEF AllGood
<1> QED BY <1>7, <1>8, <1>11 DEF Shape

\* The link of the task to its job changes no run.
LEMMA LinkGood == Shape /\ Link => Shape'
<1> SUFFICES ASSUME Shape, Link PROVE Shape'
  OBVIOUS
<1>0. Typed /\ AllGood
  BY DEF Shape
<1>1. PICK j \in JobIds : j = call.job
  BY DEF Shape, Calling, Link
<1>2. PICK b \in BOOLEAN : past' = [past EXCEPT ![j] = [past[j] EXCEPT !.untold = b]]
  <2>1. past[j].untold \in BOOLEAN /\ call.revises \in BOOLEAN
    BY <1>0 DEF Typed, Pasts, CallRows
  <2>2. past' = [past EXCEPT ![j] = [past[j] EXCEPT !.untold = past[j].untold \/ (call.revises /\ job[j].attempts > 0)]]
    BY <1>1 DEF Link
  <2> QED BY <2>1, <2>2
<1>3. UNCHANGED <<job, run, ex, boot, mode, crashes>> /\ call' = NoCall /\ TryTask(Linked)
  BY DEF Link
<1>4. Linked \in TaskRows
  <2>1. task \in TaskRows /\ call.attempts + 1 \in Nat /\ call.job \in JobIds
    BY <1>0, <1>1 DEF Typed, CallRows
  <2> QED BY <2>1 DEF Linked, TaskRows
<1>5. faults' \in {faults, faults + 1} /\ task' \in TaskRows /\ faults' \in Nat
  BY <1>0, <1>3, <1>4, TryTaskFacts
<1>6. past' \in [JobIds -> Pasts]
  BY <1>0, <1>2 DEF Typed, Pasts
<1>7. ASSUME NEW i \in JobIds PROVE Good(i)'
  <2>1. past[i] \in Pasts /\ past'[i] \in {past[i], [past[i] EXCEPT !.untold = b]}
    BY <1>0, <1>2 DEF Typed
  <2>2. Kept(i)
    BY <1>3, <2>1 DEF Kept, Pasts
  <2>3. Calm
    BY <1>3, <1>5 DEF Calm
  <2> QED BY <1>0, <2>2, <2>3, Spared
<1>8. Typed'
  BY <1>0, <1>3, <1>5, <1>6, IdleFacts DEF Typed
<1> QED BY <1>3, <1>7, <1>8 DEF Shape, Calling, NoCall, AllGood

\* A call waits for a step that neither creates nor removes a job or a run.
LEMMA CallWaits ==
    ASSUME Calling, call' = call, mode' = mode,
           \A i \in JobIds : (Exists(i)' <=> Exists(i)) /\ (run[i] # NoRun => run'[i] # NoRun)
    PROVE  Calling'
BY DEF Calling

\* What happened to run i stays as it was, apart from what its task is told.
SamePast(i) ==
    /\ past'[i].ran = past[i].ran /\ past'[i].llm = past[i].llm /\ past'[i].cleared = past[i].cleared
    /\ past'[i].turns = past[i].turns /\ past'[i].owned = past[i].owned

SameWork(j) ==
    /\ ex'[j].at = ex[j].at /\ ex'[j].known = ex[j].known /\ ex'[j].calling = ex[j].calling
    /\ ex'[j].iterations = ex[j].iterations /\ ex'[j].attempts = ex[j].attempts

\* The row of one job is rewritten, whether its executor ends or stays.
LEMMA OneJobChanges ==
    ASSUME Shape, NEW j \in JobIds, Exists(j), NEW d \in Docs, job' = [job EXCEPT ![j] = d],
           d.info = job[j].info /\ d.attempts = job[j].attempts,
           UNCHANGED <<run, task, call, boot, mode, crashes, faults>>,
           ex' \in [JobIds -> Executors], past' \in [JobIds -> Pasts],
           \A i \in JobIds : SamePast(i), \A i \in JobIds \ {j} : ex'[i] = ex[i],
           \/ ex'[j].at = "idle" /\ ex[j].at \in {"idle", "settle"}
           \/ SameWork(j) /\ (Busy(j) => Owned(d, boot) \/ d.status = "cancelled")
    PROVE  Shape'
<1>0. Typed /\ AllGood /\ Calling /\ Good(j)
  BY DEF Shape, AllGood
<1>1. /\ job' \in [JobIds -> Docs \cup {NoJob}] /\ job'[j] = d /\ d # NoJob
      /\ \A i \in JobIds \ {j} : job'[i] = job[i]
  BY <1>0, JobDocAssumption DEF Typed
<1>2. Typed'
  BY <1>0, <1>1 DEF Typed
<1>3. Calling'
  <2>1. \A i \in JobIds : (Exists(i)' <=> Exists(i)) /\ (run[i] # NoRun => run'[i] # NoRun)
    BY <1>1 DEF Exists
  <2> QED BY <1>0, <2>1, CallWaits
<1>4. ASSUME NEW i \in JobIds \ {j} PROVE Good(i)'
  <2>1. Kept(i) /\ Calm
    BY <1>1 DEF Kept, Calm, SamePast
  <2> QED BY <1>0, <2>1, Spared
<1>5. Good(j)'
  <2>1. \/ ex'[j].at = "idle" /\ ex[j].at \in {"idle", "settle"}
        \/ /\ ex'[j].at = ex[j].at /\ ex'[j].known = ex[j].known /\ ex'[j].calling = ex[j].calling
           /\ ex'[j].iterations = ex[j].iterations /\ ex'[j].attempts = ex[j].attempts
           /\ Busy(j) => Owned(d, boot) \/ d.status = "cancelled"
    BY DEF SameWork
  <2>2. past'[j].ran = past[j].ran /\ past'[j].llm = past[j].llm /\ past'[j].cleared = past[j].cleared
        /\ past'[j].turns = past[j].turns /\ past'[j].owned = past[j].owned
    BY DEF SamePast
  <2> QED BY <1>0, <2>1, <2>2, JobChanges
<1> QED BY <1>2, <1>3, <1>4, <1>5 DEF Shape, AllGood

\* A job that becomes due disturbs no run.
LEMMA BecomeDueGood ==
    ASSUME Shape, NEW j \in JobIds, BecomeDue(j)
    PROVE  Shape'
<1>0. Typed /\ Exists(j) /\ AllGood
  BY DEF Shape, BecomeDue
<1>1. PICK d : d = [job[j] EXCEPT !.due = TRUE]
  OBVIOUS
<1>2. job[j] \in Docs /\ job[j].status = "pending"
  BY <1>0, Base DEF BecomeDue
<1>3. d \in Docs /\ d.info = job[j].info /\ d.attempts = job[j].attempts
  BY <1>1, <1>2, DueFacts
<1>4. UNCHANGED <<run, task, ex, call, boot, mode, crashes, faults, past>> /\ job' = [job EXCEPT ![j] = d]
  BY <1>1 DEF BecomeDue
<1>5. (\A i \in JobIds : SamePast(i)) /\ SameWork(j)
  BY <1>4 DEF SamePast, SameWork
<1>6. Busy(j) => Owned(d, boot) \/ d.status = "cancelled"
  BY <1>0, <1>2 DEF AllGood, Good, Placed, Owned
<1>7. ex' \in [JobIds -> Executors] /\ past' \in [JobIds -> Pasts] /\ (\A i \in JobIds \ {j} : ex'[i] = ex[i])
  BY <1>0, <1>4 DEF Typed
<1> QED BY <1>0, <1>3, <1>4, <1>5, <1>6, <1>7, OneJobChanges

\* An executor that has returned, returned something.
Returned == \A j \in JobIds : ex[j].at = "settle" => ex[j].result \in {"ok", "retry", "fatal"}

\* A settled job leaves its slot, with its run released or to be resumed.
LEMMA SettleGood ==
    ASSUME Shape, Returned, NEW j \in JobIds, Settle(j)
    PROVE  Shape'
<1>0. Typed /\ AllGood
  BY DEF Shape
<1>1. /\ ex[j].at = "settle" /\ ex' = [ex EXCEPT ![j] = Idle]
      /\ UNCHANGED <<run, task, call, boot, mode, crashes, faults, past>>
  BY DEF Settle
<1>2. Exists(j) /\ job[j] \in Docs
  BY <1>0, <1>1, Base DEF AllGood, Good, Placed, Busy
<1>3. PICK d \in Docs : /\ d.info = job[j].info /\ d.attempts = job[j].attempts
                        /\ job' = [job EXCEPT ![j] = d]
  <2>1. CASE job' = job
    BY <1>0, <1>2, <2>1 DEF Typed
  <2>2. CASE job' # job
    <3>1. ex[j].result \in {"ok", "retry", "fatal"}
      BY <1>1 DEF Returned
    <3>2. PICK d \in {Completed(job[j]), FailedOrRetried(job[j]), Failed(job[j])} :
             job' = [job EXCEPT ![j] = d]
      BY <2>2, <3>1 DEF Settle
    <3> QED BY <1>2, <3>2, SettledFacts
  <2> QED BY <2>1, <2>2
<1>4. ex' \in [JobIds -> Executors] /\ past' \in [JobIds -> Pasts] /\ (\A i \in JobIds \ {j} : ex'[i] = ex[i])
      /\ ex'[j].at = "idle"
  BY <1>0, <1>1, IdleFacts DEF Typed, Idle
<1>5. \A i \in JobIds : SamePast(i)
  BY <1>1 DEF SamePast
<1> QED BY <1>1, <1>2, <1>3, <1>4, <1>5, OneJobChanges

\* A cancelled job keeps its executor, which is told.
LEMMA CancelGood ==
    ASSUME Shape, NEW j \in JobIds, Cancel(j)
    PROVE  Shape'
<1>0. Typed /\ AllGood /\ Exists(j)
  BY DEF Shape, Cancel
<1>1. PICK d : d = Cancelled(job[j])
  OBVIOUS
<1>2. job[j] \in Docs
  BY <1>0, Base
<1>3. d \in Docs /\ d.info = job[j].info /\ d.attempts = job[j].attempts /\ d.status = "cancelled"
  BY <1>1, <1>2, SettledFacts, ReleasedFacts DEF Cancelled, Statuses
<1>4. UNCHANGED <<run, task, call, boot, mode, crashes, faults>> /\ job' = [job EXCEPT ![j] = d]
  BY <1>1 DEF Cancel
<1>5. ex' \in [JobIds -> Executors] /\ (\A i \in JobIds \ {j} : ex'[i] = ex[i]) /\ SameWork(j)
  <2>1. ex[j] \in Executors
    BY <1>0 DEF Typed
  <2>2. PICK x : x = [ex[j] EXCEPT !.aborted = TRUE]
    OBVIOUS
  <2>3. /\ x \in Executors /\ x.at = ex[j].at /\ x.known = ex[j].known /\ x.calling = ex[j].calling
        /\ x.iterations = ex[j].iterations /\ x.attempts = ex[j].attempts
    BY <2>1, <2>2 DEF Executors
  <2>4. ex' = ex \/ ex' = [ex EXCEPT ![j] = x]
    BY <2>2 DEF Cancel
  <2> QED BY <1>0, <2>3, <2>4 DEF Typed, SameWork
<1>6. past' \in [JobIds -> Pasts] /\ \A i \in JobIds : SamePast(i)
  <2>1. past[j] \in Pasts
    BY <1>0 DEF Typed
  <2>2. PICK x : x = [past[j] EXCEPT !.untold = TRUE]
    OBVIOUS
  <2>3. /\ x \in Pasts /\ x.ran = past[j].ran /\ x.llm = past[j].llm /\ x.turns = past[j].turns
        /\ x.owned = past[j].owned /\ x.cleared = past[j].cleared
    BY <2>1, <2>2 DEF Pasts
  <2>4. past' = past \/ past' = [past EXCEPT ![j] = x]
    BY <2>2 DEF Cancel
  <2> QED BY <1>0, <2>3, <2>4 DEF Typed, SamePast
<1> QED BY <1>0, <1>3, <1>4, <1>5, <1>6, OneJobChanges

\* A timeout only sets the signal its executor looks at.
LEMMA TimeOutGood ==
    ASSUME Shape, NEW j \in JobIds, TimeOut(j)
    PROVE  Shape'
<1>0. Typed /\ AllGood /\ Exists(j) /\ job[j] \in Docs /\ ex[j] \in Executors
  BY Base DEF Shape, TimeOut, AllGood, Good, Placed
<1>1. PICK x : x = [ex[j] EXCEPT !.aborted = TRUE]
  OBVIOUS
<1>2. /\ x \in Executors /\ x.at = ex[j].at /\ x.known = ex[j].known /\ x.calling = ex[j].calling
      /\ x.iterations = ex[j].iterations /\ x.attempts = ex[j].attempts
  BY <1>0, <1>1 DEF Executors
<1>3. ex' = [ex EXCEPT ![j] = x] /\ UNCHANGED <<job, run, task, call, boot, mode, crashes, faults, past>>
  BY <1>1 DEF TimeOut
<1>4. ex' \in [JobIds -> Executors] /\ (\A i \in JobIds \ {j} : ex'[i] = ex[i]) /\ SameWork(j)
  BY <1>0, <1>2, <1>3 DEF Typed, SameWork
<1>5. past' \in [JobIds -> Pasts] /\ \A i \in JobIds : SamePast(i)
  BY <1>0, <1>3 DEF Typed, SamePast
<1>6. job' = [job EXCEPT ![j] = job[j]]
  BY <1>0, <1>3 DEF Typed
<1>7. Busy(j) => Owned(job[j], boot) \/ job[j].status = "cancelled"
  BY <1>0 DEF AllGood, Good, Placed
<1> QED BY <1>0, <1>3, <1>4, <1>5, <1>6, <1>7, OneJobChanges

\* A start costs one of the attempts of the job, which is what its executor may
\* spend again.
LEMMA StartGood ==
    ASSUME Shape, NEW j \in JobIds, Start(j)
    PROVE  Shape'
<1>0. /\ Typed /\ AllGood /\ Calling /\ Good(j)
      /\ mode = "up" /\ Exists(j) /\ Claimable(job[j]) /\ ex[j].at = "idle"
      /\ UNCHANGED <<run, task, call, boot, mode, crashes, faults>>
  BY DEF Shape, AllGood, Start, Busy
<1>1. job[j] \in Docs /\ run[j] # NoRun /\ job[j].attempts \in Nat /\ boot \in Boots
      /\ job[j].info \in {"worker", "goal"}
  <2>1. boot \in Boots
    BY <1>0, HarnessHostAssumption DEF Typed
  <2> QED BY <1>0, <2>1, Base DEF Good, Placed
<1>2. PICK d : d = Claimed(job[j], boot)
  OBVIOUS
<1>3. /\ d \in Docs /\ d # NoJob /\ d.status = "running" /\ d.boot = boot /\ d.info = job[j].info
      /\ d.attempts = job[j].attempts + 1
  BY <1>1, <1>2, ClaimedFacts, JobDocAssumption
<1>4. PICK x : x = [Idle EXCEPT !.at = "start"]
  OBVIOUS
<1>5. x \in Executors /\ x.at = "start"
  BY <1>4 DEF Idle, Executors, WorkerPlaces
<1>6. job' = [job EXCEPT ![j] = d] /\ ex' = [ex EXCEPT ![j] = x]
  BY <1>2, <1>4 DEF Start
<1>7. /\ job' \in [JobIds -> Docs \cup {NoJob}] /\ job'[j] = d /\ ex' \in [JobIds -> Executors] /\ ex'[j] = x
      /\ \A i \in JobIds \ {j} : job'[i] = job[i] /\ ex'[i] = ex[i]
  BY <1>0, <1>3, <1>5, <1>6 DEF Typed
<1>8. past' \in [JobIds -> Pasts] /\ \A i \in JobIds : SamePast(i)
  <2>1. CASE past' = past
    BY <1>0, <2>1 DEF Typed, SamePast
  <2>2. CASE past' = [i \in JobIds |-> [past[i] EXCEPT !.untold = TRUE]]
    <3>1. ASSUME NEW i \in JobIds PROVE past'[i] \in Pasts /\ SamePast(i)
      <4>1. past[i] \in Pasts
        BY <1>0 DEF Typed
      <4> QED BY <2>2, <4>1 DEF Pasts, SamePast
    <3> QED BY <2>2, <3>1
  <2> QED BY <2>1, <2>2 DEF Start
<1>9. Typed'
  BY <1>0, <1>7, <1>8 DEF Typed
<1>10. Calling'
  <2>1. \A i \in JobIds : (Exists(i)' <=> Exists(i)) /\ (run[i] # NoRun => run'[i] # NoRun)
    BY <1>0, <1>3, <1>7 DEF Exists
  <2> QED BY <1>0, <2>1, CallWaits
<1>11. ASSUME NEW i \in JobIds \ {j} PROVE Good(i)'
  <2>1. Kept(i) /\ Calm
    BY <1>0, <1>7, <1>8 DEF Kept, Calm, SamePast
  <2> QED BY <1>0, <2>1, Spared
<1>12. Good(j)'
  <2>1. /\ past'[j].ran = past[j].ran /\ past'[j].llm = past[j].llm /\ past'[j].cleared = past[j].cleared
        /\ past'[j].turns = past[j].turns /\ past'[j].owned = past[j].owned
        /\ Exists(j)' /\ ex'[j].at = "start" /\ Busy(j)'
    BY <1>3, <1>5, <1>7, <1>8 DEF SamePast, Exists, Busy
  <2>2. Slack(j) \in Nat /\ Slack(j)' = Slack(j) + 1
    <3>1. job[j].attempts \in Nat /\ faults \in Nat
      BY <1>0, <1>1, Base
    <3>2. job'[j].attempts = job[j].attempts + 1 /\ faults' = faults
      BY <1>0, <1>3, <1>7
    <3> QED BY <3>1, <3>2 DEF Slack
  <2>3. /\ past[j].llm \in Nat /\ past[j].turns \in Nat /\ Iterations(run[j]) \in Nat
        /\ run[j].turns \in Nat /\ run[j].goal_attempts \in Nat
    BY <1>0, <1>1, Base
  <2>4. Placed(j)'
    BY <1>0, <1>1, <1>3, <1>5, <1>7, <2>1 DEF Good, Placed, Owned, WorkerPlaces, GoalPlaces
  <2>5. Remembers(j)'
    BY <1>0, <1>3, <1>7, <2>1 DEF Good, Remembers
  <2>6. Rationed(j)'
    BY <1>0, <1>3, <1>7, <2>1, <2>2, <2>3, Base DEF Good, Rationed
  <2>7. Budgeted(j)'
    BY <1>0, <1>3, <1>7, <2>1, <2>2, <2>3, Base DEF Good, Budgeted
  <2>8. RunFollows(j)'
    BY <1>0, <1>3, <1>7, <2>1 DEF Good, RunFollows
  <2> QED BY <2>4, <2>5, <2>6, <2>7, <2>8 DEF Good
<1> QED BY <1>9, <1>10, <1>11, <1>12 DEF Shape, AllGood

\* A crash costs the executors and the call; rows and history stay.
LEMMA CrashGood == Shape /\ Crash => Shape'
<1> SUFFICES ASSUME Shape, Crash PROVE Shape'
  OBVIOUS
<1>0. /\ Typed /\ AllGood /\ call' = NoCall /\ mode' = "runs" /\ boot' = boot + 1
      /\ crashes < MaxCrashes /\ crashes' = crashes + 1 /\ ex' = [j \in JobIds |-> Idle]
      /\ UNCHANGED <<job, run, task, faults, past>>
  BY DEF Shape, Crash
<1>1. Typed'
  BY <1>0, IdleFacts, HarnessHostAssumption DEF Typed
<1>2. Calling'
  BY <1>0 DEF Calling, NoCall
<1>3. ASSUME NEW j \in JobIds PROVE Good(j)'
  <2>1. Good(j) /\ ex'[j].at = "idle" /\ ~Busy(j)' /\ Exists(j)' = Exists(j) /\ Slack(j)' = Slack(j)
    BY <1>0 DEF AllGood, Idle, Busy, Exists, Slack
  <2>2. boot \in Nat /\ run[j] # NoRun => run[j].boot \in Nat
    BY <1>0, Base
  <2>3. Placed(j)'
    BY <1>0, <2>1 DEF Good, Placed
  <2>4. Remembers(j)'
    BY <1>0, <2>1 DEF Good, Remembers
  <2>5. Rationed(j)'
    BY <1>0, <2>1 DEF Good, Rationed
  <2>6. Budgeted(j)'
    BY <1>0, <2>1 DEF Good, Budgeted
  <2>7. RunFollows(j)'
    <3>1. run[j] # NoRun => run[j].boot \in Nat /\ run[j].boot <= boot /\ boot \in Nat
      BY <1>0, <2>1, Base DEF Good, RunFollows
    <3>2. run[j] # NoRun => run[j].boot <= boot + 1 /\ run[j].boot # boot + 1
      BY <3>1
    <3> QED BY <1>0, <3>2 DEF RunFollows
  <2> QED BY <2>3, <2>4, <2>5, <2>6, <2>7 DEF Good
<1> QED BY <1>1, <1>2, <1>3 DEF Shape, AllGood

\* While a process boots nobody works and nobody calls.
LEMMA NobodyAtBoot ==
    ASSUME Shape, mode # "up"
    PROVE  call.at = "idle" /\ \A j \in JobIds : ex[j].at = "idle" /\ ~Busy(j)
BY DEF Shape, Calling, AllGood, Good, Placed, Busy

\* Boot first interrupts the runs earlier boots left running.
LEMMA ReconcileRunsGood == Shape /\ ReconcileRuns => Shape'
<1> SUFFICES ASSUME Shape, ReconcileRuns PROVE Shape'
  OBVIOUS
<1>0. /\ Typed /\ AllGood /\ call.at = "idle" /\ mode = "runs" /\ mode' = "jobs"
      /\ UNCHANGED <<job, task, ex, call, boot, crashes, faults, past>>
  BY NobodyAtBoot DEF Shape, ReconcileRuns
<1>1. ASSUME NEW j \in JobIds
      PROVE  /\ run'[j] \in Runs \cup {NoRun} /\ (run'[j] = NoRun <=> run[j] = NoRun)
             /\ run[j] # NoRun =>
                  /\ run'[j].boot = run[j].boot /\ run'[j].turns = run[j].turns
                  /\ run'[j].goal_attempts = run[j].goal_attempts
                  /\ run'[j].state = run[j].state /\ run'[j].pending = run[j].pending
                  /\ run'[j].status # "running"
  <2>1. run'[j] = IF run[j] # NoRun /\ Orphan(run[j]) THEN InterruptedRun(run[j]) ELSE run[j]
    BY DEF ReconcileRuns
  <2>2. run[j] # NoRun => run[j].boot # boot /\ run[j] \in Runs
    BY <1>0, Base DEF AllGood, Good, RunFollows
  <2>3. CASE run[j] # NoRun /\ run[j].status = "running"
    <3>1. run'[j] = InterruptedRun(run[j])
      BY <2>1, <2>2, <2>3 DEF Orphan
    <3> QED BY <2>2, <2>3, <3>1, InterruptFacts, HarnessHostAssumption
  <2>4. CASE run[j] = NoRun \/ run[j].status # "running"
    BY <2>1, <2>2, <2>4 DEF Orphan
  <2> QED BY <2>3, <2>4
<1>2. Typed'
  <2>1. run' \in [JobIds -> Runs \cup {NoRun}]
    BY <1>1 DEF ReconcileRuns
  <2> QED BY <1>0, <2>1 DEF Typed
<1>3. Calling'
  BY <1>0 DEF Calling
<1>4. ASSUME NEW j \in JobIds PROVE Good(j)'
  <2>1. Good(j) /\ ex'[j].at = "idle" /\ ~Busy(j)' /\ Exists(j)' = Exists(j) /\ Slack(j)' = Slack(j)
    BY <1>0, NobodyAtBoot DEF AllGood, Busy, Exists, Slack
  <2>2. run[j] # NoRun => Known(run[j])' = Known(run[j]) /\ Iterations(run[j])' = Iterations(run[j])
    BY <1>1 DEF Known, Iterations
  <2>3. Placed(j)'
    BY <1>0, <1>1, <2>1 DEF Good, Placed
  <2>4. Remembers(j)'
    BY <1>0, <1>1, <2>1, <2>2 DEF Good, Remembers
  <2>5. Rationed(j)'
    BY <1>0, <1>1, <2>1, <2>2 DEF Good, Placed, Rationed
  <2>6. Budgeted(j)'
    BY <1>0, <1>1, <2>1 DEF Good, Placed, Budgeted
  <2>7. RunFollows(j)'
    BY <1>0, <1>1, <2>1 DEF Good, RunFollows
  <2> QED BY <2>3, <2>4, <2>5, <2>6, <2>7 DEF Good
<1> QED BY <1>2, <1>3, <1>4 DEF Shape, AllGood

\* Then gives their jobs back or interrupts them.
LEMMA ReconcileJobsGood == Shape /\ ReconcileJobs => Shape'
<1> SUFFICES ASSUME Shape, ReconcileJobs PROVE Shape'
  OBVIOUS
<1>0. /\ Typed /\ AllGood /\ call.at = "idle" /\ mode = "jobs" /\ mode' = "tasks"
      /\ UNCHANGED <<run, task, ex, call, boot, crashes, faults, past>>
  BY NobodyAtBoot DEF Shape, ReconcileJobs
<1>1. ASSUME NEW j \in JobIds
      PROVE  /\ job'[j] \in Docs \cup {NoJob} /\ (job'[j] = NoJob <=> job[j] = NoJob)
             /\ job[j] # NoJob => job'[j].info = job[j].info /\ job'[j].attempts = job[j].attempts
  <2>1. job'[j] = IF Exists(j) /\ Orphan(job[j]) THEN Reclaimed(job[j]) ELSE job[j]
    BY DEF ReconcileJobs
  <2>2. CASE Exists(j) /\ Orphan(job[j])
    BY <1>0, <2>1, <2>2, Base, SettledFacts, JobDocAssumption DEF Exists
  <2>3. CASE ~(Exists(j) /\ Orphan(job[j]))
    BY <1>0, <2>1, <2>3 DEF Typed
  <2> QED BY <2>2, <2>3
<1>2. Typed'
  <2>1. job' \in [JobIds -> Docs \cup {NoJob}]
    BY <1>1 DEF ReconcileJobs
  <2> QED BY <1>0, <2>1 DEF Typed
<1>3. Calling'
  BY <1>0 DEF Calling
<1>4. ASSUME NEW j \in JobIds PROVE Good(j)'
  <2>1. Good(j) /\ ex'[j].at = "idle" /\ ~Busy(j)' /\ Exists(j)' = Exists(j)
    BY <1>0, <1>1, NobodyAtBoot DEF AllGood, Busy, Exists
  <2>2. Exists(j) => Slack(j)' = Slack(j)
    BY <1>0, <1>1 DEF Exists, Slack
  <2>3. Placed(j)'
    BY <1>0, <1>1, <2>1 DEF Good, Placed, Exists
  <2>4. Remembers(j)'
    BY <1>0, <2>1 DEF Good, Remembers
  <2>5. Rationed(j)'
    BY <1>0, <1>1, <2>1, <2>2 DEF Good, Rationed, Exists
  <2>6. Budgeted(j)'
    BY <1>0, <1>1, <2>1, <2>2 DEF Good, Budgeted, Exists
  <2>7. RunFollows(j)'
    BY <1>0, <2>1, NobodyAtBoot DEF Good, RunFollows
  <2> QED BY <2>3, <2>4, <2>5, <2>6, <2>7 DEF Good
<1> QED BY <1>2, <1>3, <1>4 DEF Shape, AllGood

\* Then repairs the task row.
LEMMA ReconcileTasksGood == Shape /\ ReconcileTasks => Shape'
<1> SUFFICES ASSUME Shape, ReconcileTasks PROVE Shape'
  OBVIOUS
<1>0. /\ Typed /\ AllGood /\ call.at = "idle" /\ mode = "tasks" /\ mode' = "up"
      /\ UNCHANGED <<job, run, ex, call, boot, crashes, faults, past>>
  BY NobodyAtBoot DEF Shape, ReconcileTasks
<1>1. task' \in TaskRows
  <2>1. task \in TaskRows /\ task.attempts \in Nat /\ task.attempts + 1 \in Nat
    BY <1>0 DEF Typed, TaskRows
  <2>2. PICK s \in {"failed", "pending"} :
           task' = task \/ task' = [task EXCEPT !.attempts = task.attempts + 1, !.status = s]
    BY DEF ReconcileTasks
  <2> QED BY <2>1, <2>2 DEF TaskRows
<1>2. Typed'
  BY <1>0, <1>1 DEF Typed
<1>3. Calling'
  BY <1>0 DEF Calling
<1>4. ASSUME NEW j \in JobIds PROVE Good(j)'
  <2>1. Kept(j) /\ Good(j)
    BY <1>0 DEF Kept, AllGood
  <2>2. boot' = boot /\ (mode' = mode \/ (mode = "tasks" /\ mode' = "up")) /\ faults' \in {faults, faults + 1}
    BY <1>0
  <2> QED BY <1>0, <2>1, <2>2, NotConcerned
<1> QED BY <1>2, <1>3, <1>4 DEF Shape, AllGood
-----------------------------------------------------------------------------
(* every step *)

\* A worker writes a well-formed task row.
LEMMA WorkerKeepsTask ==
    ASSUME Typed, NEW j \in JobIds, WorkerStep(j)
    PROVE  task' \in TaskRows
<1>1. task \in TaskRows
  BY DEF Typed
<1>2. ASSUME NEW s \in {"in_progress", "pending", "blocked", "completed", "failed"},
             TryTask([task EXCEPT !.status = s]) \/ TryTask([task EXCEPT !.status = s, !.job = j])
      PROVE  task' \in TaskRows
  <2>1. [task EXCEPT !.status = s] \in TaskRows /\ [task EXCEPT !.status = s, !.job = j] \in TaskRows
    BY <1>1 DEF TaskRows
  <2> QED BY <1>1, <1>2, <2>1 DEF TryTask
<1>3. CASE TaskStep(j)
  <2>1. CASE MarkInProgress(j)
    BY <1>2, <2>1 DEF MarkInProgress
  <2>2. CASE Aborted(j)
    BY <1>2, <2>2 DEF Aborted
  <2>3. CASE Judge(j)
    BY <1>1, <1>2, <2>3 DEF Judge
  <2>4. CASE Accept(j)
    BY <1>2, <2>4 DEF Accept
  <2>5. CASE Catch(j)
    BY <1>2, <2>5 DEF Catch
  <2>6. CASE FindWorker(j) \/ Prepare(j) \/ Restore(j) \/ Reclaim(j) \/ BuildProof(j)
    BY <1>1, <2>6 DEF FindWorker, Prepare, Restore, Reclaim, BuildProof
  <2> QED BY <1>3, <2>1, <2>2, <2>3, <2>4, <2>5, <2>6 DEF TaskStep
<1>4. CASE LoopStep(j) \/ EndStep(j)
  <2>1. UNCHANGED task
    BY <1>4 DEF LoopStep, EndStep, Iterate, LeaveLoop, Answer, PreCheckpoint, RunTools, ToolResults,
                PostCheckpoint, Synthesize, LastCheckpoint, Close, Thrown, Finally
  <2> QED BY <1>1, <2>1
<1> QED BY <1>3, <1>4 DEF WorkerStep

\* So an executor's step keeps the state well formed and every run good.
LEMMA ExecutorGood ==
    ASSUME Shape, NEW j \in JobIds, WorkerStep(j) \/ GoalStep(j)
    PROVE  Shape'
<1>0. Typed /\ AllGood /\ Calling /\ Good(j)
  BY DEF Shape, AllGood
<1>1. Running(j) /\ Good(j)'
  BY <1>0, WorkerGood, GoalGood
<1>2. task' \in TaskRows
  <2>1. CASE WorkerStep(j)
    BY <1>0, <2>1, WorkerKeepsTask
  <2>2. CASE GoalStep(j)
    <3>1. UNCHANGED task
      BY <2>2 DEF GoalStep, Begin, ReclaimGoal, GoalAborted, GiveUp, BeginTurn, EndTurn, BumpTurn,
                  CountAttempt, Verify, CompleteGoal, ProveGoal, CatchGoal
    <3> QED BY <1>0, <3>1 DEF Typed
  <2> QED BY <2>1, <2>2
<1>3. /\ job' = job /\ call' = call /\ boot' = boot /\ mode' = mode /\ crashes' = crashes
      /\ faults' \in {faults, faults + 1}
      /\ \A i \in JobIds \ {j} : run'[i] = run[i] /\ ex'[i] = ex[i] /\ past'[i] = past[i]
  BY <1>1 DEF Running, Local
<1>4. Typed'
  <2>1. faults' \in Nat
    BY <1>0, <1>3 DEF Typed
  <2> QED BY <1>0, <1>1, <1>2, <1>3, <2>1 DEF Typed, Running
<1>5. Calling'
  <2>1. Exists(j)
    <3>1. CASE WorkerStep(j)
      BY <3>1 DEF WorkerStep, TaskStep, LoopStep, EndStep, FindWorker, MarkInProgress, Prepare, Restore,
           Reclaim, Aborted, Judge, Accept, BuildProof, Catch, Iterate, LeaveLoop, Answer, PreCheckpoint,
           RunTools, ToolResults, PostCheckpoint, Synthesize, LastCheckpoint, Close, Thrown, Finally,
           Worker, At
    <3>2. CASE GoalStep(j)
      BY <3>2 DEF GoalStep, Begin, ReclaimGoal, GoalAborted, GiveUp, BeginTurn, EndTurn, BumpTurn,
           CountAttempt, Verify, CompleteGoal, ProveGoal, CatchGoal, Goal, At
    <3> QED BY <3>1, <3>2
  <2>2. Exists(j)' /\ run'[j] # NoRun
    BY <1>1, <1>3, <2>1 DEF Exists, Good, Placed
  <2>3. \A i \in JobIds : (Exists(i)' <=> Exists(i)) /\ (run[i] # NoRun => run'[i] # NoRun)
    BY <1>3, <2>2 DEF Exists
  <2> QED BY <1>0, <1>3, <2>3, CallWaits
<1>6. ASSUME NEW i \in JobIds \ {j} PROVE Good(i)'
  <2>1. Kept(i) /\ Calm
    BY <1>3 DEF Kept, Calm
  <2> QED BY <1>0, <2>1, Spared
<1> QED BY <1>1, <1>4, <1>5, <1>6 DEF Shape, AllGood

\* An executor about to settle has a result.
LEMMA ReturnedKept ==
    ASSUME Typed, Returned, NEW j \in JobIds, NEW x, ex' = [ex EXCEPT ![j] = x],
           x.at = "settle" => x.result \in {"ok", "retry", "fatal"}
    PROVE  Returned'
BY DEF Typed, Returned

\* Whatever an executor does.
LEMMA ExecutorReturns ==
    ASSUME Typed, Returned, NEW j \in JobIds, WorkerStep(j) \/ GoalStep(j)
    PROVE  Returned'
<1>1. ASSUME NEW at, at # "settle", Goto(j, at) PROVE Returned'
  <2>1. ex[j] \in Executors
    BY DEF Typed
  <2>2. PICK x : x = [ex[j] EXCEPT !.at = at]
    OBVIOUS
  <2>3. x.at = at
    BY <2>1, <2>2 DEF Executors
  <2>4. ex' = [ex EXCEPT ![j] = x]
    BY <1>1, <2>2 DEF Goto
  <2> QED BY <1>1, <2>3, <2>4, ReturnedKept
<1>2. ASSUME NEW r \in {"ok", "retry", "fatal"}, Return(j, r) PROVE Returned'
  <2>1. PICK x : x = [Idle EXCEPT !.at = "settle", !.result = r]
    OBVIOUS
  <2>2. x.result = r
    BY <2>1 DEF Idle
  <2>3. ex' = [ex EXCEPT ![j] = x]
    BY <1>2, <2>1 DEF Return
  <2> QED BY <2>2, <2>3, ReturnedKept
<1>3. ASSUME NEW at \in {"reclaim", "model", "pre", "post", "last", "finally", "bump"},
             ex'[j].at = at, \A i \in JobIds \ {j} : ex'[i] = ex[i]
      PROVE  Returned'
  BY <1>3 DEF Returned
<1>4. ex[j] \in Executors /\ ex \in [JobIds -> Executors]
  BY DEF Typed
<1>5. CASE TaskStep(j)
  <2>1. CASE Restore(j)
    <3>1. ex' = [ex EXCEPT ![j].at = "reclaim", ![j].known = Known(run[j]), ![j].iterations = Iterations(run[j])]
          => ex'[j].at = "reclaim" /\ \A i \in JobIds \ {j} : ex'[i] = ex[i]
      BY <1>4 DEF Executors
    <3> QED BY <1>1, <1>3, <2>1, <3>1 DEF Restore
  <2>2. CASE FindWorker(j) \/ Aborted(j) \/ Judge(j) \/ Accept(j)
    BY <1>1, <1>2, <2>2 DEF FindWorker, Aborted, Judge, Accept
  <2>3. CASE MarkInProgress(j) \/ Prepare(j) \/ Reclaim(j)
    BY <1>1, <2>3 DEF MarkInProgress, Prepare, Reclaim
  <2>4. CASE BuildProof(j) \/ Catch(j)
    BY <1>1, <1>2, <2>4 DEF BuildProof, Catch
  <2> QED BY <1>5, <2>1, <2>2, <2>3, <2>4 DEF TaskStep
<1>6. CASE LoopStep(j)
  <2>1. CASE Iterate(j)
    <3>1. ex'[j].at = "model" /\ \A i \in JobIds \ {j} : ex'[i] = ex[i]
      BY <1>4, <2>1 DEF Iterate, Executors
    <3> QED BY <1>3, <3>1
  <2>2. CASE Answer(j)
    <3>1. ex' = [ex EXCEPT ![j].at = "pre", ![j].calling = past[j].llm]
          => ex'[j].at = "pre" /\ \A i \in JobIds \ {j} : ex'[i] = ex[i]
      BY <1>4 DEF Executors
    <3> QED BY <1>1, <1>3, <2>2, <3>1 DEF Answer
  <2>3. CASE ToolResults(j)
    <3>1. ASSUME NEW at \in {"post", "last"},
                 ex' = [ex EXCEPT ![j].at = at, ![j].calling = 0, ![j].known = @ \cup {ex[j].calling}]
          PROVE  Returned'
      <4>1. ex'[j].at = at /\ \A i \in JobIds \ {j} : ex'[i] = ex[i]
        BY <1>4, <3>1 DEF Executors
      <4> QED BY <1>3, <4>1
    <3> QED BY <1>1, <2>3, <3>1 DEF ToolResults
  <2>4. CASE LeaveLoop(j) \/ PreCheckpoint(j) \/ RunTools(j) \/ PostCheckpoint(j) \/ Synthesize(j)
    BY <1>1, <2>4 DEF LeaveLoop, PreCheckpoint, RunTools, PostCheckpoint, Synthesize
  <2> QED BY <1>6, <2>1, <2>2, <2>3, <2>4 DEF LoopStep
<1>7. CASE EndStep(j)
  <2>1. CASE Thrown(j)
    <3>1. ex'[j].at = "finally" /\ \A i \in JobIds \ {j} : ex'[i] = ex[i]
      BY <1>4, <2>1 DEF Thrown, Executors
    <3> QED BY <1>3, <3>1
  <2>2. CASE LastCheckpoint(j) \/ Close(j)
    BY <1>1, <2>2 DEF LastCheckpoint, Close
  <2>3. CASE Finally(j)
    <3>1. PICK at \in {"catch", "judge"} : Goto(j, at)
      BY <2>3 DEF Finally
    <3> QED BY <1>1, <3>1
  <2> QED BY <1>7, <2>1, <2>2, <2>3 DEF EndStep
<1>8. CASE GoalStep(j)
  <2>1. CASE Begin(j)
    <3>1. ex'[j].at = "reclaim" /\ \A i \in JobIds \ {j} : ex'[i] = ex[i]
      BY <1>4, <2>1 DEF Begin, Executors
    <3> QED BY <1>3, <3>1
  <2>2. CASE EndTurn(j)
    <3>1. ex' = [ex EXCEPT ![j].at = "bump", ![j].attempts = @ + 1]
          => ex'[j].at = "bump" /\ \A i \in JobIds \ {j} : ex'[i] = ex[i]
      BY <1>4 DEF Executors
    <3> QED BY <1>1, <1>3, <2>2, <3>1 DEF EndTurn
  <2>3. CASE GoalAborted(j) \/ GiveUp(j) \/ ProveGoal(j) \/ CatchGoal(j)
    BY <1>1, <1>2, <2>3 DEF GoalAborted, GiveUp, ProveGoal, CatchGoal
  <2>4. CASE ReclaimGoal(j) \/ BeginTurn(j) \/ BumpTurn(j) \/ CountAttempt(j) \/ Verify(j) \/ CompleteGoal(j)
    BY <1>1, <2>4 DEF ReclaimGoal, BeginTurn, BumpTurn, CountAttempt, Verify, CompleteGoal
  <2> QED BY <1>8, <2>1, <2>2, <2>3, <2>4 DEF GoalStep
<1> QED BY <1>5, <1>6, <1>7, <1>8 DEF WorkerStep

\* And whatever the host does.
LEMMA HostReturns ==
    ASSUME Typed, Returned, HostNext
    PROVE  Returned'
<1>1. CASE UNCHANGED ex
  BY <1>1 DEF Returned
<1>2. CASE Crash
  BY <1>2 DEF Crash, Returned, Idle
<1>3. ASSUME NEW j \in JobIds, Start(j) \/ Settle(j) PROVE Returned'
  <2>1. PICK x \in {Idle, [Idle EXCEPT !.at = "start"]} : ex' = [ex EXCEPT ![j] = x]
    BY <1>3 DEF Start, Settle
  <2>2. x.at # "settle"
    BY <2>1 DEF Idle
  <2> QED BY <2>1, <2>2, ReturnedKept
<1>4. ASSUME NEW j \in JobIds, TimeOut(j) \/ Cancel(j), ~UNCHANGED ex PROVE Returned'
  <2>1. ex[j].at # "settle" /\ ex[j] \in Executors
    BY <1>4 DEF Typed, TimeOut, Cancel
  <2>2. PICK x : x = [ex[j] EXCEPT !.aborted = TRUE]
    OBVIOUS
  <2>3. x.at # "settle"
    BY <2>1, <2>2 DEF Executors
  <2>4. ex' = [ex EXCEPT ![j] = x]
    BY <1>4, <2>2 DEF TimeOut, Cancel
  <2> QED BY <2>3, <2>4, ReturnedKept
<1>5. CASE CallStep \/ CallGoesOn \/ Reconcile
  <2>1. UNCHANGED ex
    BY <1>5 DEF CallStep, CallGoesOn, Reconcile, Delegate, StartGoal, Revise, CreateRun, Enqueue, Link,
                ReconcileRuns, ReconcileJobs, ReconcileTasks
  <2> QED BY <1>1, <2>1
<1>6. ASSUME NEW j \in JobIds, BecomeDue(j) PROVE Returned'
  <2>1. UNCHANGED ex
    BY <1>6 DEF BecomeDue
  <2> QED BY <1>1, <2>1
<1> QED BY <1>1, <1>2, <1>3, <1>4, <1>5, <1>6 DEF HostNext, QueueStep

\* The state before the first task is well formed.
LEMMA ShapeInit == Init => Shape /\ Returned
<1> SUFFICES ASSUME Init PROVE Shape /\ Returned
  OBVIOUS
<1>1. Typed
  BY IdleFacts, HarnessHostAssumption DEF Init, Typed
<1>2. Calling /\ Returned
  BY DEF Init, Calling, NoCall, Returned, Idle
<1>3. ASSUME NEW j \in JobIds PROVE Good(j)
  <2>1. ~Exists(j) /\ run[j] = NoRun /\ ~Busy(j) /\ past[j] = NoPast
    BY DEF Init, Exists, Busy, Idle
  <2> QED BY <2>1 DEF Good, Placed, Remembers, Rationed, Budgeted, RunFollows, Untouched, NoPast
<1> QED BY <1>1, <1>2, <1>3 DEF Shape, AllGood

\* The inductive step, action by action.
LEMMA ShapeStep == Shape /\ Returned /\ [Step]_hostVars => Shape' /\ Returned'
<1> SUFFICES ASSUME Shape, Returned, [Step]_hostVars PROVE Shape' /\ Returned'
  OBVIOUS
<1>0. Typed
  BY DEF Shape
<1>1. CASE HostNext
  <2>1. CallStep => Shape'
    BY CallersGood DEF CallStep
  <2>2. CallGoesOn => Shape'
    BY CreateRunGood, EnqueueGood, LinkGood DEF CallGoesOn
  <2>3. Crash => Shape'
    BY CrashGood
  <2>4. Reconcile => Shape'
    BY ReconcileRunsGood, ReconcileJobsGood, ReconcileTasksGood DEF Reconcile
  <2>5. ASSUME NEW j \in JobIds, QueueStep(j) \/ TimeOut(j) \/ Cancel(j) PROVE Shape'
    BY <2>5, BecomeDueGood, StartGood, SettleGood, TimeOutGood, CancelGood DEF QueueStep
  <2>6. Shape'
    BY <1>1, <2>1, <2>2, <2>3, <2>4, <2>5 DEF HostNext
  <2> QED BY <1>0, <1>1, <2>6, HostReturns
<1>2. ASSUME NEW j \in JobIds, WorkerStep(j) \/ GoalStep(j) PROVE Shape' /\ Returned'
  BY <1>0, <1>2, ExecutorGood, ExecutorReturns
<1>3. CASE UNCHANGED hostVars
  BY <1>3 DEF hostVars, Shape, Returned, Typed, Calling, AllGood, Good, Placed, Remembers, Rationed, Budgeted,
              RunFollows, Exists, Busy, Slack
<1> QED BY <1>1, <1>2, <1>3 DEF Step

\* The system without the bound Small of the model-checked instance.
WideSpec == Init /\ [][Step]_hostVars

\* Every behaviour of the checked specification is one of the unbounded system.
LEMMA SpecIsWide == Spec => WideSpec
<1>1. [Next]_hostVars => [Step]_hostVars
  BY DEF Next
<1> QED BY <1>1, PTL DEF Spec, WideSpec

\* The inductive invariant: every row, executor and call is of its type and in
\* one of the states the code can leave it in.
THEOREM HarnessShape == WideSpec => [](Shape /\ Returned)
<1> QED BY ShapeInit, ShapeStep, PTL DEF WideSpec

\* KnowsWhatRan holds of any number of jobs, crashes, turns and iterations: an
\* agent at work knows of every tool call that was executed since the checkpoint of
\* its run was last cleared (executors.ts, agent-loop.ts:732).
THEOREM CallsAreKnown == WideSpec => []KnowsWhatRan
<1>1. Shape => KnowsWhatRan
  <2> SUFFICES ASSUME Shape, faults = 0, NEW j \in JobIds, InLoop(j)
               PROVE  past[j].ran \subseteq ex[j].known \cup {ex[j].calling}
    BY DEF KnowsWhatRan
  <2>1. Good(j) /\ Busy(j)
    BY DEF Shape, AllGood, InLoop, Busy
  <2>2. Exists(j) /\ run[j] # NoRun
    BY <2>1 DEF Good, Placed
  <2>3. job[j].info = "worker" \/ (job[j].info = "goal" /\ past[j].ran = {})
    BY <2>1, <2>2, Base DEF Shape, Good, Placed
  <2> QED BY <2>1, <2>2, <2>3 DEF Good, Remembers, InLoop
<1> QED BY <1>1, HarnessShape, PTL

\* WorkIsBounded likewise: over all starts and processes, what a start may add to
\* max_iterations and to the budget of a goal is bounded (agent-loop.ts:561,
\* goal-runner.ts:14); a start whose checkpoint is cleared adds a whole budget.
THEOREM WorkStaysBounded == WideSpec => []WorkIsBounded
<1>1. Shape => WorkIsBounded
  <2> SUFFICES ASSUME Shape PROVE WorkIsBounded
    OBVIOUS
  <2>0. Typed /\ AllGood
    BY DEF Shape
  <2>1. ASSUME NEW j \in JobIds, past[j].llm > 0
        PROVE  past[j].llm <= MaxIterations * (past[j].cleared + 1)
                              + (job[j].attempts - 1 - past[j].cleared) + faults
    <3>1. Exists(j) /\ job[j].info = "worker"
      BY <2>0, <2>1, Base DEF AllGood, Good, Placed, Untouched
    <3>2. /\ past[j].llm + 1 <= MaxIterations + Slack(j) + Afresh(past[j].cleared)
          /\ job[j].attempts \in Nat
      BY <2>0, <2>1, <3>1, Base DEF AllGood, Good, Rationed
    <3>3. PICK n \in Nat : n = past[j].cleared
      BY <2>0, Base
    <3>4. MaxIterations * (n + 1) = Afresh(n) + MaxIterations + n
      BY WorkerTaskAssumption DEF Afresh
    <3> QED BY <2>0, <3>2, <3>3, <3>4, Base DEF Slack
  <2>2. ASSUME NEW j \in JobIds, Exists(j), job[j].info = "goal", past[j].turns > 0
        PROVE  /\ past[j].turns <= MaxGoalAttempts + faults + (job[j].attempts - 1)
               /\ past[j].turns <= MaxTurns + faults + (job[j].attempts - 1)
    <3>1. /\ past[j].turns + 1 <= MaxGoalAttempts + Slack(j) /\ job[j].attempts \in Nat
          /\ past[j].turns + 1 <= MaxTurns + Slack(j)
      BY <2>0, <2>2, Base DEF AllGood, Good, Budgeted
    <3> QED BY <2>0, <3>1, Base DEF Slack
  <2> QED BY <2>1, <2>2 DEF WorkIsBounded, IterationsBounded, BudgetIsHard
<1> QED BY <1>1, HarnessShape, PTL

\* RunIsReleased likewise: no run is left running by a process or an executor
\* that is gone (agent-loop.ts:549, step 3 of reconcileOnBoot).
THEOREM NoRunLeftBehind == WideSpec => []RunIsReleased
<1>1. Shape => RunIsReleased
  <2> SUFFICES ASSUME Shape, mode = "up", faults = 0, NEW j \in JobIds, run[j] # NoRun, run[j].status = "running"
               PROVE  run[j].boot = boot /\ (past[j].owned => Busy(j))
    BY DEF RunIsReleased
  <2> QED BY DEF Shape, AllGood, Good, RunFollows, Busy
<1> QED BY <1>1, HarnessShape, PTL
-----------------------------------------------------------------------------
(* What the task is told. *)

AllUntold == \A j \in JobIds : past[j].untold

\* A job nobody has started yet.
Fresh(j) == job[j].status = "pending" /\ job[j].attempts = 0

\* Two executors at work are what the history calls untold.
OneAtWork == \A i, k \in JobIds : i # k /\ Busy(i) /\ Busy(k) => AllUntold

\* The kind of a job, or of a call, and the task fit; a call that does not
\* revise works on the only job there is.
Fits ==
    /\ task.status = "none" => task.job = 0
    /\ \A j \in JobIds : Exists(j) /\ job[j].info = "goal" =>
         j = 1 /\ task.status = "none" /\ call.at = "idle"
    /\ \A j \in JobIds : Exists(j) /\ job[j].info = "worker" => task.status # "none"
    /\ call.at # "idle" /\ call.kind = "goal" => task.status = "none" /\ ~call.revises
    /\ call.at # "idle" /\ call.kind = "worker" => task.status # "none"
    /\ task.job # 0 => Exists(task.job)
    /\ call.at # "idle" /\ ~call.revises => call.job = 1 /\ \A i \in JobIds \ {1} : ~Exists(i)

Waits == \A j \in JobIds :
    Exists(j) /\ job[j].attempts = 0 /\ ~past[j].untold => job[j].status = "pending"

\* Until task_delegate has linked its job, the executor of the job is on its way
\* to do so.
Links ==
    call.at = "link" /\ ~call.revises /\ task.job = 0 /\ faults = 0
    => past[1].untold \/ Fresh(1) \/ ex[1].at \in {"start", "mark"}

\* The task says what its job, and the executor of that job, came to.
Told(j) ==
    /\ \A i \in JobIds \ {j} : ex[i].at \in {"idle", "start", "mark", "settle"}
    /\ ex[j].at = "proof" => task.status = "completed"
    /\ ex[j].at = "settle" => task.status # "in_progress"
                              /\ (ex[j].result = "ok" => task.status = "completed")
    /\ ~Busy(j) /\ Settled(j) => /\ mode = "up" => task.status # "in_progress"
                                 /\ job[j].status = "completed" => task.status = "completed"

Tells ==
    task.job # 0 /\ faults = 0 /\ ~past[task.job].untold => Fresh(task.job) \/ Told(task.job)

TaskFollows == OneAtWork /\ Fits /\ Waits /\ Links /\ Tells

\* What the shape says of jobs in a slot.
LEMMA ShapeFacts ==
    ASSUME Shape
    PROVE  /\ \A j \in JobIds : Busy(j) => /\ Exists(j) /\ mode = "up" /\ job[j].attempts # 0
                                           /\ Owned(job[j], boot) \/ job[j].status = "cancelled"
                                           /\ job[j].status # "completed"
           /\ \A j \in JobIds : Exists(j) => job[j].attempts \in Nat /\ job[j].info \in {"worker", "goal"}
           /\ \A j \in JobIds : past[j] \in Pasts /\ past[j].untold \in BOOLEAN
           /\ task \in TaskRows /\ task.job \in JobIds \cup {0} /\ task.attempts \in Nat
           /\ call \in CallRows /\ call.kind \in {"worker", "goal"} /\ call.revises \in BOOLEAN
           /\ faults \in Nat /\ 1 \in JobIds /\ 0 \notin JobIds
<1>0. Typed /\ AllGood
  BY DEF Shape
<1>1. ASSUME NEW j \in JobIds, Busy(j)
      PROVE  /\ Exists(j) /\ mode = "up" /\ job[j].attempts # 0
             /\ Owned(job[j], boot) \/ job[j].status = "cancelled"
             /\ job[j].status # "completed"
  BY <1>0, <1>1, Base DEF AllGood, Good, Placed, Owned
<1>2. \A j \in JobIds : Exists(j) => job[j].attempts \in Nat /\ job[j].info \in {"worker", "goal"}
  BY <1>0, Base
<1>3. \A j \in JobIds : past[j] \in Pasts /\ past[j].untold \in BOOLEAN
  BY <1>0 DEF Typed, Pasts
<1>4. task \in TaskRows /\ task.job \in JobIds \cup {0} /\ task.attempts \in Nat
  BY <1>0 DEF Typed, TaskRows
<1>5. call \in CallRows /\ call.kind \in {"worker", "goal"} /\ call.revises \in BOOLEAN
  BY <1>0, HarnessHostAssumption DEF Typed, CallRows
<1>6. faults \in Nat
  BY <1>0 DEF Typed
<1>7. 1 \in JobIds /\ 0 \notin JobIds
  <2>1. PICK n : n = Cardinality(JobIds)
    OBVIOUS
  <2>2. JobIds = 1..n /\ 1 \in JobIds
    BY <2>1, HarnessHostAssumption
  <2>3. 0 \notin 1..n
    OBVIOUS
  <2> QED BY <2>2, <2>3
<1> QED BY <1>1, <1>2, <1>3, <1>4, <1>5, <1>6, <1>7

\* A caller that asks for a task, a goal or a revision keeps the task row
\* explained.
LEMMA CallersFollow ==
    ASSUME Shape, TaskFollows, Delegate \/ StartGoal \/ Revise
    PROVE  TaskFollows'
<1>1. UNCHANGED <<job, ex, mode, faults, past>> /\ call.at = "idle"
  BY DEF Delegate, StartGoal, Revise
<1>2. OneAtWork' /\ Waits'
  BY <1>1 DEF TaskFollows, OneAtWork, Waits, AllUntold, Busy, Exists
<1>3. CASE Delegate
  <2>1. /\ task' = [NoTask EXCEPT !.status = "pending"] /\ call' = [NoCall EXCEPT !.at = "run", !.job = 1]
        /\ task.status = "none" /\ ~Exists(1)
    BY <1>3 DEF Delegate
  <2>2. /\ task'.status = "pending" /\ task'.job = 0
        /\ call'.at = "run" /\ call'.job = 1 /\ call'.kind = "worker"
    BY <2>1 DEF NoTask, NoCall
  <2>3. \A i \in JobIds : ~Exists(i)
    BY <2>1, ShapeFacts DEF TaskFollows, Fits
  <2>4. Fits'
    BY <1>1, <2>2, <2>3 DEF Fits, Exists
  <2>5. Links' /\ Tells'
    BY <2>2 DEF Links, Tells
  <2> QED BY <1>2, <2>4, <2>5 DEF TaskFollows
<1>4. CASE StartGoal
  <2>1. /\ task' = task /\ call' = [NoCall EXCEPT !.at = "run", !.job = 1, !.kind = "goal"]
        /\ task.status = "none" /\ ~Exists(1)
    BY <1>4 DEF StartGoal
  <2>2. call'.at = "run" /\ call'.job = 1 /\ call'.kind = "goal" /\ call'.revises = FALSE
    BY <2>1 DEF NoCall
  <2>3. \A i \in JobIds : ~Exists(i)
    BY <2>1, ShapeFacts DEF TaskFollows, Fits
  <2>4. Fits'
    BY <1>1, <2>1, <2>2, <2>3, ShapeFacts DEF TaskFollows, Fits, Exists
  <2>5. Links' /\ Tells'
    BY <1>1, <2>1, <2>2 DEF TaskFollows, Links, Tells, Told, Fresh, Busy, Settled, Exists
  <2> QED BY <1>2, <2>4, <2>5 DEF TaskFollows
<1>5. CASE Revise
  <2>1. PICK j \in JobIds :
           call' = [NoCall EXCEPT !.at = "run", !.job = j, !.revises = TRUE, !.attempts = task.attempts]
    BY <1>5 DEF Revise
  <2>2. task' = task /\ task.status # "none"
    BY <1>5 DEF Revise
  <2>3. call'.at = "run" /\ call'.kind = "worker" /\ call'.revises = TRUE
    BY <2>1 DEF NoCall
  <2>4. Fits'
    BY <1>1, <2>2, <2>3, ShapeFacts DEF TaskFollows, Fits, Exists
  <2>5. Links' /\ Tells'
    BY <1>1, <2>2, <2>3 DEF TaskFollows, Links, Tells, Told, Fresh, Busy, Settled, Exists
  <2> QED BY <1>2, <2>4, <2>5 DEF TaskFollows
<1> QED BY <1>3, <1>4, <1>5

\* So does startAgentRun.
LEMMA CreateRunFollows ==
    ASSUME Shape, TaskFollows, CreateRun
    PROVE  TaskFollows'
<1>1. UNCHANGED <<job, task, ex, mode, past>> /\ faults' \in {faults, faults + 1} /\ faults \in Nat
  BY ShapeFacts DEF CreateRun, Throws
<1>2. call.at = "run"
  BY DEF CreateRun
<1>3. call' = NoCall \/ call' = [call EXCEPT !.at = "enqueue"]
  BY DEF CreateRun
<1>4. \/ call'.at = "idle"
      \/ /\ call'.at = "enqueue" /\ call'.kind = call.kind /\ call'.revises = call.revises
         /\ call'.job = call.job
  BY <1>3, ShapeFacts DEF NoCall, CallRows
<1>5. OneAtWork' /\ Waits'
  BY <1>1 DEF TaskFollows, OneAtWork, Waits, AllUntold, Busy, Exists
<1>6. Fits'
  BY <1>1, <1>2, <1>4 DEF TaskFollows, Fits, Exists
<1>7. Links' /\ Tells'
  BY <1>1, <1>4 DEF TaskFollows, Links, Tells, Told, Fresh, Busy, Settled, Exists
<1> QED BY <1>5, <1>6, <1>7 DEF TaskFollows

\* The enqueue.
LEMMA EnqueueFollows ==
    ASSUME Shape, TaskFollows, Enqueue
    PROVE  TaskFollows'
<1>1. PICK c \in JobIds : c = call.job /\ ~Exists(c)
  BY DEF Shape, Calling, Enqueue
<1>2. PICK d : d = NewDoc(call.kind, TRUE)
  OBVIOUS
<1>3. d.info = call.kind /\ d.status = "pending" /\ d.attempts = 0
  BY <1>2 DEF NewDoc
<1>4. /\ UNCHANGED <<task, ex, mode, faults, past>> /\ job' = [job EXCEPT ![c] = d]
      /\ call.at = "enqueue"
      /\ call.kind = "goal" => call' = NoCall
      /\ call.kind # "goal" => call' = [call EXCEPT !.at = "link"]
  BY <1>1, <1>2 DEF Enqueue
<1>5. /\ call.kind = "goal" => call'.at = "idle"
      /\ call.kind # "goal" => /\ call'.at = "link" /\ call'.kind = call.kind /\ call'.job = call.job
                               /\ call'.revises = call.revises
  BY <1>4, ShapeFacts DEF NoCall, CallRows
<1>6. job'[c] = d /\ \A i \in JobIds \ {c} : job'[i] = job[i]
  BY <1>4 DEF Shape, Typed
<1>7. Exists(c)' /\ \A i \in JobIds \ {c} : Exists(i)' = Exists(i)
  <2>1. Typed'
    BY EnqueueGood DEF Shape
  <2>2. d # NoJob
    <3>1. d \in Docs
      BY <1>2, <1>3, ShapeFacts, HarnessHostAssumption DEF NewDoc, Docs, Statuses
    <3> QED BY <3>1, JobDocAssumption
  <2> QED BY <1>6, <2>2 DEF Exists
<1>8. OneAtWork'
  BY <1>4 DEF TaskFollows, OneAtWork, AllUntold, Busy
<1>9. Waits'
  BY <1>3, <1>4, <1>6, <1>7 DEF TaskFollows, Waits
<1>10. Fits'
  BY <1>1, <1>3, <1>4, <1>5, <1>6, <1>7, ShapeFacts DEF TaskFollows, Fits
<1>11. Links'
  <2>1. call'.at = "link" /\ ~call'.revises => c = 1
    BY <1>1, <1>4, <1>5 DEF TaskFollows, Fits
  <2> QED BY <1>3, <1>6, <2>1 DEF Links, Fresh
<1>12. Tells'
  <2>1. task.job # 0 => task.job \in JobIds /\ task.job # c
    BY <1>1, ShapeFacts DEF TaskFollows, Fits
  <2> QED BY <1>4, <1>6, <1>7, <2>1 DEF TaskFollows, Tells, Told, Fresh, Busy, Settled
<1> QED BY <1>8, <1>9, <1>10, <1>11, <1>12 DEF TaskFollows

\* The link of the task to its job.
LEMMA LinkFollows ==
    ASSUME Shape, TaskFollows, Link
    PROVE  TaskFollows'
<1>1. PICK c \in JobIds : c = call.job /\ Exists(c)
  BY DEF Shape, Calling, Link
<1>2. /\ UNCHANGED <<job, ex, mode>> /\ call'.at = "idle" /\ call.at = "link" /\ TryTask(Linked)
  BY DEF Link, NoCall
<1>3. PICK l : l = Linked
  OBVIOUS
<1>4. /\ call.revises => l.status = "pending" /\ l.job = c
      /\ ~call.revises => l.status = task.status /\ l.job = c
  BY <1>1, <1>3, ShapeFacts DEF Linked, TaskRows
<1>5. \/ task' = l /\ faults' = faults
      \/ task' = task /\ faults' = faults + 1
  BY <1>2, <1>3 DEF TryTask, Throws
<1>6. /\ \A i \in JobIds : past[i].untold => past'[i].untold
      /\ \A i \in JobIds \ {c} : past'[i].untold = past[i].untold
      /\ past'[c].untold = (past[c].untold \/ (call.revises /\ job[c].attempts > 0))
  <2>1. PICK x : x = [past[c] EXCEPT !.untold = @ \/ (call.revises /\ job[c].attempts > 0)]
    OBVIOUS
  <2>2. x.untold = (past[c].untold \/ (call.revises /\ job[c].attempts > 0))
    BY <2>1, ShapeFacts DEF Pasts
  <2>3. past' = [past EXCEPT ![c] = x]
    BY <1>1, <2>1 DEF Link
  <2> QED BY <2>2, <2>3 DEF Shape, Typed
<1>7. OneAtWork'
  BY <1>2, <1>6 DEF TaskFollows, OneAtWork, AllUntold, Busy
<1>8. Waits'
  BY <1>2, <1>6 DEF TaskFollows, Waits, Exists
<1>9. Fits'
  <2>1. task.status # "none" /\ task'.status # "none"
    BY <1>1, <1>2, <1>4, <1>5, ShapeFacts DEF TaskFollows, Fits
  <2>2. task'.job # 0 => job'[task'.job] # NoJob
    <3>1. task' = l \/ task' = task
      BY <1>5
    <3>2. l.job = c /\ (task.job # 0 => job[task.job] # NoJob) /\ job[c] # NoJob
      BY <1>1, <1>4, ShapeFacts DEF TaskFollows, Fits, Exists
    <3> QED BY <1>2, <3>1, <3>2
  <2> QED BY <1>2, <2>1, <2>2 DEF TaskFollows, Fits, Exists
<1>10. Links'
  BY <1>2 DEF Links
<1>11. Tells'
  <2>1. CASE faults' # 0
    BY <2>1 DEF Tells
  <2>2. CASE faults' = 0
    <3>1. task' = l /\ faults = 0 /\ l.job = c
      BY <1>4, <1>5, <2>2, ShapeFacts
    <3>2. CASE call.revises
      <4>1. ASSUME ~past'[c].untold PROVE Fresh(c)
        <5>1. ~past[c].untold /\ ~(job[c].attempts > 0)
          BY <1>6, <3>2, <4>1
        <5>2. job[c].attempts \in Nat
          BY <1>1, ShapeFacts
        <5>3. job[c].attempts = 0
          BY <5>1, <5>2
        <5> QED BY <1>1, <5>1, <5>3 DEF TaskFollows, Waits, Fresh
      <4> QED BY <1>2, <3>1, <4>1 DEF Tells, Fresh
    <3>3. CASE ~call.revises
      <4>1. c = 1 /\ (\A i \in JobIds \ {1} : ~Exists(i) /\ ex[i].at = "idle") /\ l.status = task.status
        BY <1>1, <1>2, <1>4, <3>3, ShapeFacts DEF TaskFollows, Fits, Busy
      <4>2. CASE task.job = 0
        <5>1. past[1].untold \/ Fresh(1) \/ ex[1].at \in {"start", "mark"}
          BY <1>2, <3>1, <3>3, <4>2 DEF TaskFollows, Links
        <5>2. ex[1].at \in {"start", "mark"} => Told(1)'
          BY <1>2, <4>1 DEF Told, Busy
        <5> QED BY <1>2, <1>6, <3>1, <4>1, <5>1, <5>2 DEF Tells, Fresh
      <4>3. CASE task.job # 0
        <5>1. task.job = 1
          BY <4>1, <4>3, ShapeFacts DEF TaskFollows, Fits
        <5>2. ~past'[1].untold => Fresh(1) \/ Told(1)
          BY <1>6, <3>1, <4>1, <4>3, <5>1 DEF TaskFollows, Tells
        <5> QED BY <1>2, <3>1, <4>1, <5>2 DEF Tells, Told, Fresh, Busy, Settled, Exists
      <4> QED BY <4>2, <4>3
    <3> QED BY <3>2, <3>3
  <2> QED BY <2>1, <2>2
<1> QED BY <1>7, <1>8, <1>9, <1>10, <1>11 DEF TaskFollows

\* A step that only rewrites jobs, in their kind, fits as before.
LEMMA FitsKept ==
    ASSUME Fits, UNCHANGED <<task, call>>,
           \A i \in JobIds : (Exists(i)' <=> Exists(i)) /\ (Exists(i) => job'[i].info = job[i].info),
           task.job \in JobIds \cup {0}
    PROVE  Fits'
BY DEF Fits

\* A job that becomes due.
LEMMA BecomeDueFollows ==
    ASSUME Shape, TaskFollows, NEW j \in JobIds, BecomeDue(j)
    PROVE  TaskFollows'
<1>1. PICK d : d = [job[j] EXCEPT !.due = TRUE]
  OBVIOUS
<1>2. UNCHANGED <<task, ex, call, mode, faults, past>> /\ job' = [job EXCEPT ![j] = d] /\ Exists(j)
  BY <1>1 DEF BecomeDue
<1>3. job[j] \in Docs
  BY <1>2, Base DEF Shape
<1>4. d # NoJob /\ d.info = job[j].info /\ d.status = job[j].status /\ d.attempts = job[j].attempts
  BY <1>1, <1>3, DueFacts, JobDocAssumption
<1>5. job'[j] = d /\ \A i \in JobIds \ {j} : job'[i] = job[i]
  BY <1>2 DEF Shape, Typed
<1>6. \A i \in JobIds : /\ Exists(i)' <=> Exists(i)
                        /\ job'[i].info = job[i].info /\ job'[i].status = job[i].status
                        /\ job'[i].attempts = job[i].attempts
  BY <1>2, <1>4, <1>5 DEF Exists
<1>7. OneAtWork' /\ Waits'
  BY <1>2, <1>6 DEF TaskFollows, OneAtWork, Waits, AllUntold, Busy
<1>8. Fits'
  BY <1>2, <1>6, ShapeFacts, FitsKept DEF TaskFollows
<1>9. Links' /\ Tells'
  BY <1>2, <1>6, ShapeFacts DEF TaskFollows, Links, Tells, Told, Fresh, Busy, Settled
<1> QED BY <1>7, <1>8, <1>9 DEF TaskFollows

\* The start of an executor.
LEMMA StartFollows ==
    ASSUME Shape, TaskFollows, NEW j \in JobIds, Start(j)
    PROVE  TaskFollows'
<1>1. /\ UNCHANGED <<task, call, mode, faults>> /\ mode = "up" /\ Exists(j) /\ ~Busy(j)
  BY DEF Start
<1>2. job[j] \in Docs /\ boot \in Boots
  <2>1. boot \in Boots
    BY HarnessHostAssumption DEF Shape, Typed
  <2> QED BY <1>1, <2>1, Base DEF Shape
<1>3. PICK d : d = Claimed(job[j], boot)
  OBVIOUS
<1>4. d # NoJob /\ d.status = "running" /\ d.info = job[j].info /\ d.attempts = job[j].attempts + 1
  BY <1>2, <1>3, ClaimedFacts, JobDocAssumption
<1>5. PICK x : x = [Idle EXCEPT !.at = "start"]
  OBVIOUS
<1>6. x.at = "start"
  BY <1>5 DEF Idle
<1>7. /\ job'[j] = d /\ ex'[j] = x
      /\ \A i \in JobIds \ {j} : job'[i] = job[i] /\ ex'[i] = ex[i]
  BY <1>3, <1>5 DEF Start, Shape, Typed
<1>8. /\ d.attempts # 0 /\ Busy(j)' /\ Exists(j)'
      /\ \A i \in JobIds \ {j} : (Busy(i)' <=> Busy(i)) /\ (Exists(i)' <=> Exists(i))
  BY <1>1, <1>4, <1>6, <1>7, ShapeFacts DEF Busy, Exists
<1>9. Fits'
  BY <1>1, <1>4, <1>7, <1>8, ShapeFacts, FitsKept DEF TaskFollows
<1>10. CASE past' # past
  <2>1. past' = [i \in JobIds |-> [past[i] EXCEPT !.untold = TRUE]]
    BY <1>10 DEF Start
  <2>2. \A i \in JobIds : past'[i].untold
    <3>1. ASSUME NEW i \in JobIds PROVE past'[i].untold
      BY <2>1, ShapeFacts DEF Pasts
    <3> QED BY <3>1
  <2>3. OneAtWork' /\ Waits' /\ Links' /\ Tells'
    BY <1>1, <2>2, ShapeFacts DEF OneAtWork, AllUntold, Waits, Links, Tells
  <2> QED BY <1>9, <2>3 DEF TaskFollows
<1>11. CASE past' = past
  <2>1. CASE AllUntold
    <3>1. OneAtWork' /\ Waits' /\ Links' /\ Tells'
      BY <1>1, <1>11, <2>1, ShapeFacts DEF OneAtWork, AllUntold, Waits, Links, Tells
    <3> QED BY <1>9, <3>1 DEF TaskFollows
  <2>2. CASE \A i \in JobIds \ {j} : Exists(i) => Settled(i) /\ ~Busy(i)
    <3>1. \A i \in JobIds \ {j} : ex[i].at = "idle" /\ ~Busy(i)'
      BY <1>8, <2>2, ShapeFacts DEF Busy
    <3>2. OneAtWork'
      BY <3>1 DEF OneAtWork
    <3>3. Waits'
      BY <1>4, <1>7, <1>8, <1>11 DEF TaskFollows, Waits
    <3>4. Links'
      <4>1. call.at = "link" /\ ~call.revises => j = 1
        BY <1>1 DEF TaskFollows, Fits
      <4> QED BY <1>1, <1>6, <1>7, <4>1 DEF Links
    <3>5. Tells'
      <4>1. CASE task.job = j
        <5>1. Told(j)'
          BY <1>6, <1>7, <1>8, <3>1 DEF Told
        <5> QED BY <1>1, <4>1, <5>1 DEF Tells
      <4>2. CASE task.job \in JobIds \ {j}
        <5>1. PICK k \in JobIds \ {j} : k = task.job
          BY <4>2
        <5>2. Settled(k) /\ ~Busy(k) /\ job'[k] = job[k] /\ ~Fresh(k)
          BY <1>7, <2>2, <5>1, ShapeFacts DEF TaskFollows, Fits, Settled, Terminal, Fresh
        <5>3. Told(k) => Told(k)'
          BY <1>1, <1>6, <1>7, <3>1, <5>2 DEF Told, Busy, Settled, Exists
        <5> QED BY <1>1, <1>11, <5>1, <5>2, <5>3 DEF TaskFollows, Tells
      <4>3. CASE task.job = 0
        BY <1>1, <4>3 DEF Tells
      <4> QED BY <4>1, <4>2, <4>3, ShapeFacts
    <3> QED BY <1>9, <3>2, <3>3, <3>4, <3>5 DEF TaskFollows
  <2>3. AllUntold \/ \A i \in JobIds \ {j} : Exists(i) => Settled(i) /\ ~Busy(i)
    <3>1. ASSUME ~\A i \in JobIds \ {j} : Exists(i) => Settled(i) /\ ~Busy(i), NEW i \in JobIds
          PROVE  past[i].untold
      <4>1. past' = [k \in JobIds |-> [past[k] EXCEPT !.untold = TRUE]]
        BY <3>1 DEF Start
      <4>2. past[i] = [past[i] EXCEPT !.untold = TRUE]
        BY <1>11, <4>1
      <4> QED BY <4>2, ShapeFacts DEF Pasts
    <3> QED BY <3>1 DEF AllUntold
  <2> QED BY <2>1, <2>2, <2>3
<1> QED BY <1>10, <1>11

\* The settlement of a job.
LEMMA SettleFollows ==
    ASSUME Shape, Returned, TaskFollows, NEW j \in JobIds, Settle(j)
    PROVE  TaskFollows'
<1>1. /\ UNCHANGED <<task, call, mode, faults, past>> /\ ex[j].at = "settle" /\ Busy(j) /\ Exists(j)
      /\ job[j].attempts # 0 /\ ~Fresh(j) /\ job[j] \in Docs
      /\ Owned(job[j], boot) \/ job[j].status = "cancelled"
  BY ShapeFacts, Base DEF Settle, Busy, Fresh, Shape
<1>2. (\A i \in JobIds \ {j} : ex'[i] = ex[i]) /\ ex'[j].at = "idle"
  BY DEF Settle, Idle, Shape, Typed
<1>3. PICK d : /\ job'[j] = d /\ (\A i \in JobIds \ {j} : job'[i] = job[i])
               /\ d # NoJob /\ d.info = job[j].info /\ d.attempts = job[j].attempts
               /\ d.status = "completed" => ex[j].result = "ok"
  <2>1. CASE job' = job
    <3>1. job[j].status # "completed"
      BY <1>1, ShapeFacts
    <3> QED BY <1>1, <2>1, <3>1 DEF Exists
  <2>2. CASE job' # job
    <3>1. ex[j].result \in {"ok", "retry", "fatal"}
      BY <1>1 DEF Returned
    <3>2. PICK d \in {Completed(job[j]), FailedOrRetried(job[j]), Failed(job[j])} :
             /\ job' = [job EXCEPT ![j] = d]
             /\ ex[j].result # "ok" => d \in {FailedOrRetried(job[j]), Failed(job[j])}
      <4>1. job' = [job EXCEPT ![j] = CASE ex[j].result = "ok" -> Completed(job[j])
                                        [] ex[j].result = "retry" -> FailedOrRetried(job[j])
                                        [] ex[j].result = "fatal" -> Failed(job[j])]
        BY <2>2 DEF Settle
      <4>2. CASE ex[j].result = "ok"
        BY <4>1, <4>2
      <4>3. CASE ex[j].result = "retry"
        BY <4>1, <4>3
      <4>4. CASE ex[j].result = "fatal"
        BY <4>1, <4>4
      <4> QED BY <3>1, <4>2, <4>3, <4>4
    <3>3. \A e \in {FailedOrRetried(job[j]), Failed(job[j])} : e.status # "completed"
      <4>1. \A s \in Statuses : Released(job[j], s) \in Docs /\ Released(job[j], s).status = s
        BY <1>1, ReleasedFacts
      <4>2. Failed(job[j]).status = "failed"
        BY <4>1 DEF Failed, Statuses
      <4>3. FailedOrRetried(job[j]).status # "completed"
        <5>1. PICK r : r = Released(job[j], "pending")
          OBVIOUS
        <5>2. r \in Docs /\ r.status = "pending"
          BY <4>1, <5>1 DEF Statuses
        <5>3. [r EXCEPT !.retry = @ + 1, !.due = FALSE].status = "pending"
          BY <5>2 DEF Docs
        <5>4. FailedOrRetried(job[j]) \in {Released(job[j], "failed"), [r EXCEPT !.retry = @ + 1, !.due = FALSE]}
          BY <5>1 DEF FailedOrRetried
        <5> QED BY <4>1, <5>3, <5>4 DEF Statuses
      <4> QED BY <4>2, <4>3
    <3>4. d \in Docs /\ d.info = job[j].info /\ d.attempts = job[j].attempts
      BY <1>1, <3>2, SettledFacts
    <3>5. job'[j] = d /\ (\A i \in JobIds \ {j} : job'[i] = job[i])
      BY <3>2 DEF Shape, Typed
    <3>6. d.status = "completed" => ex[j].result = "ok"
      BY <3>2, <3>3
    <3> QED BY <3>4, <3>5, <3>6, JobDocAssumption
  <2> QED BY <2>1, <2>2
<1>4. /\ Exists(j)' /\ ~Busy(j)'
      /\ \A i \in JobIds \ {j} : (Busy(i)' <=> Busy(i)) /\ (Exists(i)' <=> Exists(i))
  BY <1>2, <1>3 DEF Busy, Exists
<1>5. OneAtWork'
  BY <1>1, <1>4 DEF TaskFollows, OneAtWork, AllUntold
<1>6. Waits'
  BY <1>1, <1>3, <1>4 DEF TaskFollows, Waits
<1>7. Fits'
  BY <1>1, <1>3, <1>4, ShapeFacts, FitsKept DEF TaskFollows
<1>8. Links'
  <2>1. call.at = "link" /\ ~call.revises => j = 1
    BY <1>1 DEF TaskFollows, Fits
  <2> QED BY <1>1, <2>1 DEF TaskFollows, Links
<1>9. Tells'
  <2>1. CASE task.job = j
    <3>1. Told(j) => Told(j)'
      BY <1>1, <1>2, <1>3, <1>4 DEF Told
    <3> QED BY <1>1, <2>1, <3>1 DEF TaskFollows, Tells
  <2>2. CASE task.job \in JobIds \ {j}
    <3>1. PICK k \in JobIds \ {j} : k = task.job
      BY <2>2
    <3>2. (Fresh(k) => Fresh(k)') /\ (Told(k) => Told(k)')
      BY <1>1, <1>2, <1>3, <1>4 DEF Told, Fresh, Busy, Settled
    <3> QED BY <1>1, <3>1, <3>2 DEF TaskFollows, Tells
  <2>3. CASE task.job = 0
    BY <1>1, <2>3 DEF Tells
  <2> QED BY <2>1, <2>2, <2>3, ShapeFacts
<1> QED BY <1>5, <1>6, <1>7, <1>8, <1>9 DEF TaskFollows

\* A timeout, which leaves it to the executor to tell the task.
LEMMA TimeOutFollows ==
    ASSUME Shape, TaskFollows, NEW j \in JobIds, TimeOut(j)
    PROVE  TaskFollows'
<1>1. UNCHANGED <<job, task, call, mode, faults, past>>
  BY DEF TimeOut
<1>2. \A i \in JobIds : ex'[i].at = ex[i].at /\ ex'[i].result = ex[i].result
  <2>1. ex[j] \in Executors /\ ex' = [ex EXCEPT ![j] = [ex[j] EXCEPT !.aborted = TRUE]]
    BY DEF TimeOut, Shape, Typed
  <2>2. PICK x : x = [ex[j] EXCEPT !.aborted = TRUE]
    OBVIOUS
  <2>3. x.at = ex[j].at /\ x.result = ex[j].result
    BY <2>1, <2>2 DEF Executors
  <2> QED BY <2>1, <2>2, <2>3 DEF Shape, Typed
<1>3. OneAtWork' /\ Waits' /\ Links'
  BY <1>1, <1>2, ShapeFacts DEF TaskFollows, OneAtWork, AllUntold, Waits, Links, Fresh, Busy, Exists
<1>4. Fits'
  BY <1>1 DEF TaskFollows, Fits, Exists
<1>5. Tells'
  BY <1>1, <1>2, ShapeFacts DEF TaskFollows, Tells, Told, Fresh, Busy, Settled, Exists
<1> QED BY <1>3, <1>4, <1>5 DEF TaskFollows

\* A cancellation.
LEMMA CancelFollows ==
    ASSUME Shape, TaskFollows, NEW j \in JobIds, Cancel(j)
    PROVE  TaskFollows'
<1>1. UNCHANGED <<task, call, mode, faults>> /\ Exists(j) /\ job[j] \in Docs
  BY Base DEF Cancel, Shape
<1>2. PICK d : d = Cancelled(job[j])
  OBVIOUS
<1>3. d # NoJob /\ d.status = "cancelled" /\ d.info = job[j].info /\ d.attempts = job[j].attempts
  BY <1>1, <1>2, SettledFacts, ReleasedFacts, JobDocAssumption DEF Cancelled, Statuses
<1>4. job'[j] = d /\ \A i \in JobIds \ {j} : job'[i] = job[i]
  BY <1>2 DEF Cancel, Shape, Typed
<1>5. \A i \in JobIds : ex'[i].at = ex[i].at /\ ex'[i].result = ex[i].result
  <2>1. ex[j] \in Executors
    BY DEF Shape, Typed
  <2>2. PICK x : x = [ex[j] EXCEPT !.aborted = TRUE]
    OBVIOUS
  <2>3. x.at = ex[j].at /\ x.result = ex[j].result
    BY <2>1, <2>2 DEF Executors
  <2>4. ex' = ex \/ ex' = [ex EXCEPT ![j] = x]
    BY <2>2 DEF Cancel
  <2> QED BY <2>3, <2>4 DEF Shape, Typed
<1>6. \A i \in JobIds : past'[i].untold = (past[i].untold \/ (i = j /\ ~Busy(j)))
  <2>1. PICK p : p = [past[j] EXCEPT !.untold = TRUE]
    OBVIOUS
  <2>2. p.untold
    BY <2>1, ShapeFacts DEF Pasts
  <2>3. past' = IF Busy(j) THEN past ELSE [past EXCEPT ![j] = p]
    BY <2>1 DEF Cancel
  <2> QED BY <2>2, <2>3, ShapeFacts DEF Shape, Typed
<1>7. \A i \in JobIds : (Busy(i)' <=> Busy(i)) /\ (Exists(i)' <=> Exists(i))
                        /\ (Exists(i) => job'[i].info = job[i].info)
  BY <1>1, <1>3, <1>4, <1>5 DEF Busy, Exists
<1>8. OneAtWork'
  BY <1>6, <1>7 DEF TaskFollows, OneAtWork, AllUntold
<1>9. Waits'
  <2> SUFFICES ASSUME NEW i \in JobIds, Exists(i)', job'[i].attempts = 0, ~past'[i].untold
               PROVE  job'[i].status = "pending"
    BY DEF Waits
  <2>1. Exists(i) /\ ~past[i].untold /\ (i = j => Busy(j))
    BY <1>6, <1>7
  <2>2. i # j
    <3>1. Busy(j) => job[j].attempts # 0
      BY ShapeFacts
    <3> QED BY <1>3, <1>4, <2>1, <3>1
  <2> QED BY <1>4, <2>1, <2>2 DEF TaskFollows, Waits
<1>10. Fits'
  BY <1>1, <1>7, ShapeFacts, FitsKept DEF TaskFollows
<1>11. Busy(j) => ~Fresh(j)
  BY ShapeFacts DEF Fresh
<1>12. Links'
  BY <1>1, <1>4, <1>5, <1>6, <1>11, ShapeFacts DEF TaskFollows, Links, Fresh, Busy
<1>13. Tells'
  <2>1. CASE task.job = 0
    BY <1>1, <2>1 DEF Tells
  <2>2. CASE task.job = j
    <3>1. Busy(j) /\ Told(j) => Told(j)'
      BY <1>1, <1>5, <1>7 DEF Told
    <3> QED BY <1>1, <1>6, <1>11, <2>2, <3>1, ShapeFacts DEF TaskFollows, Tells
  <2>3. CASE task.job \in JobIds \ {j}
    <3>1. PICK k \in JobIds \ {j} : k = task.job
      BY <2>3
    <3>2. (Fresh(k) => Fresh(k)') /\ (Told(k) => Told(k)')
      BY <1>1, <1>4, <1>5, <1>7 DEF Told, Fresh, Settled
    <3> QED BY <1>1, <1>6, <3>1, <3>2 DEF TaskFollows, Tells
  <2> QED BY <2>1, <2>2, <2>3, ShapeFacts
<1> QED BY <1>8, <1>9, <1>10, <1>12, <1>13 DEF TaskFollows

\* A crash, which counts against the task until boot repairs it.
LEMMA CrashFollows ==
    ASSUME Shape, TaskFollows, Crash
    PROVE  TaskFollows'
<1>1. /\ UNCHANGED <<job, task, faults, past>> /\ mode' = "runs" /\ call'.at = "idle"
      /\ \A i \in JobIds : ex'[i].at = "idle" /\ ~Busy(i)'
  BY DEF Crash, NoCall, Idle, Busy
<1>2. OneAtWork' /\ Waits' /\ Links'
  BY <1>1 DEF TaskFollows, OneAtWork, Waits, Links, Exists
<1>3. Fits'
  BY <1>1 DEF TaskFollows, Fits, Exists
<1>4. Tells'
  <2>1. CASE task.job = 0
    BY <1>1, <2>1 DEF Tells
  <2>2. ASSUME NEW k \in JobIds, k = task.job PROVE Tells'
    <3>1. job[k].status = "completed" => ~Busy(k)
      BY ShapeFacts
    <3>2. Told(k) => Told(k)'
      BY <1>1, <3>1 DEF Told, Settled, Exists, Terminal
    <3> QED BY <1>1, <2>2, <3>2 DEF TaskFollows, Tells, Fresh
  <2> QED BY <2>1, <2>2, ShapeFacts
<1> QED BY <1>2, <1>3, <1>4 DEF TaskFollows

\* Each phase of the boot.
LEMMA ReconcileFollows ==
    ASSUME Shape, TaskFollows, Reconcile
    PROVE  TaskFollows'
<1>1. /\ mode # "up" /\ call.at = "idle" /\ UNCHANGED <<ex, call, faults, past>>
      /\ \A i \in JobIds : ~Busy(i) /\ ~Busy(i)' /\ ex'[i].at = "idle"
  <2>1. mode # "up" /\ UNCHANGED <<ex, call, faults, past>>
    BY DEF Reconcile, ReconcileRuns, ReconcileJobs, ReconcileTasks
  <2> QED BY <2>1, NobodyAtBoot DEF Busy
<1>2. OneAtWork' /\ Links'
  BY <1>1 DEF OneAtWork, Links
<1>3. CASE ReconcileRuns
  <2>1. UNCHANGED <<job, task>> /\ mode' = "jobs"
    BY <1>3 DEF ReconcileRuns
  <2>2. Waits' /\ Fits'
    BY <1>1, <2>1 DEF TaskFollows, Waits, Fits, Exists
  <2>3. Tells'
    BY <1>1, <2>1, ShapeFacts DEF TaskFollows, Tells, Told, Fresh, Settled, Exists, Busy
  <2> QED BY <1>2, <2>2, <2>3 DEF TaskFollows
<1>4. CASE ReconcileJobs
  <2>1. UNCHANGED task /\ mode' = "tasks"
    BY <1>4 DEF ReconcileJobs
  <2>2. ASSUME NEW i \in JobIds
        PROVE  /\ Exists(i)' <=> Exists(i)
               /\ Exists(i) => job'[i].info = job[i].info /\ job'[i].attempts = job[i].attempts
               /\ job[i].status = "pending" => job'[i] = job[i]
               /\ Exists(i) /\ job'[i].status = "completed" => job[i].status = "completed"
               /\ job[i].status = "completed" => job'[i] = job[i]
    <3>1. job'[i] = IF Exists(i) /\ Orphan(job[i]) THEN Reclaimed(job[i]) ELSE job[i]
      BY <1>4 DEF ReconcileJobs
    <3>2. CASE Exists(i) /\ Orphan(job[i])
      <4>1. job[i] \in Docs /\ job[i].status = "running"
        BY <3>2, Base DEF Shape, Orphan
      <4>2. job'[i] = Reclaimed(job[i])
        BY <3>1, <3>2
      <4>3. /\ Reclaimed(job[i]) \in Docs /\ Reclaimed(job[i]).info = job[i].info
            /\ Reclaimed(job[i]).attempts = job[i].attempts
        BY <4>1, SettledFacts
      <4>4. Reclaimed(job[i]).status \in {"interrupted", "pending"}
        BY <4>1, ReleasedFacts DEF Reclaimed, Statuses
      <4> QED BY <3>2, <4>1, <4>2, <4>3, <4>4, JobDocAssumption DEF Exists
    <3>3. CASE ~(Exists(i) /\ Orphan(job[i]))
      BY <3>1, <3>3 DEF Exists
    <3> QED BY <3>2, <3>3
  <2>3. Waits'
    BY <1>1, <2>2 DEF TaskFollows, Waits
  <2>4. Fits'
    BY <1>1, <2>1, <2>2, ShapeFacts, FitsKept DEF TaskFollows
  <2>5. Tells'
    <3>1. CASE task.job = 0
      BY <2>1, <3>1 DEF Tells
    <3>2. ASSUME NEW k \in JobIds, k = task.job PROVE Tells'
      <4>1. Exists(k) /\ (Fresh(k) => Fresh(k)')
        BY <2>2, <3>2, ShapeFacts DEF TaskFollows, Fits, Fresh
      <4>2. job'[k].status = "completed" => job[k].status = "completed"
        BY <2>2, <4>1
      <4>3. Told(k) => Told(k)'
        <5>1. Settled(k) \/ job[k].status # "completed"
          BY <4>1 DEF Settled, Terminal
        <5> QED BY <1>1, <2>1, <4>2, <5>1 DEF Told
      <4> QED BY <1>1, <2>1, <3>2, <4>1, <4>3 DEF TaskFollows, Tells
    <3> QED BY <3>1, <3>2, ShapeFacts
  <2> QED BY <1>2, <2>3, <2>4, <2>5 DEF TaskFollows
<1>5. CASE ReconcileTasks
  <2>1. UNCHANGED job /\ mode' = "up"
    BY <1>5 DEF ReconcileTasks
  <2>2. PICK s \in {"failed", "pending"} :
           task' = IF task.status # "in_progress" \/ HasLiveJob THEN task
                   ELSE [task EXCEPT !.attempts = @ + 1, !.status = s]
    BY <1>5 DEF ReconcileTasks
  <2>3. /\ task'.job = task.job
        /\ task.status # "in_progress" \/ HasLiveJob => task' = task
        /\ task.status = "in_progress" /\ ~HasLiveJob => task'.status \in {"failed", "pending"}
        /\ task'.status = "none" <=> task.status = "none"
    <3>1. task \in TaskRows
      BY ShapeFacts
    <3>2. PICK r : r = [task EXCEPT !.attempts = @ + 1, !.status = s]
      OBVIOUS
    <3>3. r.job = task.job /\ r.status = s
      BY <3>1, <3>2 DEF TaskRows
    <3> QED BY <2>2, <3>2, <3>3
  <2>4. Waits'
    BY <1>1, <2>1 DEF TaskFollows, Waits, Exists
  <2>5. Fits'
    BY <1>1, <2>1, <2>3 DEF TaskFollows, Fits, Exists
  <2>6. Tells'
    <3>1. CASE task.job = 0
      BY <2>3, <3>1 DEF Tells
    <3>2. ASSUME NEW k \in JobIds, k = task.job PROVE Tells'
      <4>1. Fresh(k) => Fresh(k)'
        BY <2>1 DEF Fresh
      <4>2. Settled(k) => ~HasLiveJob
        BY <3>2 DEF Settled, Terminal, HasLiveJob
      <4>3. Told(k) => Told(k)'
        BY <1>1, <2>1, <2>3, <4>2 DEF Told, Settled, Exists, Terminal
      <4> QED BY <1>1, <2>3, <3>2, <4>1, <4>3 DEF TaskFollows, Tells
    <3> QED BY <3>1, <3>2, ShapeFacts
  <2> QED BY <1>2, <2>4, <2>5, <2>6 DEF TaskFollows
<1> QED BY <1>3, <1>4, <1>5 DEF Reconcile

\* What an executor of a worker may do to the task it works for.
WorkerTells(j) ==
    \/ ex[j].at = "start" /\ past'[j].untold /\ ex'[j].at = "settle" /\ task' = task
    \/ ex[j].at = "start" /\ ex'[j].at = "mark" /\ task' = task
    \/ ex[j].at = "mark" /\ ex'[j].at = "prepare" /\ (faults' = 0 => task'.job = j)
    \/ /\ ex[j].at \notin {"start", "mark", "settle"} /\ task'.job = task.job
       /\ \/ ex'[j].at \notin {"idle", "proof", "settle"}
          \/ ex'[j].at = "proof" /\ (faults' = 0 => task'.status = "completed")
          \/ ex'[j].at = "settle" /\ ex'[j].result # "ok"
             /\ (faults' = 0 => task'.status \in {"pending", "blocked", "failed"})
          \/ ex[j].at = "proof" /\ ex'[j].at = "settle" /\ task' = task

\* A worker that writes the task row writes what its job and run come to.
LEMMA TaskStepTells ==
    ASSUME Shape, NEW j \in JobIds, TaskStep(j)
    PROVE  WorkerTells(j) /\ (task' = task \/ task'.status # "none") /\ task'.job \in {task.job, j}
<1>0. Typed /\ task \in TaskRows /\ faults \in Nat
  BY ShapeFacts DEF Shape
<1>1. ASSUME NEW at \in WorkerPlaces, Goto(j, at) PROVE ex'[j].at = at
  <2>1. ex'[j] = [ex[j] EXCEPT !.at = at] /\ ex[j] \in Executors
    BY <1>0, <1>1, GotoFacts, Base
  <2> QED BY <2>1 DEF Executors
<1>2. ASSUME NEW r \in {"ok", "retry", "fatal"}, Return(j, r) PROVE ex'[j].at = "settle" /\ ex'[j].result = r
  BY <1>0, <1>2, ReturnFacts
<1>3. ASSUME NEW s \in {"pending", "blocked", "completed", "failed"}, TryTask([task EXCEPT !.status = s])
      PROVE  /\ task'.job = task.job /\ (task' = task \/ task'.status # "none")
             /\ faults' = 0 => task'.status = s
  <2>1. PICK r : r = [task EXCEPT !.status = s]
    OBVIOUS
  <2>2. r.status = s /\ r.job = task.job
    BY <1>0, <2>1 DEF TaskRows
  <2>3. (task' = r /\ faults' = faults) \/ (task' = task /\ faults' = faults + 1)
    BY <1>3, <2>1 DEF TryTask, Throws
  <2> QED BY <1>0, <2>2, <2>3
<1>4. CASE FindWorker(j)
  <2>1. ex[j].at = "start" /\ task' = task
    BY <1>4 DEF FindWorker, Worker, At
  <2>2. CASE Goto(j, "mark")
    BY <1>1, <2>1, <2>2 DEF WorkerTells, WorkerPlaces
  <2>3. CASE Return(j, "fatal") /\ past' = [past EXCEPT ![j].untold = TRUE]
    <3>1. past'[j].untold
      BY <1>0, <2>3, ShapeFacts DEF Typed, Pasts
    <3> QED BY <1>2, <2>1, <2>3, <3>1 DEF WorkerTells
  <2> QED BY <1>4, <2>2, <2>3 DEF FindWorker
<1>5. CASE MarkInProgress(j)
  <2>1. ex[j].at = "mark" /\ ex'[j].at = "prepare"
    BY <1>1, <1>5 DEF MarkInProgress, Worker, At, WorkerPlaces
  <2>2. PICK r : r = [task EXCEPT !.status = "in_progress", !.job = j]
    OBVIOUS
  <2>3. r.status = "in_progress" /\ r.job = j
    BY <1>0, <2>2 DEF TaskRows
  <2>4. (task' = r /\ faults' = faults) \/ (task' = task /\ faults' = faults + 1)
    BY <1>5, <2>2 DEF MarkInProgress, TryTask, Throws
  <2> QED BY <1>0, <2>1, <2>3, <2>4 DEF WorkerTells
<1>6. CASE Prepare(j)
  BY <1>1, <1>6 DEF Prepare, Worker, At, WorkerTells, WorkerPlaces
<1>7. CASE Restore(j)
  <2>1. ex[j].at = "restore" /\ task' = task
    BY <1>7 DEF Restore, Worker, At
  <2>2. ex'[j].at \in {"reclaim", "catch"}
    <3>1. CASE ex' = [ex EXCEPT ![j].at = "reclaim", ![j].known = Known(run[j]), ![j].iterations = Iterations(run[j])]
      BY <1>0, <3>1 DEF Typed, Executors
    <3>2. CASE Goto(j, "catch")
      BY <1>1, <3>2 DEF WorkerPlaces
    <3> QED BY <1>7, <3>1, <3>2 DEF Restore
  <2> QED BY <2>1, <2>2 DEF WorkerTells
<1>8. CASE Reclaim(j)
  BY <1>1, <1>8 DEF Reclaim, Worker, At, WorkerTells, WorkerPlaces
<1>9. CASE Aborted(j)
  BY <1>2, <1>3, <1>9 DEF Aborted, Worker, At, WorkerTells
<1>10. CASE Judge(j)
  <2>1. ex[j].at = "judge"
    BY <1>10 DEF Judge, Worker, At
  <2>2. CASE TryTask([task EXCEPT !.status = "blocked"]) /\ Return(j, "fatal")
    BY <1>2, <1>3, <2>1, <2>2 DEF WorkerTells
  <2>3. CASE task' = task /\ (Goto(j, "accept") \/ Goto(j, "catch"))
    BY <1>1, <2>1, <2>3 DEF WorkerTells, WorkerPlaces
  <2> QED BY <1>10, <2>2, <2>3 DEF Judge
<1>11. CASE Accept(j)
  BY <1>1, <1>3, <1>11 DEF Accept, Worker, At, WorkerTells, WorkerPlaces
<1>12. CASE BuildProof(j)
  <2>1. ex[j].at = "proof" /\ task' = task
    BY <1>12 DEF BuildProof, Worker, At
  <2> QED BY <1>1, <1>2, <1>12, <2>1 DEF BuildProof, WorkerTells, WorkerPlaces
<1>13. CASE Catch(j)
  BY <1>2, <1>3, <1>13 DEF Catch, Worker, At, WorkerTells
<1> QED BY <1>4, <1>5, <1>6, <1>7, <1>8, <1>9, <1>10, <1>11, <1>12, <1>13 DEF TaskStep

\* The loop leaves the task alone.
LEMMA LoopTells ==
    ASSUME Shape, NEW j \in JobIds, LoopStep(j) \/ EndStep(j)
    PROVE  WorkerTells(j) /\ task' = task
<1>0. Typed /\ ex[j] \in Executors /\ ex \in [JobIds -> Executors]
  BY DEF Shape, Typed
<1>1. ASSUME NEW at \in WorkerPlaces, Goto(j, at) PROVE ex'[j].at = at
  <2>1. ex'[j] = [ex[j] EXCEPT !.at = at]
    BY <1>0, <1>1, GotoFacts
  <2> QED BY <1>0, <2>1 DEF Executors
<1>2. task' = task /\ ex[j].at \notin {"start", "mark", "settle"}
  BY DEF LoopStep, EndStep, Iterate, LeaveLoop, Answer, PreCheckpoint, RunTools, ToolResults, PostCheckpoint,
         Synthesize, LastCheckpoint, Close, Thrown, Finally, Worker, At
<1>3. CASE Iterate(j)
  <2>1. ex'[j].at = "model"
    BY <1>0, <1>3 DEF Iterate, Executors
  <2> QED BY <1>2, <2>1 DEF WorkerTells
<1>4. CASE Answer(j)
  <2>1. ex' = [ex EXCEPT ![j].at = "pre", ![j].calling = past[j].llm] => ex'[j].at = "pre"
    BY <1>0 DEF Executors
  <2>2. ex'[j].at \in {"pre", "last", "synthesis", "thrown"}
    BY <1>1, <1>4, <2>1 DEF Answer, WorkerPlaces
  <2> QED BY <1>2, <2>2 DEF WorkerTells
<1>5. CASE ToolResults(j)
  <2>1. ASSUME NEW at \in {"post", "last"},
               ex' = [ex EXCEPT ![j].at = at, ![j].calling = 0, ![j].known = @ \cup {ex[j].calling}]
        PROVE  ex'[j].at = at
    BY <1>0, <2>1 DEF Executors
  <2>2. ex'[j].at \in {"post", "last", "thrown"}
    BY <1>1, <1>5, <2>1 DEF ToolResults, WorkerPlaces
  <2> QED BY <1>2, <2>2 DEF WorkerTells
<1>6. CASE Thrown(j)
  <2>1. ex'[j].at = "finally"
    BY <1>0, <1>6 DEF Thrown, Executors
  <2> QED BY <1>2, <2>1 DEF WorkerTells
<1>7. ASSUME NEW at \in {"last", "synthesis", "tools", "results", "loop", "thrown", "close", "finally", "catch", "judge"},
             Goto(j, at)
      PROVE  WorkerTells(j)
  <2>1. ex'[j].at = at
    BY <1>1, <1>7 DEF WorkerPlaces
  <2> QED BY <1>2, <2>1 DEF WorkerTells
<1>8. CASE LeaveLoop(j) \/ PreCheckpoint(j) \/ RunTools(j) \/ PostCheckpoint(j) \/ Synthesize(j)
  BY <1>2, <1>7, <1>8 DEF LeaveLoop, PreCheckpoint, RunTools, PostCheckpoint, Synthesize
<1>9. CASE LastCheckpoint(j) \/ Close(j)
  BY <1>2, <1>7, <1>9 DEF LastCheckpoint, Close
<1>10. CASE Finally(j)
  <2>1. PICK at \in {"catch", "judge"} : Goto(j, at)
    BY <1>10 DEF Finally
  <2> QED BY <1>2, <1>7, <2>1
<1> QED BY <1>2, <1>3, <1>4, <1>5, <1>6, <1>8, <1>9, <1>10 DEF LoopStep, EndStep

\* No executor takes back that a task may miss an outcome.
LEMMA UntoldStays ==
    ASSUME Shape, NEW j \in JobIds, WorkerStep(j) \/ GoalStep(j), past[j].untold
    PROVE  past'[j].untold
<1>0. past[j] \in Pasts /\ past \in [JobIds -> Pasts]
  BY DEF Shape, Typed
<1>1. ASSUME NEW p \in Pasts, past' = [past EXCEPT ![j] = p], p.untold PROVE past'[j].untold
  BY <1>0, <1>1
<1>2. CASE UNCHANGED past
  BY <1>2
<1>3. CASE past' = [past EXCEPT ![j].owned = TRUE]
  BY <1>0, <1>3 DEF Pasts
<1>4. CASE past' = [past EXCEPT ![j].untold = TRUE]
  BY <1>0, <1>4 DEF Pasts
<1>5. CASE past' = [past EXCEPT ![j].llm = @ + 1]
  BY <1>0, <1>5 DEF Pasts
<1>6. CASE past' = [past EXCEPT ![j].turns = @ + 1]
  BY <1>0, <1>6 DEF Pasts
<1>7. CASE past' = [past EXCEPT ![j].ran = @ \cup {ex[j].calling}]
  BY <1>0, <1>7 DEF Pasts
<1>8. CASE past' = [past EXCEPT ![j].ran = {}, ![j].cleared = @ + 1]
  BY <1>0, <1>8 DEF Pasts
<1>9. CASE TaskStep(j)
  BY <1>2, <1>3, <1>4, <1>9
  DEF TaskStep, FindWorker, MarkInProgress, Prepare, Restore, Reclaim, Aborted, Judge, Accept, BuildProof, Catch
<1>10. CASE LoopStep(j)
  BY <1>2, <1>5, <1>7, <1>10
  DEF LoopStep, Iterate, LeaveLoop, Answer, PreCheckpoint, RunTools, ToolResults, PostCheckpoint, Synthesize
<1>11. CASE EndStep(j)
  BY <1>2, <1>8, <1>11 DEF EndStep, LastCheckpoint, Close, Thrown, Finally, Forget
<1>12. CASE GoalStep(j)
  BY <1>2, <1>3, <1>6, <1>12
  DEF GoalStep, Begin, ReclaimGoal, GoalAborted, GiveUp, BeginTurn, EndTurn, BumpTurn, CountAttempt, Verify,
      CompleteGoal, ProveGoal, CatchGoal
<1> QED BY <1>9, <1>10, <1>11, <1>12 DEF WorkerStep

\* What an executor's step leaves alone.
LEMMA ExecutorFacts ==
    ASSUME Shape, NEW j \in JobIds, WorkerStep(j) \/ GoalStep(j)
    PROVE  /\ Exists(j) /\ Busy(j) /\ Busy(j)' /\ job[j].attempts # 0
           /\ UNCHANGED <<job, call, mode>> /\ faults' \in {faults, faults + 1} /\ faults \in Nat
           /\ \A i \in JobIds \ {j} : ex'[i] = ex[i] /\ past'[i] = past[i] /\ (Busy(i)' <=> Busy(i))
           /\ \A i \in JobIds : past[i].untold => past'[i].untold
           /\ WorkerStep(j) => job[j].info = "worker"
           /\ GoalStep(j) => job[j].info = "goal"
<1>1. Running(j) /\ Good(j) /\ Typed
  BY WorkerGood, GoalGood DEF Shape, AllGood
<1>2. /\ UNCHANGED <<job, call, mode>> /\ faults' \in {faults, faults + 1}
      /\ \A i \in JobIds \ {j} : ex'[i] = ex[i] /\ past'[i] = past[i]
  BY <1>1 DEF Running, Local
<1>3. /\ WorkerStep(j) => Exists(j) /\ job[j].info = "worker" /\ Busy(j)
      /\ GoalStep(j) => Exists(j) /\ job[j].info = "goal" /\ Busy(j)
  <2>1. CASE WorkerStep(j)
    <3>1. PICK at \in WorkerPlaces : Worker(j, at)
      BY <2>1
      DEF WorkerStep, TaskStep, LoopStep, EndStep, FindWorker, MarkInProgress, Prepare, Restore, Reclaim,
          Aborted, Judge, Accept, BuildProof, Catch, Iterate, LeaveLoop, Answer, PreCheckpoint, RunTools,
          ToolResults, PostCheckpoint, Synthesize, LastCheckpoint, Close, Thrown, Finally, WorkerPlaces
    <3>2. Exists(j) /\ job[j].info = "worker" /\ ex[j].at = at /\ at # "idle"
      BY <3>1 DEF Worker, At, WorkerPlaces
    <3>3. ~GoalStep(j)
      BY <3>2 DEF GoalStep, Begin, ReclaimGoal, GoalAborted, GiveUp, BeginTurn, EndTurn, BumpTurn,
                  CountAttempt, Verify, CompleteGoal, ProveGoal, CatchGoal, Goal, At
    <3> QED BY <3>2, <3>3 DEF Busy
  <2>2. CASE GoalStep(j)
    <3>1. PICK at \in GoalPlaces : Goal(j, at)
      BY <2>2 DEF GoalStep, Begin, ReclaimGoal, GoalAborted, GiveUp, BeginTurn, EndTurn, BumpTurn,
                  CountAttempt, Verify, CompleteGoal, ProveGoal, CatchGoal, GoalPlaces
    <3>2. Exists(j) /\ job[j].info = "goal" /\ ex[j].at = at /\ at # "idle"
      BY <3>1 DEF Goal, At, GoalPlaces
    <3>3. ~WorkerStep(j)
      BY <3>2
      DEF WorkerStep, TaskStep, LoopStep, EndStep, FindWorker, MarkInProgress, Prepare, Restore, Reclaim,
          Aborted, Judge, Accept, BuildProof, Catch, Iterate, LeaveLoop, Answer, PreCheckpoint, RunTools,
          ToolResults, PostCheckpoint, Synthesize, LastCheckpoint, Close, Thrown, Finally, Worker, At
    <3> QED BY <3>2, <3>3 DEF Busy
  <2> QED BY <2>1, <2>2
<1>4. \A i \in JobIds : past[i].untold => past'[i].untold
  BY <1>2, UntoldStays
<1>5. ex'[j].at # "idle"
  <2>1. CASE WorkerStep(j)
    BY <2>1, TaskStepTells, LoopTells DEF WorkerStep, WorkerTells
  <2>2. CASE GoalStep(j)
    <3>1. ex[j] \in Executors /\ ex \in [JobIds -> Executors]
      BY <1>1 DEF Typed
    <3>2. ASSUME NEW at \in GoalPlaces, Goto(j, at) PROVE ex'[j].at # "idle"
      <4>1. ex'[j] = [ex[j] EXCEPT !.at = at]
        BY <1>1, <3>2, GotoFacts
      <4> QED BY <3>1, <4>1 DEF Executors, GoalPlaces
    <3>3. ASSUME NEW r \in {"ok", "retry", "fatal"}, Return(j, r) PROVE ex'[j].at # "idle"
      BY <1>1, <3>3, ReturnFacts
    <3>4. CASE Begin(j)
      BY <3>1, <3>4 DEF Begin, Executors
    <3>5. CASE EndTurn(j)
      <4>1. ex' = [ex EXCEPT ![j].at = "bump", ![j].attempts = @ + 1] => ex'[j].at # "idle"
        BY <3>1 DEF Executors
      <4> QED BY <3>2, <3>5, <4>1 DEF EndTurn, GoalPlaces
    <3>6. CASE GoalAborted(j) \/ GiveUp(j) \/ ProveGoal(j) \/ CatchGoal(j)
      BY <3>2, <3>3, <3>6 DEF GoalAborted, GiveUp, ProveGoal, CatchGoal, GoalPlaces
    <3>7. CASE ReclaimGoal(j) \/ BeginTurn(j) \/ BumpTurn(j) \/ CountAttempt(j) \/ Verify(j) \/ CompleteGoal(j)
      BY <3>2, <3>7 DEF ReclaimGoal, BeginTurn, BumpTurn, CountAttempt, Verify, CompleteGoal, GoalPlaces
    <3> QED BY <2>2, <3>4, <3>5, <3>6, <3>7 DEF GoalStep
  <2> QED BY <2>1, <2>2
<1>6. job[j].attempts # 0 /\ faults \in Nat
  BY <1>3, ShapeFacts
<1> QED BY <1>2, <1>3, <1>4, <1>5, <1>6 DEF Busy

\* So an executor's step keeps the task row explained.
LEMMA ExecutorFollows ==
    ASSUME Shape, TaskFollows, NEW j \in JobIds, WorkerStep(j) \/ GoalStep(j)
    PROVE  TaskFollows'
<1>1. /\ Exists(j) /\ Busy(j) /\ Busy(j)' /\ job[j].attempts # 0
      /\ UNCHANGED <<job, call, mode>> /\ faults' \in {faults, faults + 1} /\ faults \in Nat
      /\ \A i \in JobIds \ {j} : ex'[i] = ex[i] /\ past'[i] = past[i] /\ (Busy(i)' <=> Busy(i))
      /\ \A i \in JobIds : past[i].untold => past'[i].untold
      /\ WorkerStep(j) => job[j].info = "worker"
      /\ GoalStep(j) => job[j].info = "goal"
  BY ExecutorFacts
<1>2. faults' = 0 => faults = 0
  BY <1>1
<1>3. OneAtWork'
  BY <1>1 DEF TaskFollows, OneAtWork, AllUntold
<1>4. Waits'
  BY <1>1 DEF TaskFollows, Waits, Exists
<1>5. CASE GoalStep(j)
  <2>1. UNCHANGED task
    BY <1>5 DEF GoalStep, Begin, ReclaimGoal, GoalAborted, GiveUp, BeginTurn, EndTurn, BumpTurn, CountAttempt,
                Verify, CompleteGoal, ProveGoal, CatchGoal
  <2>2. task.job = 0 /\ call.at = "idle"
    BY <1>1, <1>5 DEF TaskFollows, Fits
  <2>3. Fits'
    BY <1>1, <2>1 DEF TaskFollows, Fits, Exists
  <2>4. Links' /\ Tells'
    BY <1>1, <2>1, <2>2 DEF Links, Tells
  <2> QED BY <1>3, <1>4, <2>3, <2>4 DEF TaskFollows
<1>6. CASE WorkerStep(j)
  <2>1. WorkerTells(j) /\ (task' = task \/ task'.status # "none") /\ task'.job \in {task.job, j}
    BY <1>6, TaskStepTells, LoopTells DEF WorkerStep
  <2>2. task.status # "none" /\ task'.status # "none"
    BY <1>1, <1>6, <2>1 DEF TaskFollows, Fits
  <2>3. Fits'
    <3>1. task'.job # 0 => job'[task'.job] # NoJob
      BY <1>1, <2>1 DEF TaskFollows, Fits, Exists
    <3> QED BY <1>1, <2>2, <3>1, ShapeFacts DEF TaskFollows, Fits, Exists
  <2>4. Links'
    <3> SUFFICES ASSUME call'.at = "link", ~call'.revises, task'.job = 0, faults' = 0
                 PROVE  past'[1].untold \/ ex'[1].at \in {"start", "mark"}
      BY DEF Links
    <3>1. call.at = "link" /\ ~call.revises /\ faults = 0 /\ j = 1
      BY <1>1, <1>2 DEF TaskFollows, Fits
    <3>2. task.job = 0 \/ task.job = 1
      BY <3>1, <1>1, ShapeFacts DEF TaskFollows, Fits
    <3>3. task.job = 0 /\ j # 0
      <4>1. j # 0
        BY ShapeFacts
      <4> QED BY <2>1, <3>1, <3>2, <4>1 DEF WorkerTells
    <3>4. past[1].untold \/ ex[1].at \in {"start", "mark"}
      BY <1>1, <3>1, <3>3 DEF TaskFollows, Links, Fresh
    <3> QED BY <1>1, <2>1, <3>1, <3>3, <3>4 DEF WorkerTells
  <2>5. Tells'
    <3> SUFFICES ASSUME NEW k \in JobIds, task'.job = k, faults' = 0, ~past'[k].untold
                 PROVE  Fresh(k)' \/ Told(k)'
      <4>1. task'.job \in JobIds \cup {0}
        BY <2>1, ShapeFacts
      <4> QED BY <4>1 DEF Tells, Fresh, Told, Busy, Settled, Exists
    <3>1. task.job = k => Fresh(k) \/ Told(k)
      BY <1>1, <1>2, ShapeFacts DEF TaskFollows, Tells
    <3>2. CASE k # j
      <4>1. task.job = k /\ ex'[k] = ex[k] /\ (Busy(k)' <=> Busy(k)) /\ (Fresh(k) => Fresh(k)')
        BY <1>1, <2>1, <3>2 DEF Fresh
      <4>2. Told(k) => task' = task /\ ex'[j].at \in {"start", "mark", "settle"}
        BY <1>1, <2>1, <3>2 DEF Told, WorkerTells, Busy
      <4>3. Told(k) => Told(k)'
        BY <1>1, <3>2, <4>1, <4>2 DEF Told, Settled, Exists
      <4> QED BY <3>1, <4>1, <4>3
    <3>3. CASE k = j
      <4>1. \A i \in JobIds \ {j} : ex'[i].at = "idle"
        BY <1>1, <3>3 DEF TaskFollows, OneAtWork, AllUntold, Busy
      <4>2. task.job = j => ~Fresh(j)
        BY <1>1 DEF Fresh
      <4>3. /\ ex'[j].at = "proof" => task'.status = "completed"
            /\ ex'[j].at = "settle" => task'.status # "in_progress"
                                       /\ (ex'[j].result = "ok" => task'.status = "completed")
        BY <2>1, <3>1, <3>3, <4>2 DEF WorkerTells, Told
      <4> QED BY <1>1, <3>3, <4>1, <4>3 DEF Told
    <3> QED BY <3>2, <3>3
  <2> QED BY <1>3, <1>4, <2>3, <2>4, <2>5 DEF TaskFollows
<1> QED BY <1>5, <1>6

\* Before the first task there is nothing to explain.
LEMMA FollowsInit == Init => TaskFollows
BY DEF Init, TaskFollows, OneAtWork, Fits, Waits, Links, Tells, Busy, Exists, Idle, NoTask, NoCall

\* So every step keeps the task row explained.
LEMMA FollowsStep ==
    ASSUME Shape, Returned, TaskFollows, [Step]_hostVars
    PROVE  TaskFollows'
<1>1. CallStep => TaskFollows'
  BY CallersFollow DEF CallStep
<1>2. CallGoesOn => TaskFollows'
  BY CreateRunFollows, EnqueueFollows, LinkFollows DEF CallGoesOn
<1>3. Crash \/ Reconcile => TaskFollows'
  BY CrashFollows, ReconcileFollows
<1>4. ASSUME NEW j \in JobIds, QueueStep(j) \/ TimeOut(j) \/ Cancel(j) PROVE TaskFollows'
  BY <1>4, BecomeDueFollows, StartFollows, SettleFollows, TimeOutFollows, CancelFollows DEF QueueStep
<1>5. ASSUME NEW j \in JobIds, WorkerStep(j) \/ GoalStep(j) PROVE TaskFollows'
  BY <1>5, ExecutorFollows
<1>6. CASE UNCHANGED hostVars
  BY <1>6 DEF hostVars, TaskFollows, OneAtWork, AllUntold, Fits, Waits, Links, Tells, Told, Fresh, Busy, Settled,
              Exists
<1> QED BY <1>1, <1>2, <1>3, <1>4, <1>5, <1>6 DEF Step, HostNext

\* TaskTellsOutcome likewise: when the job of a task has ended, the task is not
\* left in progress and is completed if its job is (executors.ts, step 5 of
\* reconcileOnBoot).
THEOREM TaskIsTold == WideSpec => []TaskTellsOutcome
<1>1. WideSpec => []TaskFollows
  BY HarnessShape, FollowsInit, FollowsStep, PTL DEF WideSpec
<1>2. Shape /\ TaskFollows => TaskTellsOutcome
  <2> SUFFICES ASSUME Shape, TaskFollows, NEW j \in JobIds, j = task.job, mode = "up", faults = 0, j # 0,
                      Settled(j), ~past[j].untold, \A i \in JobIds : ~Busy(i)
               PROVE  task.status # "in_progress" /\ (job[j].status = "completed" => task.status = "completed")
    BY ShapeFacts DEF TaskTellsOutcome
  <2>1. ~Fresh(j)
    BY DEF Fresh, Settled, Terminal
  <2>2. Told(j)
    BY <2>1 DEF TaskFollows, Tells
  <2> QED BY <2>2 DEF Told
<1> QED BY <1>1, <1>2, HarnessShape, PTL
=============================================================================
