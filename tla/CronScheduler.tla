--------------------------- MODULE CronScheduler ---------------------------
(***************************************************************************)
(* scheduler/CronScheduler.ts: one persisted task, the Crons made for it   *)
(* and the calls of the API on it.  Tasks share nothing but the handler.   *)
(*                                                                         *)
(* A step is the code between two awaits.  updateJob, a loop of versioned  *)
(* writes (see JobStoreOCC), is one step; what follows it in its caller is *)
(* another.  What the calls do not look at is left out of the row: names,  *)
(* dates of the last and the next run, and the taskRuns collection, which  *)
(* is written and never read here.                                         *)
(***************************************************************************)
EXTENDS CronJob, FiniteSets

CONSTANTS
    Tasks,       \* the tasks create() may be given: kind, misfire policy,
                 \* protect, max_runs
    Callers,     \* concurrent calls of the API
    Crons,       \* instances of Cron that exist at once (a bound)
    NoJob,       \* the map has no Cron
    Runs,        \* executions in flight
    Room,        \* how many of them at once, by kind of task (a bound)
    MaxErrors,   \* MAX_ERRORS, 5 in the code
    MaxFailures, \* failed executions (a bound)
    MaxFire,     \* dates a one_shot is given (a bound)
    MaxCrashes,  \* restarts (a bound)
    MaxThrows    \* awaits that throw, in each process (a bound)

ASSUME CronAssumption ==
    /\ Tasks \subseteq [kind : {"recurring", "one_shot"}, policy : {"skip", "fire_once"},
                        protect : BOOLEAN, max : Nat]
    /\ NoJob \notin Crons /\ IsFiniteSet(Crons) /\ IsFiniteSet(Runs)
    /\ Room \in [{"recurring", "one_shot"} -> Nat]
    /\ {MaxErrors, MaxFailures, MaxCrashes, MaxThrows} \subseteq Nat /\ MaxFire \in Nat \ {0}

VARIABLES
    task,     \* the fields of the row that never change
    row,      \* the row of cronJobs
    crons,    \* the Crons in memory
    jobs,     \* this.jobs: the Cron under the task's id, or NoJob
    run,      \* run[e]: an execution, from the call of the Cron's function on
    call,     \* call[c]: where a call of the API is, and the row it has read
    past,     \* the dates that are over
    mode,     \* "up", "shut" after shutdown(), "down" between two processes
    crashes,
    throws,   \* awaits of this process that have thrown
    failures, \* history: executions that failed and were counted by execute()
    rejected, \* history: executions that rejected and were counted by handleError()
    upset     \* history: two calls of this process have overlapped, or one broke off

cronVars == <<task, row, crons, jobs, run, call, past, mode, crashes, throws, failures,
              rejected, upset>>
mem == <<crons, jobs>>
same == <<task, mode, crashes, throws, upset>>

Boot == "boot"
Everyone == Callers \cup {Boot}
Statuses == {"active", "paused", "completed", "failed", "cancelled"}
Row(status, fire) == [status |-> status, errors |-> 0, fire |-> fire]
NoRow == Row("none", 0)
Exists(r) == r.status \in Statuses
Idle == [op |-> "none", at |-> "idle", doc |-> NoRow]
NoRun == [cron |-> NoJob, via |-> "none", at |-> "idle"]
\* What handleError() leaves behind: a promise nobody awaits.
Detached == [NoRun EXCEPT !.at = "error"]

Recurring == task.kind = "recurring"
Quiet == \A c \in Everyone : call[c].at = "idle"
RunsOf(k) == {e \in Runs : run[e].cron = k}

\* updateJob with a patch of the status: nothing is written for a missing row.
SetStatus(status) == row' = IF Exists(row) THEN [row EXCEPT !.status = status] ELSE row

\* A stopped Cron that is in nobody's hands is forgotten.
Collected(cs, kept, rs) ==
    [k \in Crons |-> IF cs[k].stopped /\ k # kept /\ \A e \in Runs : rs[e].cron # k
                     THEN NoCron ELSE cs[k]]

\* deactivate(), and the first lines of activate().
Deactivated == Collected([k \in Crons |-> IF k = jobs THEN StopCron(crons[k]) ELSE crons[k]], NoJob, run)
-----------------------------------------------------------------------------
Init ==
    /\ task \in Tasks
    /\ row = NoRow
    /\ crons = [k \in Crons |-> NoCron] /\ jobs = NoJob
    /\ run = [e \in Runs |-> NoRun]
    /\ call = [c \in Everyone |-> Idle]
    /\ past = {} /\ mode = "up" /\ crashes = 0 /\ throws = 0
    /\ failures = 0 /\ rejected = 0 /\ upset = FALSE

\* Something that is awaited throws: updateJob after five lost races, the storage,
\* the channel of a notification.
Throws == throws < MaxThrows /\ throws' = throws + 1

\* What a call does once activate() has returned: a catch-up executes the task.
Activated(c) == IF call[c].op = "catchup" THEN [call[c] EXCEPT !.at = "catchup"] ELSE Idle

\* activate() up to its await.  The document it works with is the caller's.
ActivateStop(c) ==
    /\ call[c].at = "stop"
    /\ jobs' = NoJob /\ crons' = Deactivated
    /\ call' = [call EXCEPT ![c] =
           IF @.doc.status \in {"paused", "completed", "cancelled"} THEN Activated(c)
           ELSE [@ EXCEPT !.at = "start"]]
    /\ UNCHANGED <<row, run, past, failures, rejected, same>>

\* activate() after it, for a task with too many errors: pause it instead.
TooManyErrors(c) ==
    /\ call[c].at = "start" /\ call[c].doc.errors >= MaxErrors
    /\ SetStatus("paused")
    /\ call' = [call EXCEPT ![c] = Activated(c)]
    /\ UNCHANGED <<run, past, failures, rejected, same, mem>>

\* activate() after it: the new Cron replaces whatever the map holds by now.
ActivateStart(c) ==
    /\ call[c].at = "start" /\ call[c].doc.errors < MaxErrors
    /\ \E k \in Crons :
        /\ crons[k] = NoCron /\ jobs # k /\ RunsOf(k) = {}
        /\ crons' = [crons EXCEPT ![k] = NewCron(call[c].doc.fire, task.max, past)]
        /\ jobs' = k
    /\ call' = [call EXCEPT ![c] = Activated(c)]
    /\ UNCHANGED <<row, run, past, failures, rejected, same>>

\* A caller begins a call.
Begins(c) ==
    /\ mode = "up" /\ call[c] = Idle
    /\ upset' = (upset \/ ~Quiet)

\* create(): the date of a one_shot must be in the future.
Create(c) ==
    /\ Begins(c) /\ row = NoRow
    /\ LET fire == IF Recurring THEN 0 ELSE 1 IN
       /\ row' = Row("active", fire)
       /\ call' = [call EXCEPT ![c] = [op |-> "activate", at |-> "stop", doc |-> Row("active", fire)]]
    /\ UNCHANGED <<run, past, failures, rejected, task, mode, crashes, throws, mem>>

\* resume(), update() and pause() of a task, which may have been deleted.
Ask(c, op) ==
    /\ Begins(c) /\ row # NoRow
    /\ call' = [call EXCEPT ![c] = [op |-> op, at |-> "write", doc |-> NoRow]]

CallResumeOrUpdate(c) ==
    /\ \E op \in {"resume", "edit", "reschedule"} : Ask(c, op)
    /\ UNCHANGED <<row, run, past, failures, rejected, task, mode, crashes, throws, mem>>

\* pause(): the Cron at once, the row later.  The Cron stays in the map.
CallPause(c) ==
    /\ Ask(c, "pause")
    /\ crons' = [k \in Crons |-> IF k = jobs THEN PauseCron(crons[k]) ELSE crons[k]]
    /\ UNCHANGED <<row, jobs, run, past, failures, rejected, task, mode, crashes, throws>>

\* The patch of a call: update() may name a new date, and another status or none.
Patched(op, status) ==
    CASE op = "pause" -> [row EXCEPT !.status = "paused"]
      [] op = "resume" -> [row EXCEPT !.status = "active"]
      [] op = "reschedule" /\ ~Recurring /\ row.fire < MaxFire ->
             [row EXCEPT !.status = status, !.fire = @ + 1]
      [] OTHER -> [row EXCEPT !.status = status]

\* updateJob in pause(), resume() and update(); the last two then activate what
\* it returned.  A row deleted meanwhile ends the call.
Write(c) ==
    /\ call[c].at = "write"
    /\ IF ~Exists(row) THEN row' = row /\ call' = [call EXCEPT ![c] = Idle]
       ELSE \E status \in {row.status, "active", "cancelled"} :
            /\ row' = Patched(call[c].op, status)
            /\ call' = [call EXCEPT ![c] = IF @.op = "pause" THEN Idle
                                           ELSE [op |-> "activate", at |-> "stop", doc |-> row']]
    /\ UNCHANGED <<run, past, failures, rejected, same, mem>>

\* delete(): deactivate at once, the row later.
CallDelete(c) ==
    /\ Begins(c) /\ row # NoRow
    /\ jobs' = NoJob /\ crons' = Deactivated
    /\ call' = [call EXCEPT ![c] = [Idle EXCEPT !.at = "remove"]]
    /\ UNCHANGED <<row, run, past, failures, rejected, task, mode, crashes, throws>>

Remove(c) ==
    /\ call[c].at = "remove"
    /\ row' = [NoRow EXCEPT !.status = "deleted"] /\ failures' = 0 /\ rejected' = 0
    /\ call' = [call EXCEPT ![c] = Idle]
    /\ UNCHANGED <<run, past, same, mem>>

\* A call throws at an await and leaves the rest undone; boot() awaits a write
\* before it activates.
BreakOff(c) ==
    /\ call[c].at \in {"start", "write", "remove", "fail"} \/ (c = Boot /\ call[c].at = "stop")
    /\ Throws
    /\ call' = [call EXCEPT ![c] = Idle]
    /\ upset' = TRUE
    /\ UNCHANGED <<row, run, past, failures, rejected, task, mode, crashes, mem>>
-----------------------------------------------------------------------------
Start(k, via) ==
    /\ Cardinality({e \in Runs : run[e] # NoRun}) < Room[task.kind]
    /\ \E e \in Runs :
        run[e] = NoRun /\ run' = [run EXCEPT ![e] = [cron |-> k, via |-> via, at |-> "read"]]

\* The timer of a Cron: disparar().
Timer(k) ==
    /\ crons[k].armed
    /\ past' = IF crons[k].fire = 0 THEN past ELSE past \cup {crons[k].fire}
    /\ IF task.protect /\ crons[k].busy
       THEN crons' = [crons EXCEPT ![k] = Arm(crons[k], past')] /\ UNCHANGED run
       ELSE /\ Start(k, "timer")
            /\ crons' = [crons EXCEPT ![k] = Begin(crons[k])]
    /\ UNCHANGED <<row, jobs, call, failures, rejected, same>>

\* trigger() ignores protect on purpose.
Trigger ==
    /\ mode = "up" /\ jobs # NoJob
    /\ Start(jobs, "hand")
    /\ crons' = [crons EXCEPT ![jobs] = BeginByHand(crons[jobs])]
    /\ UNCHANGED <<row, jobs, call, past, failures, rejected, same>>

At(e, here, there) == run[e].at = here /\ run' = [run EXCEPT ![e].at = there]

\* execute() reads the row afresh; it does not look at the status.
Read(e) ==
    /\ At(e, "read", IF Exists(row) THEN "work" ELSE "end")
    /\ UNCHANGED <<row, call, past, failures, rejected, same, mem>>

\* The handler reports success; a recurring task has been notified of too.
Succeeds(e) ==
    /\ At(e, "work", IF Recurring THEN "end" ELSE "complete")
    /\ UNCHANGED <<row, call, past, failures, rejected, same, mem>>

\* The handler reports a failure or throws, or a write or the notification after
\* its success does: the same catch counts them all.
Fails(e) ==
    /\ failures < MaxFailures
    /\ At(e, "work", "count")
    /\ UNCHANGED <<row, call, past, failures, rejected, same, mem>>

Complete(e) ==
    /\ At(e, "complete", "retire")
    /\ SetStatus("completed")
    /\ UNCHANGED <<call, past, failures, rejected, same, mem>>

CompleteThrows(e) ==
    /\ At(e, "complete", "count") /\ Throws
    /\ UNCHANGED <<row, call, past, failures, rejected, task, mode, crashes, upset, mem>>

\* Mutant of Count: the patch is computed outside the loop, so that of two
\* executions that settle together one writes what the other wrote.
Count_outside(e) ==
    LET twins == {f \in Runs : run[f].at = "count"} IN
    /\ run[e].at = "count"
    /\ row' = IF Exists(row) THEN [row EXCEPT !.errors = @ + 1] ELSE row
    /\ failures' = IF Exists(row) THEN failures + Cardinality(twins) ELSE failures
    /\ run' = [f \in Runs |-> IF f \notin twins THEN run[f]
                              ELSE [run[f] EXCEPT !.at = IF Exists(row) /\ row'.errors >= MaxErrors
                                                         THEN "pause" ELSE "notify"]]
    /\ UNCHANGED <<call, past, rejected, same, mem>>

\* The error count is a function of the row found by each attempt to write it.
Count(e) ==
    /\ row' = IF Exists(row) THEN [row EXCEPT !.errors = @ + 1] ELSE row
    /\ failures' = IF Exists(row) THEN failures + 1 ELSE failures
    /\ At(e, "count", IF Exists(row) /\ row'.errors >= MaxErrors THEN "pause" ELSE "notify")
    /\ UNCHANGED <<call, past, rejected, same, mem>>

PauseFailing(e) ==
    /\ At(e, "pause", "deactivate")
    /\ SetStatus("paused")
    /\ UNCHANGED <<call, past, failures, rejected, same, mem>>

\* deactivate(), by then of whatever Cron the map holds.
Deactivate(e) ==
    /\ At(e, "retire", "end") \/ At(e, "deactivate", "notify")
    /\ jobs' = NoJob /\ crons' = Deactivated
    /\ UNCHANGED <<row, call, past, failures, rejected, same>>

\* The promise of the Cron's function settles, and its finally block runs.
Settles(e, next) ==
    /\ run' = [run EXCEPT ![e] = next]
    /\ LET after == [k \in Crons |-> IF k # run[e].cron THEN crons[k]
                                     ELSE IF run[e].via = "timer" THEN EndScheduled(crons[k], past)
                                     ELSE EndByHand(crons[k])]
       IN crons' = Collected(after, jobs, run')
    /\ UNCHANGED <<row, jobs, call, past, failures, rejected, task, mode, crashes, upset>>

\* All is written, and a failure has been notified of.
End(e) == run[e].at \in {"notify", "end"} /\ Settles(e, NoRun) /\ UNCHANGED throws

\* execute() throws before its try, or in the catch block.  The Cron passes the
\* error to handleError; for its catch-up boot() only logs it.
Rejects(e) ==
    /\ run[e].at \in {"read", "count", "pause", "notify"} /\ Throws
    /\ Settles(e, IF run[e].cron = NoJob THEN NoRun ELSE Detached)

\* handleError(): one more error in the row, whatever execute() has counted, and
\* no look at MAX_ERRORS.  Its own write may throw, unheard.
HandleError(e) ==
    /\ run[e].at = "error"
    /\ \/ /\ row' = IF Exists(row) THEN [row EXCEPT !.errors = @ + 1] ELSE row
          /\ rejected' = IF Exists(row) THEN rejected + 1 ELSE rejected
       \/ UNCHANGED <<row, rejected>>
    /\ run' = [run EXCEPT ![e] = NoRun]
    /\ UNCHANGED <<call, past, failures, same, mem>>
-----------------------------------------------------------------------------
TimePasses ==
    /\ row.fire \notin past \cup {0}
    /\ past' = past \cup {row.fire}
    /\ UNCHANGED <<row, run, call, failures, rejected, same, mem>>

Shutdown ==
    /\ mode = "up" /\ mode' = "shut"
    /\ jobs' = NoJob /\ crons' = Deactivated
    /\ UNCHANGED <<task, row, run, call, past, crashes, throws, failures, rejected, upset>>

\* The process ends, wherever its calls and executions are.
Crash ==
    /\ mode # "down" /\ mode' = "down"
    /\ crashes < MaxCrashes /\ crashes' = crashes + 1
    /\ crons' = [k \in Crons |-> NoCron] /\ jobs' = NoJob
    /\ run' = [e \in Runs |-> NoRun]
    /\ call' = [c \in Everyone |-> Idle]
    /\ throws' = 0 /\ upset' = FALSE
    /\ UNCHANGED <<task, row, past, failures, rejected>>

\* What boot() does with an active task it has read.  A recurring task misfired
\* if an occurrence fell into the time the process was down.
BootPlan ==
    LET missed == IF Recurring THEN BOOLEAN ELSE {row.fire \in past}
        graces == BOOLEAN
    IN {IF m /\ g /\ task.policy = "fire_once" THEN <<"catchup", "stop">>
        ELSE IF m /\ ~Recurring THEN <<"activate", "fail">>
        ELSE <<"activate", "stop">> : m \in missed, g \in graces}

\* boot(): find the active tasks.
CallBoot ==
    /\ mode = "down" /\ mode' = "up"
    /\ IF row.status # "active" THEN UNCHANGED call
       ELSE \E p \in BootPlan : call' = [call EXCEPT ![Boot] = [op |-> p[1], at |-> p[2], doc |-> row]]
    /\ UNCHANGED <<task, row, run, past, crashes, throws, failures, rejected, upset, mem>>

\* A one_shot that was missed and is not caught up.
FailMissed ==
    /\ call[Boot].at = "fail"
    /\ SetStatus("failed")
    /\ call' = [call EXCEPT ![Boot] = Idle]
    /\ UNCHANGED <<run, past, failures, rejected, same, mem>>

\* The catch-up of boot(): beside the Cron, which does not know of it.
CatchUp ==
    /\ call[Boot].at = "catchup"
    /\ Start(NoJob, "boot")
    /\ call' = [call EXCEPT ![Boot] = Idle]
    /\ UNCHANGED <<row, past, failures, rejected, same, mem>>

Calls(c) ==
    \/ ActivateStop(c) \/ TooManyErrors(c) \/ ActivateStart(c)
    \/ Write(c) \/ Remove(c) \/ BreakOff(c)

Next ==
    \/ \E c \in Callers : Create(c) \/ CallResumeOrUpdate(c) \/ CallPause(c) \/ CallDelete(c)
    \/ \E c \in Everyone : Calls(c)
    \/ FailMissed \/ CatchUp
    \/ \E k \in Crons : Timer(k)
    \/ Trigger \/ TimePasses \/ Shutdown \/ Crash \/ CallBoot
    \/ \E e \in Runs : \/ Read(e) \/ Succeeds(e) \/ Fails(e) \/ Complete(e) \/ CompleteThrows(e)
                       \/ Count(e) \/ PauseFailing(e) \/ Deactivate(e) \/ End(e)
                       \/ Rejects(e) \/ HandleError(e)

Spec == Init /\ [][Next]_cronVars
-----------------------------------------------------------------------------
TypeOK ==
    /\ task \in Tasks
    /\ row \in [status : Statuses \cup {"none", "deleted"}, errors : Nat, fire : 0..MaxFire]
    /\ crons \in [Crons -> CronType] /\ jobs \in Crons \cup {NoJob}
    /\ past \subseteq 1..MaxFire
    /\ mode \in {"up", "shut", "down"}

\* However calls, executions and timers interleave, a Cron is a single chain of
\* scheduled runs: its timer is never armed beside one of them nor after pause()
\* or stop(), and ocupado is only set while a run of it is at work.
OneChain ==
    \A k \in Crons :
        LET chain == {e \in RunsOf(k) : run[e].via = "timer"} IN
        /\ crons[k].armed => ~crons[k].stopped /\ ~crons[k].paused /\ chain = {}
        /\ Cardinality(chain) <= 1
        /\ crons[k].busy => RunsOf(k) # {}

CronSound == TypeOK /\ OneChain

\* Overlapping executions and handleError lose no error: the row holds as many as
\* executions have counted in their catch block, and one more for every execution
\* that rejected after that or instead.
ErrorsCounted == Exists(row) => row.errors = failures + rejected

\* Unless calls overlap or break off: the memory follows the row.  An active recurring task is
\* never left without a timer or a run that will arm one, a paused or deleted
\* task has none, and no Cron runs on that the map has lost, whatever executions
\* and restarts come in between.  (A task with too many errors is another matter:
\* a call that read it before the last error arms it again.)
MemoryFollowsRow ==
    (mode = "up" /\ Quiet /\ ~upset) =>
        LET working == {k \in Crons : ~crons[k].stopped /\ ~crons[k].paused
                                      /\ (crons[k].armed \/ RunsOf(k) # {})} IN
        /\ \A k \in Crons : ~crons[k].stopped => k = jobs
        /\ row.status = "active" /\ Recurring /\ task.max = 0 => working # {}
        /\ row.status \in {"paused", "cancelled"} /\ row.errors < MaxErrors => working = {}
        /\ ~Exists(row) => jobs = NoJob

\* A task with MAX_ERRORS errors does not stay active, not even when its process
\* ends between the count and the pause, or a call activates it meanwhile; unless
\* an await of this process has thrown, in which case it may stay active until
\* it fails again or the process restarts.
ExhaustedIsPaused ==
    (/\ mode = "up" /\ Quiet /\ throws = 0 /\ (\A e \in Runs : run[e] = NoRun)
     /\ Exists(row) /\ row.errors >= MaxErrors) => row.status # "active"

\* Timers, executions and errors stay in step (CronScheduler.ts:153, :356, :364).
RunsSound == CronSound /\ ErrorsCounted /\ ExhaustedIsPaused
=============================================================================
