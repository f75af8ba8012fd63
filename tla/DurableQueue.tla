---------------------------- MODULE DurableQueue ----------------------------
(***************************************************************************)
(* gateway/durable-queue.ts driving the job store: enqueue, per-lane       *)
(* dispatch, executeJob, lease renewal and expiry, cancel and cancelLane,  *)
(* terminal hooks, stop, a crash of the process and reconcileOnBoot.       *)
(*                                                                         *)
(* A function is cut at its awaits, where the event loop lets any other    *)
(* function run.  Each call into the job store is one atomic step, which   *)
(* JobStoreOCC justifies; when MayGiveUp a call may also end as it does    *)
(* after MAX_RETRIES conflicts, without having written.                    *)
(***************************************************************************)
EXTENDS JobDoc, FiniteSets, Sequences

CONSTANTS
    Lanes,         \* session ids, "task:<id>"...
    ChatTurn,      \* the job type exempt from the cap and from retries
    Registered,    \* job types with an executor in this process
    NoKey,         \* idempotency_key: null
    MaxGlobal,     \* maxGlobalConcurrency
    Clients,       \* concurrent callers of enqueue
    Slots,         \* bound: executeJob calls in flight (1..n)
    Dispatchers,   \* bound: dispatchLane calls in flight
    MaxCancels,    \* bound: calls of cancel and cancelLane
    ClockMayJump,  \* a lease may expire under a live executor (suspend, jobLeaseMs < 30 s)
    MayGiveUp,     \* a store call may lose MAX_RETRIES races in a row
    MayStop        \* the host may call stop()

ASSUME DurableQueueAssumption ==
    /\ JobIds \subseteq Nat \ {0} /\ JobIds # {}
    /\ Boots \subseteq Nat /\ 1 \in Boots
    /\ \A i \in Infos : i.lane \in Lanes
    /\ Slots \subseteq Nat \ {0}
    /\ MaxGlobal \in Nat \ {0}
    /\ IsFiniteSet(Dispatchers)
    /\ MaxCancels \in Nat
    /\ {ClockMayJump, MayGiveUp, MayStop} \subseteq BOOLEAN

VARIABLES
    db,        \* the jobQueue collection; survives a crash
    boot,      \* boot_id of the process, 1, 2, ...
    mode,      \* "reconcile" until start(), then "up"
    ticking,   \* leaseCheckTimer # null
    timers,    \* dispatchTimers: lanes with a dispatch scheduled
    disp,      \* disp[d]: a dispatchLane call
    exec,      \* exec[e]: an executeJob call
    aborts,    \* runningAborts: job -> the slot whose controller is stored, 0 if none
    running,   \* runningCount
    sweep,     \* job whose "interrupted" hook is about to run, or 0
    cancel,    \* the cancel or cancelLane call in progress
    cancels,   \* such calls so far
    enq,       \* enq[c]: an enqueue call
    hooks,     \* hooks[j]: what the terminal hook was told about j (history)
    lost       \* lost[j]: starts of j taken back by reclaimOrInterrupt (history)

queueVars == <<timers, disp, exec, aborts, running>>
vars == <<db, boot, mode, ticking, timers, disp, exec, aborts, running, sweep,
          cancel, cancels, enq, hooks, lost>>

NoExec == [at |-> "idle", job |-> 0, result |-> "none", aborted |-> FALSE]
NoDisp == [at |-> "idle", lane |-> "none", job |-> 0]
NoEnq == [at |-> "idle", info |-> NoJob]
NoCancel == [at |-> "idle", job |-> 0, lane |-> "none", todo |-> {}, targets |-> {}]

Exists(j) == db[j] # NoJob
Is(j, status) == Exists(j) /\ db[j].status = status
Lane(j) == db[j].info.lane
IsChat(j) == db[j].info.type = ChatTurn
Busy(e) == exec[e].at # "idle"

\* Lanes with a pending job whose not_before has passed (findAllPendingJobs).
DueLanes == {Lane(j) : j \in {i \in JobIds : Exists(i) /\ Claimable(db[i])}}

\* findPendingJobsByLane: highest priority first, then the smallest id.
PendingIn(l) == {j \in JobIds : Exists(j) /\ Claimable(db[j]) /\ Lane(j) = l}
Before(i, j) ==
    \/ db[i].info.prio > db[j].info.prio
    \/ db[i].info.prio = db[j].info.prio /\ i <= j
IsFirst(i, S) == i \in S /\ \A j \in S : Before(i, j)

Write(j, doc) == db' = [db EXCEPT ![j] = doc]

Init ==
    /\ db = [j \in JobIds |-> NoJob]
    /\ boot = 1
    /\ mode = "reconcile"
    /\ ticking = FALSE
    /\ timers = {}
    /\ disp = [d \in Dispatchers |-> NoDisp]
    /\ exec = [e \in Slots |-> NoExec]
    /\ aborts = [j \in JobIds |-> 0]
    /\ running = 0
    /\ sweep = 0
    /\ cancel = NoCancel
    /\ cancels = 0
    /\ enq = [c \in Clients |-> NoEnq]
    /\ hooks = [j \in JobIds |-> <<>>]
    /\ lost = [j \in JobIds |-> 0]
-----------------------------------------------------------------------------
(* enqueue / createJob *)

\* findByIdempotencyKey, awaited before the row is created.
EnqueueLookup(c, info) ==
    /\ mode = "up"
    /\ enq[c].at = "idle"
    /\ IF info.key # NoKey /\ \E j \in JobIds : Exists(j) /\ db[j].info.key = info.key
       THEN timers' = timers \cup {info.lane} /\ UNCHANGED enq
       ELSE enq' = [enq EXCEPT ![c] = [at |-> "create", info |-> info]] /\ UNCHANGED timers
    /\ UNCHANGED <<db, boot, mode, ticking, disp, exec, aborts, running, sweep,
                   cancel, cancels, hooks, lost>>

\* nextId hands out ids in ascending order; the dispatch is then scheduled.
EnqueueCreate(c, due) ==
    /\ enq[c].at = "create"
    /\ \E j \in JobIds :
          /\ ~Exists(j)
          /\ \A i \in JobIds : i < j => Exists(i)
          /\ Write(j, NewDoc(enq[c].info, due))
    /\ timers' = timers \cup {enq[c].info.lane}
    /\ enq' = [enq EXCEPT ![c] = NoEnq]
    /\ UNCHANGED <<boot, mode, ticking, disp, exec, aborts, running, sweep,
                   cancel, cancels, hooks, lost>>
-----------------------------------------------------------------------------
(* scheduleDispatch / dispatchLane *)

\* The timer callback leaves dispatchTimers and starts a dispatchLane call.
FireTimer(d, l) ==
    /\ mode = "up"
    /\ l \in timers
    /\ disp[d].at = "idle"
    /\ timers' = timers \ {l}
    /\ disp' = [disp EXCEPT ![d] = [at |-> "find", lane |-> l, job |-> 0]]
    /\ UNCHANGED <<db, boot, mode, ticking, exec, aborts, running, sweep,
                   cancel, cancels, enq, hooks, lost>>

\* Mutant of MayDispatch: the cap is forgotten.
MayDispatch_always(j) == TRUE

\* The cap is read here; the claim that relies on it is awaited.
MayDispatch(j) == IsChat(j) \/ running < MaxGlobal

FindJob(d) ==
    /\ disp[d].at = "find"
    /\ LET S == PendingIn(disp[d].lane) IN
       \/ \E j \in JobIds :
             /\ IsFirst(j, S) /\ MayDispatch(j)
             /\ disp' = [disp EXCEPT ![d].at = "claim", ![d].job = j]
       \/ /\ S = {} \/ \E j \in S : IsFirst(j, S) /\ ~MayDispatch(j)
          /\ disp' = [disp EXCEPT ![d] = NoDisp]
    /\ UNCHANGED <<db, boot, mode, ticking, timers, exec, aborts, running, sweep,
                   cancel, cancels, enq, hooks, lost>>

\* Mutant of ClaimJob: the row found before the await is taken as it was.
ClaimJob_stale(d) ==
    /\ disp[d].at = "claim"
    /\ LET j == disp[d].job IN
       /\ Write(j, Claimed(db[j], boot))
       /\ disp' = [disp EXCEPT ![d].at = "launch"]
    /\ UNCHANGED <<boot, mode, ticking, timers, exec, aborts, running, sweep,
                   cancel, cancels, enq, hooks, lost>>

\* claimJob; a lost claim reads the lane again.
ClaimJob(d) ==
    /\ disp[d].at = "claim"
    /\ LET j == disp[d].job IN
       \/ /\ Claimable(db[j])
          /\ Write(j, Claimed(db[j], boot))
          /\ disp' = [disp EXCEPT ![d].at = "launch"]
       \/ /\ MayGiveUp \/ ~Claimable(db[j])
          /\ disp' = [disp EXCEPT ![d].at = "find"]
          /\ UNCHANGED db
    /\ UNCHANGED <<boot, mode, ticking, timers, exec, aborts, running, sweep,
                   cancel, cancels, enq, hooks, lost>>

\* Mutant of Launch: the controller is not stored.
Launch_noController(d, e) ==
    /\ disp[d].at = "launch"
    /\ ~Busy(e) /\ \A f \in Slots : f < e => Busy(f)
    /\ LET j == disp[d].job
           known == db[j].info.type \in Registered IN
       exec' = [exec EXCEPT ![e] =
                  [at |-> IF known THEN "run" ELSE "store", job |-> j,
                   result |-> IF known THEN "none" ELSE "noExecutor", aborted |-> FALSE]]
    /\ running' = running + 1
    /\ disp' = [disp EXCEPT ![d] = NoDisp]
    /\ UNCHANGED <<db, boot, mode, ticking, timers, aborts, sweep, cancel, cancels,
                   enq, hooks, lost>>

\* The code after the claim, up to executeJob's first await.  A type without
\* an executor goes straight to failJob.
Launch(d, e) ==
    /\ disp[d].at = "launch"
    /\ ~Busy(e) /\ \A f \in Slots : f < e => Busy(f)
    /\ LET j == disp[d].job
           known == db[j].info.type \in Registered IN
       /\ exec' = [exec EXCEPT ![e] =
                     [at |-> IF known THEN "run" ELSE "store", job |-> j,
                      result |-> IF known THEN "none" ELSE "noExecutor", aborted |-> FALSE]]
       /\ aborts' = [aborts EXCEPT ![j] = e]
    /\ running' = running + 1
    /\ disp' = [disp EXCEPT ![d] = NoDisp]
    /\ UNCHANGED <<db, boot, mode, ticking, timers, sweep, cancel, cancels, enq, hooks, lost>>
-----------------------------------------------------------------------------
(* executeJob *)

\* The executor returns ok, a retryable or a fatal failure (a throw counts as
\* retryable), or, once its signal fired, throws an AbortError.
Settle(e, result) ==
    /\ exec[e].at = "run"
    /\ result = "abortError" => exec[e].aborted
    /\ exec' = [exec EXCEPT ![e].at = "store", ![e].result = result]
    /\ UNCHANGED <<db, boot, mode, ticking, timers, disp, aborts, running, sweep,
                   cancel, cancels, enq, hooks, lost>>

\* taskTimeoutMs fires the signal.
Timeout(e) ==
    /\ exec[e].at = "run"
    /\ ~exec[e].aborted
    /\ exec' = [exec EXCEPT ![e].aborted = TRUE]
    /\ UNCHANGED <<db, boot, mode, ticking, timers, disp, aborts, running, sweep,
                   cancel, cancels, enq, hooks, lost>>

\* Mutant of Finish: an early return skips the decrement.
Finish_leaksCount(e) ==
    /\ exec' = [exec EXCEPT ![e] = NoExec]
    /\ aborts' = [aborts EXCEPT ![exec[e].job] = 0]
    /\ timers' = timers \cup {Lane(exec[e].job)}
    /\ UNCHANGED running

\* The finally block, which also removes whatever controller is stored for the
\* job and schedules the lane.
Finish(e) ==
    /\ exec' = [exec EXCEPT ![e] = NoExec]
    /\ aborts' = [aborts EXCEPT ![exec[e].job] = 0]
    /\ running' = running - 1
    /\ timers' = timers \cup {Lane(exec[e].job)}

GoesTo(e, at) ==
    /\ exec' = [exec EXCEPT ![e].at = at]
    /\ UNCHANGED <<timers, aborts, running>>

\* failJobOrRetry serves every retryable failure that is not a chat turn's.
Retries(e) == exec[e].result = "retryable" /\ ~IsChat(exec[e].job)

\* Mutants of ResultWrites: a late result overwrites whatever is there; an
\* aborted execution writes nothing.
ResultWrites_always(e, d) == TRUE
ResultWrites_dropsAborted(e, d) == exec[e].result # "abortError" /\ Owned(d, boot)

\* The row the store call for this result writes, and whether it may write.
ResultWrites(e, d) ==
    IF exec[e].result = "abortError" THEN Cancellable(d) ELSE Owned(d, boot)
ResultDoc(e, d) ==
    CASE exec[e].result = "ok" -> Completed(d)
      [] exec[e].result = "abortError" -> Cancelled(d)
      [] Retries(e) -> FailedOrRetried(d)
      [] OTHER -> Failed(d)

\* Mutants of HookFollows: every retryable failure is reported; the last one
\* is not.
HookFollows_everyFailure(e, d, wrote) ==
    exec[e].result \notin {"abortError", "noExecutor"}
HookFollows_notTheLast(e, d, wrote) ==
    exec[e].result \notin {"abortError", "noExecutor"} /\ ~Retries(e)

\* Whether runTerminalHook follows, given the row after the call and whether
\* the call wrote it: unconditionally after completeJob and failJob, after
\* failJobOrRetry only if it returned a failed row, and otherwise never.
HookFollows(e, d, wrote) ==
    CASE exec[e].result \in {"abortError", "noExecutor"} -> FALSE
      [] Retries(e) -> wrote /\ d.status = "failed"
      [] OTHER -> TRUE

StoreResult(e) ==
    /\ exec[e].at = "store"
    /\ LET j == exec[e].job IN
       \E writes \in BOOLEAN :
          /\ writes => ResultWrites(e, db[j])
          /\ ~writes => MayGiveUp \/ ~ResultWrites(e, db[j])
          /\ db' = [db EXCEPT ![j] = IF writes THEN ResultDoc(e, @) ELSE @]
          /\ IF HookFollows(e, db'[j], writes) THEN GoesTo(e, "hook") ELSE Finish(e)
    /\ UNCHANGED <<boot, mode, ticking, disp, sweep, cancel, cancels, enq, hooks, lost>>

RunHook(e) ==
    /\ exec[e].at = "hook"
    /\ hooks' = [hooks EXCEPT ![exec[e].job] =
                   Append(@, IF exec[e].result = "ok" THEN "ok" ELSE "failed")]
    /\ Finish(e)
    /\ UNCHANGED <<db, boot, mode, ticking, disp, sweep, cancel, cancels, enq, lost>>
-----------------------------------------------------------------------------
(* leases and the maintenance tick *)

\* A live executeJob call renews its lease every 30 s.
RenewLease(e) ==
    /\ Busy(e)
    /\ Owned(db[exec[e].job], boot)
    /\ db[exec[e].job].lease = "expired"
    /\ Write(exec[e].job, Renewed(db[exec[e].job]))
    /\ UNCHANGED <<boot, mode, ticking, queueVars, sweep, cancel, cancels, enq, hooks, lost>>

InHand(j) ==
    \/ \E e \in Slots : Busy(e) /\ exec[e].job = j
    \/ \E d \in Dispatchers : disp[d].at = "launch" /\ disp[d].job = j

LeaseLapse(j) ==
    /\ mode = "up"
    /\ Is(j, "running")
    /\ db[j].lease = "live"
    /\ ClockMayJump \/ ~InHand(j)
    /\ Write(j, [db[j] EXCEPT !.lease = "expired"])
    /\ UNCHANGED <<boot, mode, ticking, queueVars, sweep, cancel, cancels, enq, hooks, lost>>

BecomeDue(j) ==
    /\ Is(j, "pending")
    /\ ~db[j].due
    /\ Write(j, [db[j] EXCEPT !.due = TRUE])
    /\ UNCHANGED <<boot, mode, ticking, queueVars, sweep, cancel, cancels, enq, hooks, lost>>

\* reclaimOrInterrupt as its two callers use it; an interrupted job's hook runs
\* before anything else in that caller.
TakeBack(j, force) ==
    /\ sweep = 0
    /\ Exists(j)
    /\ Reclaimable(db[j], force)
    /\ Write(j, Reclaimed(db[j]))
    /\ sweep' = IF db'[j].status = "interrupted" THEN j ELSE 0
    /\ lost' = [lost EXCEPT ![j] = @ + 1]

\* checkExpiredLeases
SweepLease(j) ==
    /\ mode = "up"
    /\ ticking
    /\ TakeBack(j, FALSE)
    /\ timers' = IF db'[j].status = "pending" THEN timers \cup {Lane(j)} ELSE timers
    /\ UNCHANGED <<boot, mode, ticking, disp, exec, aborts, running, cancel, cancels, enq, hooks>>

InterruptedHook ==
    /\ sweep # 0
    /\ hooks' = [hooks EXCEPT ![sweep] = Append(@, "failed")]
    /\ sweep' = 0
    /\ UNCHANGED <<db, boot, mode, ticking, queueVars, cancel, cancels, enq, lost>>

\* dispatchPendingLanes
Tick ==
    /\ mode = "up"
    /\ ticking
    /\ timers' = timers \cup DueLanes
    /\ UNCHANGED <<db, boot, mode, ticking, disp, exec, aborts, running, sweep,
                   cancel, cancels, enq, hooks, lost>>
-----------------------------------------------------------------------------
(* cancel / cancelLane *)

\* The controller stored for a job belongs to the slot that stored it last.
Abort(j) ==
    exec' = [e \in Slots |-> IF e = aborts[j] THEN [exec[e] EXCEPT !.aborted = TRUE] ELSE exec[e]]

CancelCall(call) ==
    /\ cancel' = call
    /\ UNCHANGED <<boot, mode, ticking, timers, disp, aborts, running, sweep, enq, hooks, lost>>

BeginCancel ==
    /\ mode = "up"
    /\ cancel.at = "idle"
    /\ cancels < MaxCancels
    /\ cancels' = cancels + 1

\* cancel(jobId): the signal fires at once, cancelJob is awaited.
CancelOne(j) ==
    /\ BeginCancel
    /\ Exists(j)
    /\ Abort(j)
    /\ CancelCall([NoCancel EXCEPT !.at = "put", !.job = j])
    /\ UNCHANGED db

\* cancelJob as each of the three callers awaits it.
CancelPut(then) ==
    /\ LET j == cancel.job IN
       \/ Cancellable(db[j]) /\ Write(j, Cancelled(db[j]))
       \/ (MayGiveUp \/ ~Cancellable(db[j])) /\ UNCHANGED db
    /\ CancelCall(then)
    /\ UNCHANGED <<exec, cancels>>

CancelOnePut == cancel.at = "put" /\ CancelPut(NoCancel)

\* cancelLane(lane).  `targets` records what the lane holds at the call.
CancelLane(l) ==
    /\ BeginCancel
    /\ CancelCall([NoCancel EXCEPT !.at = "lane", !.lane = l, !.targets =
         {j \in JobIds : (Is(j, "pending") \/ Is(j, "running")) /\ Lane(j) = l}])
    /\ UNCHANGED <<db, exec>>

\* The loop over runningAborts; `todo` holds the entries already visited.
CancelLaneRunning(j) ==
    /\ cancel.at = "lane"
    /\ aborts[j] # 0 /\ Lane(j) = cancel.lane /\ j \notin cancel.todo
    /\ Abort(j)
    /\ CancelCall([cancel EXCEPT !.at = "lanePut", !.job = j])
    /\ UNCHANGED <<db, cancels>>

CancelLaneRunningPut ==
    /\ cancel.at = "lanePut"
    /\ CancelPut([cancel EXCEPT !.at = "lane", !.todo = @ \cup {cancel.job}, !.job = 0])

\* findPendingJobsByLane(lane, 100)
CancelLaneScan ==
    /\ cancel.at = "lane"
    /\ \A j \in JobIds : aborts[j] # 0 /\ Lane(j) = cancel.lane => j \in cancel.todo
    /\ CancelCall([cancel EXCEPT !.at = "pending", !.todo = PendingIn(cancel.lane)])
    /\ UNCHANGED <<db, exec, cancels>>

CancelLanePending(j) ==
    /\ cancel.at = "pending"
    /\ IsFirst(j, cancel.todo)
    /\ CancelCall([cancel EXCEPT !.at = "pendingPut", !.todo = @ \ {j}, !.job = j])
    /\ UNCHANGED <<db, exec, cancels>>

CancelLanePendingPut ==
    /\ cancel.at = "pendingPut"
    /\ CancelPut([cancel EXCEPT !.at = "pending", !.job = 0])

\* The call is about to return.
CancelLaneReturns == cancel.at = "pending" /\ cancel.todo = {}

CancelLaneReturn ==
    /\ CancelLaneReturns
    /\ CancelCall(NoCancel)
    /\ UNCHANGED <<db, exec, cancels>>
-----------------------------------------------------------------------------
(* the life of the process *)

\* The process dies and a new one begins with reconcileOnBoot: only the
\* collection survives.
Crash ==
    /\ boot + 1 \in Boots
    /\ boot' = boot + 1
    /\ mode' = "reconcile"
    /\ ticking' = FALSE
    /\ timers' = {}
    /\ disp' = [d \in Dispatchers |-> NoDisp]
    /\ exec' = [e \in Slots |-> NoExec]
    /\ aborts' = [j \in JobIds |-> 0]
    /\ running' = 0
    /\ sweep' = 0
    /\ cancel' = NoCancel
    /\ enq' = [c \in Clients |-> NoEnq]
    /\ UNCHANGED <<db, cancels, hooks, lost>>

Orphaned(j) == Is(j, "running") /\ db[j].boot # boot

\* reconcileOnBoot, step 4.
ReconcileJob(j) ==
    /\ mode = "reconcile"
    /\ Orphaned(j)
    /\ TakeBack(j, TRUE)
    /\ UNCHANGED <<boot, mode, ticking, queueVars, cancel, cancels, enq, hooks>>

\* start(), at the end of the boot sequence or again after stop().
Start ==
    /\ ~ticking
    /\ mode = "reconcile" => sweep = 0 /\ \A j \in JobIds : ~Orphaned(j)
    /\ mode' = "up"
    /\ ticking' = TRUE
    /\ timers' = timers \cup DueLanes
    /\ UNCHANGED <<db, boot, disp, exec, aborts, running, sweep, cancel, cancels, enq, hooks, lost>>

\* stop() clears both kinds of timer and leaves running jobs alone.
Stop ==
    /\ MayStop
    /\ mode = "up"
    /\ ticking
    /\ ticking' = FALSE
    /\ timers' = {}
    /\ UNCHANGED <<db, boot, mode, disp, exec, aborts, running, sweep, cancel, cancels,
                   enq, hooks, lost>>
-----------------------------------------------------------------------------
Results == {"ok", "retryable", "fatal", "abortError"}

Enqueue ==
    \E c \in Clients :
        \/ \E info \in Infos : EnqueueLookup(c, info)
        \/ \E due \in BOOLEAN : EnqueueCreate(c, due)

Dispatch ==
    \E d \in Dispatchers :
        \/ \E l \in Lanes : FireTimer(d, l)
        \/ FindJob(d)
        \/ ClaimJob(d)
        \/ \E e \in Slots : Launch(d, e)

Execute ==
    \E e \in Slots :
        \/ \E result \in Results : Settle(e, result)
        \/ Timeout(e)
        \/ StoreResult(e)
        \/ RunHook(e)
        \/ RenewLease(e)

Maintain ==
    \/ \E j \in JobIds : LeaseLapse(j) \/ BecomeDue(j) \/ SweepLease(j)
    \/ InterruptedHook
    \/ Tick

CancelJobs ==
    \/ \E j \in JobIds : CancelOne(j) \/ CancelLaneRunning(j) \/ CancelLanePending(j)
    \/ \E l \in Lanes : CancelLane(l)
    \/ CancelOnePut
    \/ CancelLaneRunningPut
    \/ CancelLaneScan
    \/ CancelLanePendingPut
    \/ CancelLaneReturn

Live ==
    \/ Crash
    \/ \E j \in JobIds : ReconcileJob(j)
    \/ Start
    \/ Stop

Next == Enqueue \/ Dispatch \/ Execute \/ Maintain \/ CancelJobs \/ Live

Spec == Init /\ [][Next]_vars

\* The event loop runs every timer and continuation it holds; an executor
\* settles, at the latest some time after its signal fired.
Fairness ==
    /\ \A l \in Lanes : WF_vars(\E d \in Dispatchers : FireTimer(d, l))
    /\ \A d \in Dispatchers :
          /\ WF_vars(FindJob(d))
          /\ WF_vars(ClaimJob(d))
          /\ WF_vars(\E e \in Slots : Launch(d, e))
    /\ \A e \in Slots :
          /\ WF_vars(\E result \in Results : Settle(e, result))
          /\ WF_vars(StoreResult(e))
          /\ WF_vars(RunHook(e))
    /\ \A j \in JobIds :
          /\ WF_vars(LeaseLapse(j))
          /\ WF_vars(BecomeDue(j))
          /\ WF_vars(SweepLease(j))
          /\ WF_vars(ReconcileJob(j))
    /\ WF_vars(InterruptedHook)
    /\ WF_vars(Tick)
    /\ WF_vars(Start)

FairSpec == Spec /\ Fairness
-----------------------------------------------------------------------------
(* what holds *)

ExecRec == [at: {"idle", "run", "store", "hook"}, job: JobIds \cup {0},
            result: Results \cup {"none", "noExecutor"}, aborted: BOOLEAN]
DispRec == [at: {"idle", "find", "claim", "launch"}, lane: Lanes \cup {"none"}, job: JobIds \cup {0}]
EnqRec == [at: {"idle", "create"}, info: Infos \cup {NoJob}]
CancelRec == [at: {"idle", "put", "lane", "lanePut", "pending", "pendingPut"}, job: JobIds \cup {0},
              lane: Lanes \cup {"none"}, todo: SUBSET JobIds, targets: SUBSET JobIds]

TypeOK ==
    /\ db \in [JobIds -> Docs \cup {NoJob}]
    /\ boot \in Boots
    /\ mode \in {"reconcile", "up"}
    /\ ticking \in BOOLEAN
    /\ timers \subseteq Lanes
    /\ disp \in [Dispatchers -> DispRec]
    /\ exec \in [Slots -> ExecRec]
    /\ aborts \in [JobIds -> Slots \cup {0}]
    /\ running \in Int
    /\ sweep \in JobIds \cup {0}
    /\ cancel \in CancelRec
    /\ cancels \in 0..MaxCancels
    /\ enq \in [Clients -> EnqRec]
    /\ hooks \in [JobIds -> Seq({"ok", "failed"})]
    /\ lost \in [JobIds -> Nat]

\* runningCount, which decides whether anything is dispatched at all, equals
\* the number of executeJob calls in flight through every path: a leak would
\* eat the cap for good, a double decrement would lift it.
RunningCountExact == running = Cardinality({e \in Slots : Busy(e)})

\* No two executeJob calls ever work on the same job, although a retry, a
\* reclaim and two dispatches of one lane may all offer it again.  (As long as
\* leases do not expire under a live executor.)
ExclusiveExecution ==
    \A e, f \in Slots : Busy(e) /\ Busy(f) /\ exec[e].job = exec[f].job => e = f

\* A running row of this process is in somebody's hands: a dispatch that just
\* claimed it or a call that has not stored its result.  Nothing is left
\* "running" with nobody to finish it.
NothingStranded ==
    \A j \in JobIds : Is(j, "running") /\ db[j].boot = boot => InHand(j)

\* Every executeJob call in flight can be reached by cancel: the controller
\* stored for its job is its own.
CancelReachesExecution ==
    \A e \in Slots : Busy(e) => aborts[exec[e].job] = e

\* The hook hears of a job at most once, and what it hears is the outcome the
\* row records.
HookTellsOutcome ==
    \A j \in JobIds : hooks[j] # <<>> =>
        /\ Len(hooks[j]) = 1
        /\ hooks[j] = <<"ok">> <=> Is(j, "completed")
        /\ hooks[j] = <<"failed">> <=> Is(j, "failed") \/ Is(j, "interrupted")

\* Every start a row counts is accounted for: it was given back by a logical
\* retry, taken back by a reclaim, or it is the one that runs or ended the job.
\* A start counted twice or forgotten would give up on a job too early or
\* restart it for ever.
StartsAccounted ==
    \A j \in JobIds : Exists(j) =>
        LET spare == db[j].attempts - db[j].retry - lost[j] IN
        /\ db[j].status \in {"pending", "interrupted"} => spare = 0
        /\ db[j].status \in {"running", "completed", "failed"} => spare = 1
        /\ db[j].status = "cancelled" => spare \in {0, 1}

\* dispatchLane compares runningCount with the cap before it awaits the claim, so
\* calls in flight can pass the check together; they exceed the cap by no more
\* than that, and a single dispatch at a time never exceeds it.
CapOvershootBounded ==
    Cardinality({e \in Slots : Busy(e) /\ ~IsChat(exec[e].job)})
      + Cardinality({d \in Dispatchers : disp[d].at \in {"claim", "launch"} /\ ~IsChat(disp[d].job)})
    < MaxGlobal + Cardinality(Dispatchers)

\* A chat turn waits for a second start only because its process or its lease
\* was lost, never because its executor failed.
ChatRetriedOnlyByCrash ==
    \A j \in JobIds : Is(j, "pending") /\ IsChat(j) => db[j].attempts = lost[j]

\* A job is executed by one executor at a time and again only when it should be
\* (durable-queue.ts:277, :322).
ExecutedInTurn == ExclusiveExecution /\ ChatRetriedOnlyByCrash

\* The counter in memory and the counters in the rows agree with what really
\* runs and ran (durable-queue.ts:352, job-store.ts:249).
CountersExact == TypeOK /\ RunningCountExact /\ StartsAccounted

\* Every write of the queue is one of the job store's, so what is proved of
\* JobStore holds of the queue.  This is Store!Spec; the disjunct only spares
\* TLC the search for a store step where the table does not change.
Store == INSTANCE JobStore
UsesStore == Store!Init /\ [][db' = db \/ Store!Next]_db

\* Every job is settled in the end, whatever fails on the way.
EveryJobSettles ==
    \A j \in JobIds : Exists(j) ~> (Exists(j) /\ db[j].status \in Terminal)

\* A job that runs is, unless its process dies, handed back for another start,
\* cancelled or reported: no path through executeJob or the sweep ends a job
\* without telling anybody.
StartedIsReported ==
    \A j \in JobIds, b \in Boots :
        Is(j, "running") /\ db[j].boot = b /\ boot = b
          ~> boot # b \/ hooks[j] # <<>> \/ Is(j, "pending") \/ Is(j, "cancelled")
-----------------------------------------------------------------------------
(* what the documentation says and the code does not do *)

\* durable-queue.ts, "1 concurrent running job per lane".
OneRunningPerLane ==
    \A e, f \in Slots :
        Busy(e) /\ Busy(f) /\ Lane(exec[e].job) = Lane(exec[f].job) => e = f

\* durable-queue.ts, cancelLane: "Cancel all pending and running jobs in a
\* lane": none of them is still waiting when the call returns.
CancelLaneCancelsAll ==
    CancelLaneReturns => \A j \in cancel.targets : ~Is(j, "pending") /\ ~Is(j, "running")

\* durable-queue.ts and job-store.ts, "a repeated key returns the existing job
\* instead of creating a new one".
KeyIsUnique ==
    \A i, j \in JobIds :
        Exists(i) /\ Exists(j) /\ db[i].info.key # NoKey /\ db[i].info.key = db[j].info.key => i = j

=============================================================================
