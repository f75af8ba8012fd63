-------------------------- MODULE DurableQueueProofs --------------------------
(***************************************************************************)
(* What the durable queue does, for any number of jobs, lanes,             *)
(* dispatchers, slots, crashes and cancellations.                          *)
(*                                                                         *)
(* Rows first: every action moves at most one row, and by one of the       *)
(* writes of the job store (RowMove). So the queue implements JobStore and *)
(* with it inherits what JobStoreProofs shows of rows.                     *)
(*                                                                         *)
(* The counter is the number of occupied slots, because launch and finish  *)
(* change both in one step, and a crash clears both (CountKept). The cap   *)
(* is checked before an await: the argument counts the slots that hold a   *)
(* job under the cap together with the dispatchers that have passed the    *)
(* check (CapKept).                                                        *)
(*                                                                         *)
(* A job is in hand from its claim to the moment its outcome is stored. As *)
(* long as the clock does not jump over a lease, nobody else can put the   *)
(* row back meanwhile (HandsSafe), so no two hands hold one job            *)
(* (HandsApart). Conversely a row that runs in this boot is in hand        *)
(* (RunningHeld), unless a call of the store gave up. Where besides nobody *)
(* cancels, what a hook has been told is what the row says, then and ever  *)
(* after (ToldTruly).                                                      *)
(***************************************************************************)
EXTENDS DurableQueue, FiniteSetTheorems, TLAPS

USE DurableQueueAssumption, JobDocAssumption
-----------------------------------------------------------------------------
(* rows *)

\* create() writes a pending row that was never started.
LEMMA NewDocFacts ==
    ASSUME NEW info \in Infos, NEW due \in BOOLEAN
    PROVE  /\ NewDoc(info, due) \in Docs
           /\ NewDoc(info, due).info = info
           /\ NewDoc(info, due).status = "pending"
           /\ NewDoc(info, due).attempts = 0
           /\ NewDoc(info, due).retry = 0
BY DEF NewDoc, Docs, Statuses

\* A row that gets another status without an owner keeps its start count.
LEMMA ReleasedFacts ==
    ASSUME NEW d \in Docs, NEW s \in Statuses
    PROVE  /\ Released(d, s) \in Docs
           /\ Released(d, s).info = d.info
           /\ Released(d, s).status = s
           /\ Released(d, s).attempts = d.attempts
           /\ Released(d, s).retry = d.retry
           /\ Released(d, s).lease = "none"
           /\ Released(d, s).boot = NoBoot
BY DEF Released, Docs

\* A claim makes the row running, owned by this boot, and counts one start.
LEMMA ClaimedFacts ==
    ASSUME NEW d \in Docs, NEW b \in Boots
    PROVE  /\ Claimed(d, b) \in Docs
           /\ Claimed(d, b).info = d.info
           /\ Claimed(d, b).status = "running"
           /\ Claimed(d, b).attempts = d.attempts + 1
           /\ Claimed(d, b).retry = d.retry
           /\ Claimed(d, b).lease = "live"
           /\ Claimed(d, b).boot = b
<1>1. d.attempts \in Nat /\ d.attempts + 1 \in Nat
  BY DEF Docs
<1> QED BY <1>1 DEF Claimed, Docs, Statuses

\* A failed start ends the row, or sends it back to pending with one more
\* retry.
LEMMA RetriedFacts ==
    ASSUME NEW d \in Docs, d.status = "running"
    PROVE  /\ FailedOrRetried(d) \in Docs
           /\ FailedOrRetried(d).info = d.info
           /\ FailedOrRetried(d).attempts = d.attempts
           /\ \/ /\ FailedOrRetried(d).status = "failed"
                 /\ FailedOrRetried(d).retry = d.retry
              \/ /\ FailedOrRetried(d).status = "pending"
                 /\ FailedOrRetried(d).retry = d.retry + 1
<1>1. d.retry \in Nat /\ d.retry + 1 \in Nat
  BY DEF Docs
<1>2. Released(d, "failed") \in Docs /\ Released(d, "pending") \in Docs
  BY ReleasedFacts DEF Statuses
<1>3. CASE d.retry >= MaxRetries
  BY <1>3, ReleasedFacts DEF FailedOrRetried, Statuses
<1>4. CASE ~(d.retry >= MaxRetries)
  BY <1>1, <1>2, <1>4 DEF FailedOrRetried, Docs, Statuses, Released
<1> QED BY <1>3, <1>4

\* Boot reconciliation gives a row back or interrupts it; it keeps both counts.
LEMMA ReclaimedFacts ==
    ASSUME NEW d \in Docs
    PROVE  /\ Reclaimed(d) \in Docs
           /\ Reclaimed(d).info = d.info
           /\ Reclaimed(d).attempts = d.attempts
           /\ Reclaimed(d).retry = d.retry
           /\ Reclaimed(d).status \in {"pending", "interrupted"}
BY ReleasedFacts DEF Reclaimed, Statuses

\* A change of the lease changes nothing else.
LEMMA RenewedFacts ==
    ASSUME NEW d \in Docs, NEW l \in {"live", "expired"}
    PROVE  LET r == [d EXCEPT !.lease = l] IN
           /\ r \in Docs /\ r.lease = l
           /\ r.info = d.info /\ r.status = d.status /\ r.attempts = d.attempts
           /\ r.retry = d.retry /\ r.boot = d.boot
BY DEF Docs

\* A row that becomes due changes in nothing else.
LEMMA DueFacts ==
    ASSUME NEW d \in Docs
    PROVE  LET r == [d EXCEPT !.due = TRUE] IN
           /\ r \in Docs /\ r.lease = d.lease
           /\ r.info = d.info /\ r.status = d.status /\ r.attempts = d.attempts
           /\ r.retry = d.retry /\ r.boot = d.boot
BY DEF Docs
-----------------------------------------------------------------------------
(* shapes *)

\* Calls name rows that exist, since rows are never deleted.
Named ==
    /\ \A d \in Dispatchers : disp[d].at \in {"claim", "launch"} =>
          disp[d].job \in JobIds /\ Exists(disp[d].job)
    /\ \A e \in Slots : Busy(e) => exec[e].job \in JobIds /\ Exists(exec[e].job)
    /\ \A c \in Clients : enq[c].at = "create" => enq[c].info \in Infos
    /\ cancel.at \in {"put", "lanePut", "pendingPut"} => cancel.job \in JobIds /\ Exists(cancel.job)
    /\ cancel.at \in {"pending", "pendingPut"} => \A j \in cancel.todo : Exists(j)
    /\ \A j \in JobIds : aborts[j] # 0 => Exists(j)

Shaped == TypeOK /\ Named

\* What a step may do to a row: one of the writes of the job store, where only
\* reclaimOrInterrupt takes a start back.
RowMove(j, doc) ==
    \/ /\ lost' = lost
       /\ \/ ~Exists(j) /\ \E info \in Infos, due \in BOOLEAN : doc = NewDoc(info, due)
          \/ /\ Exists(j)
             /\ \/ Claimable(db[j]) /\ doc = Claimed(db[j], boot)
                \/ /\ Owned(db[j], boot)
                   /\ \/ doc \in {Renewed(db[j]), Completed(db[j]), Failed(db[j])}
                      \/ ~IsChat(j) /\ doc = FailedOrRetried(db[j])
                \/ Cancellable(db[j]) /\ doc = Cancelled(db[j])
                \/ ~db[j].due /\ doc = [db[j] EXCEPT !.due = TRUE]
                \/ db[j].lease = "live" /\ doc = [db[j] EXCEPT !.lease = "expired"]
    \/ /\ lost' = [lost EXCEPT ![j] = @ + 1]
       /\ Exists(j)
       /\ \E force \in BOOLEAN : Reclaimable(db[j], force)
       /\ doc = Reclaimed(db[j])

StoreStep ==
    \/ UNCHANGED <<db, lost>>
    \/ \E j \in JobIds, doc \in Docs : db' = [db EXCEPT ![j] = doc] /\ RowMove(j, doc)

\* Whatever moves a row, the row stays well formed and the same job.
LEMMA MoveTyped ==
    ASSUME Shaped, NEW j \in JobIds, NEW doc, RowMove(j, doc)
    PROVE  doc \in Docs /\ (Exists(j) => doc.info = db[j].info)
<1>1. Exists(j) => db[j] \in Docs
  BY DEF Shaped, TypeOK, Exists
<1>2. boot \in Boots
  BY DEF Shaped, TypeOK
<1>3. CASE ~Exists(j)
  BY <1>3, NewDocFacts DEF RowMove
<1>4. CASE Exists(j) /\ Claimable(db[j]) /\ doc = Claimed(db[j], boot)
  BY <1>1, <1>2, <1>4, ClaimedFacts
<1>5. CASE Exists(j) /\ Owned(db[j], boot) /\ doc = Renewed(db[j])
  BY <1>1, <1>5, RenewedFacts DEF Renewed
<1>6. CASE Exists(j) /\ doc \in {Completed(db[j]), Failed(db[j]), Cancelled(db[j])}
  BY <1>1, <1>6, ReleasedFacts DEF Completed, Failed, Cancelled, Statuses
<1>7. CASE Exists(j) /\ Owned(db[j], boot) /\ doc = FailedOrRetried(db[j])
  BY <1>1, <1>7, RetriedFacts DEF Owned
<1>8. CASE Exists(j) /\ doc = [db[j] EXCEPT !.due = TRUE]
  BY <1>1, <1>8, DueFacts
<1>9. CASE Exists(j) /\ doc = [db[j] EXCEPT !.lease = "expired"]
  BY <1>1, <1>9, RenewedFacts
<1>10. CASE Exists(j) /\ doc = Reclaimed(db[j])
  BY <1>1, <1>10, ReclaimedFacts
<1> QED BY <1>3, <1>4, <1>5, <1>6, <1>7, <1>8, <1>9, <1>10 DEF RowMove

\* A write of one row by one of the moves is a step of the rows.
LEMMA Moved ==
    ASSUME Shaped, NEW j \in JobIds, NEW doc, db' = [db EXCEPT ![j] = doc], RowMove(j, doc)
    PROVE  StoreStep
BY MoveTyped DEF StoreStep

\* Every step is a step of the job store.
LEMMA Rows ==
    ASSUME Shaped, Next
    PROVE  StoreStep
<1>1. ASSUME NEW c \in Clients, NEW due \in BOOLEAN, EnqueueCreate(c, due)
      PROVE  StoreStep
  <2>1. enq[c].info \in Infos
    BY <1>1 DEF EnqueueCreate, Shaped, Named
  <2> QED BY <1>1, <2>1, Moved DEF EnqueueCreate, Write, RowMove
<1>2. ASSUME NEW d \in Dispatchers, ClaimJob(d)
      PROVE  StoreStep
  <2>1. disp[d].job \in JobIds /\ Exists(disp[d].job)
    BY <1>2 DEF ClaimJob, Shaped, Named, TypeOK
  <2>2. CASE UNCHANGED db
    BY <1>2, <2>2 DEF ClaimJob, StoreStep
  <2>3. CASE Claimable(db[disp[d].job]) /\ Write(disp[d].job, Claimed(db[disp[d].job], boot))
    BY <1>2, <2>1, <2>3, Moved DEF ClaimJob, Write, RowMove
  <2> QED BY <1>2, <2>2, <2>3 DEF ClaimJob
<1>3. ASSUME NEW e \in Slots, StoreResult(e)
      PROVE  StoreStep
  <2> DEFINE j == exec[e].job
  <2>1. j \in JobIds /\ Exists(j)
    BY <1>3 DEF StoreResult, Shaped, Named, TypeOK, Busy
  <2>2. ResultWrites(e, db[j]) =>
           \/ Owned(db[j], boot) /\ ResultDoc(e, db[j]) \in {Completed(db[j]), Failed(db[j])}
           \/ Owned(db[j], boot) /\ ~IsChat(j) /\ ResultDoc(e, db[j]) = FailedOrRetried(db[j])
           \/ Cancellable(db[j]) /\ ResultDoc(e, db[j]) = Cancelled(db[j])
    <3>1. CASE exec[e].result = "abortError"
      BY <3>1 DEF ResultWrites, ResultDoc, Retries
    <3>2. CASE exec[e].result = "ok"
      <4>1. ResultDoc(e, db[j]) = Completed(db[j])
        BY <3>2 DEF ResultDoc, Retries
      <4> QED BY <3>2, <4>1 DEF ResultWrites
    <3>3. CASE exec[e].result \notin {"abortError", "ok"}
      BY <3>3 DEF ResultWrites, ResultDoc, Retries
    <3> QED BY <3>1, <3>2, <3>3
  <2>3. UNCHANGED db \/ (ResultWrites(e, db[j]) /\ db' = [db EXCEPT ![j] = ResultDoc(e, db[j])])
    <3>1. PICK writes \in BOOLEAN :
             /\ writes => ResultWrites(e, db[j])
             /\ db' = [db EXCEPT ![j] = IF writes THEN ResultDoc(e, @) ELSE @]
      BY <1>3 DEF StoreResult
    <3>2. CASE writes
      <4>1. db' = [db EXCEPT ![j] = ResultDoc(e, db[j])]
        BY <3>1, <3>2
      <4> QED BY <3>1, <3>2, <4>1
    <3>3. CASE ~writes
      <4>1. db' = [db EXCEPT ![j] = db[j]]
        BY <3>1, <3>3
      <4> QED BY <4>1 DEF Shaped, TypeOK
    <3> QED BY <3>2, <3>3
  <2>4. lost' = lost
    BY <1>3 DEF StoreResult
  <2>5. ResultWrites(e, db[j]) => RowMove(j, ResultDoc(e, db[j]))
    BY <2>1, <2>2, <2>4 DEF RowMove
  <2> QED BY <2>1, <2>3, <2>4, <2>5, Moved DEF StoreStep
<1>4. ASSUME NEW e \in Slots, RenewLease(e)
      PROVE  StoreStep
  <2>1. exec[e].job \in JobIds /\ Exists(exec[e].job)
    BY <1>4 DEF RenewLease, Shaped, Named
  <2> QED BY <1>4, <2>1, Moved DEF RenewLease, Write, RowMove
<1>5. ASSUME NEW j \in JobIds, LeaseLapse(j) \/ BecomeDue(j) \/ TakeBack(j, TRUE) \/ TakeBack(j, FALSE)
      PROVE  StoreStep
  <2>1. CASE LeaseLapse(j)
    BY <2>1, Moved DEF LeaseLapse, Is, Write, RowMove
  <2>2. CASE BecomeDue(j)
    BY <2>2, Moved DEF BecomeDue, Is, Write, RowMove
  <2>3. ASSUME NEW force \in BOOLEAN, TakeBack(j, force)
        PROVE  StoreStep
    BY <2>3, Moved DEF TakeBack, Write, RowMove
  <2> QED BY <1>5, <2>1, <2>2, <2>3
<1>6. ASSUME NEW then, CancelPut(then), cancel.at \in {"put", "lanePut", "pendingPut"}
      PROVE  StoreStep
  <2>1. cancel.job \in JobIds /\ Exists(cancel.job)
    BY <1>6 DEF Shaped, Named
  <2>2. lost' = lost
    BY <1>6 DEF CancelPut, CancelCall
  <2> QED BY <1>6, <2>1, <2>2, Moved DEF CancelPut, Write, RowMove, StoreStep
<1>0. CASE UNCHANGED <<db, lost>>
  BY <1>0 DEF StoreStep
<1>7. CASE Enqueue
  BY <1>0, <1>1, <1>7 DEF Enqueue, EnqueueLookup
<1>8. CASE Dispatch
  BY <1>0, <1>2, <1>8 DEF Dispatch, FireTimer, FindJob, Launch
<1>9. CASE Execute
  BY <1>0, <1>3, <1>4, <1>9 DEF Execute, Settle, Timeout, RunHook
<1>10. CASE Maintain
  BY <1>0, <1>5, <1>10 DEF Maintain, SweepLease, InterruptedHook, Tick
<1>11. CASE CancelJobs
  BY <1>0, <1>6, <1>11 DEF CancelJobs, CancelOne, CancelLane, CancelLaneRunning, CancelLaneScan,
                     CancelLanePending, CancelLaneReturn, CancelOnePut, CancelLaneRunningPut,
                     CancelLanePendingPut, CancelCall
<1>12. CASE Live
  BY <1>0, <1>5, <1>12 DEF Live, Crash, ReconcileJob, Start, Stop
<1> QED BY <1>7, <1>8, <1>9, <1>10, <1>11, <1>12 DEF Next

\* Rows are never deleted and never become another job.
LEMMA Kept ==
    ASSUME Shaped, StoreStep
    PROVE  /\ db' \in [JobIds -> Docs \cup {NoJob}]
           /\ \A j \in JobIds : Exists(j) => Exists(j)' /\ db'[j].info = db[j].info
<1>1. db \in [JobIds -> Docs \cup {NoJob}]
  BY DEF Shaped, TypeOK
<1>2. CASE UNCHANGED <<db, lost>>
  BY <1>1, <1>2 DEF Exists
<1>3. ASSUME NEW j \in JobIds, NEW doc \in Docs, db' = [db EXCEPT ![j] = doc], RowMove(j, doc)
      PROVE  /\ db' \in [JobIds -> Docs \cup {NoJob}]
             /\ \A i \in JobIds : Exists(i) => Exists(i)' /\ db'[i].info = db[i].info
  <2>1. doc # NoJob /\ (Exists(j) => doc.info = db[j].info)
    BY <1>3, MoveTyped
  <2> QED BY <1>1, <1>3, <2>1 DEF Exists
<1> QED BY <1>2, <1>3 DEF StoreStep

\* A job belongs to one of the lanes.
LEMMA LaneTyped ==
    ASSUME Shaped, NEW j \in JobIds, Exists(j)
    PROVE  Lane(j) \in Lanes
<1>1. db[j] \in Docs
  BY DEF Shaped, TypeOK, Exists
<1> QED BY <1>1 DEF Docs, Lane

-----------------------------------------------------------------------------
(* which steps change what *)

ExecStep ==
    \/ UNCHANGED <<exec, aborts, running>>
    \/ \E d \in Dispatchers, e \in Slots : Launch(d, e)
    \/ \E e \in Slots : (\E r \in Results : Settle(e, r)) \/ Timeout(e) \/ StoreResult(e) \/ RunHook(e)
    \/ UNCHANGED <<db, boot, disp, aborts, running, lost, hooks, sweep>> /\ \E j \in JobIds : Abort(j)
    \/ Crash

DispStep ==
    \/ UNCHANGED disp
    \/ \E d \in Dispatchers :
          \/ \E l \in Lanes : FireTimer(d, l)
          \/ FindJob(d)
          \/ ClaimJob(d)
          \/ \E e \in Slots : Launch(d, e)
    \/ Crash

\* What a step may do to executions, their AbortControllers and the running
\* counter.
LEMMA ExecSteps == Next => ExecStep
<1> SUFFICES ASSUME Next PROVE ExecStep
  OBVIOUS
<1>1. CASE Enqueue
  BY <1>1 DEF Enqueue, EnqueueLookup, EnqueueCreate, ExecStep
<1>2. CASE Dispatch
  BY <1>2 DEF Dispatch, FireTimer, FindJob, ClaimJob, ExecStep
<1>3. CASE Execute
  BY <1>3 DEF Execute, RenewLease, queueVars, ExecStep
<1>4. CASE Maintain
  BY <1>4 DEF Maintain, LeaseLapse, BecomeDue, SweepLease, InterruptedHook, Tick, queueVars, ExecStep
<1>5. CASE CancelJobs
  BY <1>5 DEF CancelJobs, CancelOne, CancelLane, CancelLaneRunning, CancelLaneScan, CancelLanePending,
              CancelLaneReturn, CancelOnePut, CancelLaneRunningPut, CancelLanePendingPut, CancelPut,
              CancelCall, ExecStep
<1>6. CASE Live
  BY <1>6 DEF Live, ReconcileJob, Start, Stop, queueVars, ExecStep
<1> QED BY <1>1, <1>2, <1>3, <1>4, <1>5, <1>6 DEF Next

\* What a step may do to the dispatchers.
LEMMA DispSteps == Next => DispStep
<1> SUFFICES ASSUME Next PROVE DispStep
  OBVIOUS
<1>1. CASE Enqueue
  BY <1>1 DEF Enqueue, EnqueueLookup, EnqueueCreate, DispStep
<1>2. CASE Dispatch
  BY <1>2 DEF Dispatch, DispStep
<1>3. CASE Execute
  BY <1>3 DEF Execute, Settle, Timeout, StoreResult, RunHook, RenewLease, queueVars, DispStep
<1>4. CASE Maintain
  BY <1>4 DEF Maintain, LeaseLapse, BecomeDue, SweepLease, InterruptedHook, Tick, queueVars, DispStep
<1>5. CASE CancelJobs
  BY <1>5 DEF CancelJobs, CancelOne, CancelLane, CancelLaneRunning, CancelLaneScan, CancelLanePending,
              CancelLaneReturn, CancelOnePut, CancelLaneRunningPut, CancelLanePendingPut, CancelPut,
              CancelCall, DispStep
<1>6. CASE Live
  BY <1>6 DEF Live, ReconcileJob, Start, Stop, queueVars, DispStep
<1> QED BY <1>1, <1>2, <1>3, <1>4, <1>5, <1>6 DEF Next
-----------------------------------------------------------------------------
\* The state before the first job is well formed.
LEMMA ShapedInit == Init => Shaped
<1> SUFFICES ASSUME Init PROVE Shaped
  OBVIOUS
<1>1. /\ db \in [JobIds -> Docs \cup {NoJob}] /\ aborts \in [JobIds -> Slots \cup {0}]
      /\ lost \in [JobIds -> Nat]
  BY DEF Init
<1>6. boot \in Boots /\ mode \in {"reconcile", "up"} /\ ticking \in BOOLEAN /\ timers \subseteq Lanes
  BY DEF Init
<1>7. running \in Int /\ sweep \in JobIds \cup {0} /\ cancels \in 0..MaxCancels
  BY DEF Init
<1>2. disp \in [Dispatchers -> DispRec] /\ exec \in [Slots -> ExecRec]
  BY DEF Init, NoDisp, DispRec, NoExec, ExecRec
<1>3. cancel \in CancelRec /\ enq \in [Clients -> EnqRec]
  BY DEF Init, NoCancel, CancelRec, NoEnq, EnqRec
<1>4. hooks \in [JobIds -> Seq({"ok", "failed"})]
  BY DEF Init
<1>5. Named
  BY DEF Init, Named, NoDisp, NoExec, NoCancel, NoEnq, Busy
<1> QED BY <1>1, <1>2, <1>3, <1>4, <1>5, <1>6, <1>7 DEF Shaped, TypeOK

\* A row that a step finds is there after it.
RowsStay == \A j \in JobIds : db[j] # NoJob => db'[j] # NoJob

\* A dispatcher that claims or launches does so for a row that is there.
LEMMA DispShaped ==
    ASSUME Shaped, Next, RowsStay
    PROVE  /\ disp' \in [Dispatchers -> DispRec]
           /\ \A d \in Dispatchers : disp'[d].at \in {"claim", "launch"} =>
                 disp'[d].job \in JobIds /\ db'[disp'[d].job] # NoJob
<1> DEFINE T == disp' \in [Dispatchers -> DispRec]
           N == \A d \in Dispatchers : disp'[d].at \in {"claim", "launch"} =>
                 disp'[d].job \in JobIds /\ db'[disp'[d].job] # NoJob
<1>0. /\ disp \in [Dispatchers -> DispRec]
      /\ \A d \in Dispatchers : disp[d].at \in {"claim", "launch"} =>
                 disp[d].job \in JobIds /\ db'[disp[d].job] # NoJob
  BY DEF Shaped, TypeOK, Named, RowsStay, Exists
<1>1. CASE UNCHANGED disp
  BY <1>0, <1>1
<1>2. ASSUME NEW d \in Dispatchers, NEW l \in Lanes, FireTimer(d, l)
      PROVE  T /\ N
  BY <1>0, <1>2 DEF FireTimer, DispRec
<1>3. ASSUME NEW d \in Dispatchers, FindJob(d)
      PROVE  T /\ N
  <2>1. CASE disp' = [disp EXCEPT ![d] = NoDisp]
    BY <1>0, <2>1 DEF DispRec, NoDisp
  <2>2. ASSUME NEW j \in JobIds, Exists(j), disp' = [disp EXCEPT ![d].at = "claim", ![d].job = j]
        PROVE  T /\ N
    <3>1. db'[j] # NoJob
      BY <2>2 DEF RowsStay, Exists
    <3> QED BY <1>0, <2>2, <3>1, ZenonT(30) DEF DispRec
  <2> QED BY <1>3, <2>1, <2>2 DEF FindJob, IsFirst, PendingIn
<1>4. ASSUME NEW d \in Dispatchers, ClaimJob(d)
      PROVE  T /\ N
  <2>1. disp[d].at = "claim" /\ \E p \in {"launch", "find"} : disp' = [disp EXCEPT ![d].at = p]
    BY <1>4 DEF ClaimJob
  <2> QED BY <1>0, <2>1 DEF DispRec
<1>5. ASSUME NEW d \in Dispatchers, disp' = [disp EXCEPT ![d] = NoDisp]
      PROVE  T /\ N
  BY <1>0, <1>5 DEF DispRec, NoDisp
<1>6. CASE Crash
  BY <1>6 DEF Crash, DispRec, NoDisp
<1> QED BY DispSteps, <1>1, <1>2, <1>3, <1>4, <1>5, <1>6 DEF DispStep, Launch

\* An executor's answer and an abort change nothing else of the execution.
LEMMA SettledFacts ==
    ASSUME NEW x \in ExecRec
    PROVE  /\ \A r \in Results : LET y == [x EXCEPT !.at = "store", !.result = r] IN
              y \in ExecRec /\ y.at = "store" /\ y.job = x.job /\ y.result = r
           /\ LET y == [x EXCEPT !.aborted = TRUE] IN
              y \in ExecRec /\ y.at = x.at /\ y.job = x.job /\ y.result = x.result
           /\ LET y == [x EXCEPT !.at = "hook"] IN
              y \in ExecRec /\ y.at = "hook" /\ y.job = x.job /\ y.result = x.result
BY DEF ExecRec

\* An execution in a slot has a row, and so has a registered AbortController.
LEMMA ExecShaped ==
    ASSUME Shaped, Next, RowsStay
    PROVE  /\ exec' \in [Slots -> ExecRec] /\ aborts' \in [JobIds -> Slots \cup {0}] /\ running' \in Int
           /\ \A e \in Slots : exec'[e].at # "idle" => exec'[e].job \in JobIds /\ db'[exec'[e].job] # NoJob
           /\ \A j \in JobIds : aborts'[j] # 0 => db'[j] # NoJob
<1> DEFINE T == exec' \in [Slots -> ExecRec]
           N == \A e \in Slots : exec'[e].at # "idle" =>
                   exec'[e].job \in JobIds /\ db'[exec'[e].job] # NoJob
           A == /\ aborts' \in [JobIds -> Slots \cup {0}]
                /\ \A j \in JobIds : aborts'[j] # 0 => db'[j] # NoJob
           R == running' \in Int
<1>0. /\ exec \in [Slots -> ExecRec] /\ aborts \in [JobIds -> Slots \cup {0}] /\ running \in Int
      /\ \A e \in Slots : exec[e].at # "idle" => exec[e].job \in JobIds /\ db'[exec[e].job] # NoJob
      /\ \A j \in JobIds : aborts[j] # 0 => db'[j] # NoJob
  BY DEF Shaped, TypeOK, Named, RowsStay, Exists, Busy
<1>1. CASE UNCHANGED <<exec, aborts, running>>
  BY <1>0, <1>1
<1>2. ASSUME NEW d \in Dispatchers, NEW e \in Slots, Launch(d, e)
      PROVE  T /\ N /\ A /\ R
  <2> DEFINE j == disp[d].job
  <2>1. j \in JobIds /\ db'[j] # NoJob
    BY <1>2 DEF Launch, Shaped, Named, RowsStay, Exists
  <2>2. PICK r \in ExecRec : r.job = j /\ exec' = [exec EXCEPT ![e] = r]
    <3>1. [at |-> "run", job |-> j, result |-> "none", aborted |-> FALSE] \in ExecRec
      BY <2>1 DEF ExecRec
    <3>2. [at |-> "store", job |-> j, result |-> "noExecutor", aborted |-> FALSE] \in ExecRec
      BY <2>1 DEF ExecRec
    <3> QED BY <1>2, <3>1, <3>2 DEF Launch
  <2>3. T /\ N
    BY <1>0, <2>1, <2>2
  <2>4. A /\ R
    BY <1>0, <1>2, <2>1 DEF Launch
  <2> QED BY <2>3, <2>4
<1>3. ASSUME NEW e \in Slots, Settle(e, "ok") \/ (\E r \in Results : Settle(e, r)) \/ Timeout(e)
      PROVE  T /\ N /\ A /\ R
  <2>1. UNCHANGED <<aborts, running>>
    BY <1>3 DEF Settle, Timeout
  <2>2. \/ \E r \in Results : exec' = [exec EXCEPT ![e].at = "store", ![e].result = r]
        \/ exec' = [exec EXCEPT ![e].aborted = TRUE]
    BY <1>3 DEF Settle, Timeout, Results
  <2>3. exec[e].at # "idle"
    BY <1>3 DEF Settle, Timeout
  <2>4. PICK r \in ExecRec : r.job = exec[e].job /\ exec' = [exec EXCEPT ![e] = r]
    <3>1. ASSUME NEW r \in Results
          PROVE  [exec EXCEPT ![e].at = "store", ![e].result = r]
                      = [exec EXCEPT ![e] = [exec[e] EXCEPT !.at = "store", !.result = r]]
      BY <1>0
    <3>2. exec[e] \in ExecRec
      BY <1>0
    <3>3. ASSUME NEW r \in Results, exec' = [exec EXCEPT ![e].at = "store", ![e].result = r]
          PROVE  \E x \in ExecRec : x.job = exec[e].job /\ exec' = [exec EXCEPT ![e] = x]
      <4> DEFINE y == [exec[e] EXCEPT !.at = "store", !.result = r]
      <4>1. y \in ExecRec /\ y.job = exec[e].job
        BY <3>2, SettledFacts
      <4>2. exec' = [exec EXCEPT ![e] = y]
        BY <3>1, <3>3
      <4> QED BY <4>1, <4>2
    <3>4. ASSUME exec' = [exec EXCEPT ![e].aborted = TRUE]
          PROVE  \E x \in ExecRec : x.job = exec[e].job /\ exec' = [exec EXCEPT ![e] = x]
      BY <3>2, <3>4, SettledFacts
    <3> QED BY <2>2, <3>3, <3>4
  <2> QED BY <1>0, <2>1, <2>3, <2>4
<1>4. ASSUME NEW e \in Slots, exec[e].at # "idle", GoesTo(e, "hook")
      PROVE  T /\ N /\ A /\ R
  BY <1>0, <1>4 DEF GoesTo, ExecRec
<1>5. ASSUME NEW e \in Slots, Finish(e)
      PROVE  T /\ N /\ A /\ R
  <2>1. NoExec \in ExecRec /\ NoExec.at = "idle"
    BY DEF NoExec, ExecRec
  <2>2. T /\ N
    BY <1>0, <1>5, <2>1 DEF Finish
  <2>3. A
    BY <1>0, <1>5 DEF Finish
  <2>4. R
    BY <1>0, <1>5 DEF Finish
  <2> QED BY <2>2, <2>3, <2>4
<1>6. ASSUME NEW j \in JobIds, Abort(j), UNCHANGED <<aborts, running>>
      PROVE  T /\ N /\ A /\ R
  <2>1. \A e \in Slots : [exec[e] EXCEPT !.aborted = TRUE] \in ExecRec
    BY <1>0, ZenonT(30) DEF ExecRec
  <2>2. \A e \in Slots : /\ [exec[e] EXCEPT !.aborted = TRUE].at = exec[e].at
                          /\ [exec[e] EXCEPT !.aborted = TRUE].job = exec[e].job
    BY <1>0 DEF ExecRec
  <2> QED BY <1>0, <1>6, <2>1, <2>2 DEF Abort
<1>7. CASE Crash
  BY <1>7 DEF Crash, NoExec, ExecRec
<1>8. ASSUME NEW e \in Slots, StoreResult(e) \/ RunHook(e)
      PROVE  T /\ N /\ A /\ R
  BY <1>4, <1>5, <1>8 DEF StoreResult, RunHook
<1> QED BY ExecSteps, <1>1, <1>2, <1>3, <1>6, <1>7, <1>8 DEF ExecStep

CancelStep ==
    \/ UNCHANGED <<cancel, cancels>>
    \/ \E j \in JobIds : CancelOne(j) \/ CancelLaneRunning(j) \/ CancelLanePending(j)
    \/ \E l \in Lanes : CancelLane(l)
    \/ CancelOnePut \/ CancelLaneRunningPut \/ CancelLanePendingPut
    \/ CancelLaneScan \/ CancelLaneReturn
    \/ Crash

\* What a step may do to a cancellation in progress.
LEMMA CancelSteps == Next => CancelStep
BY DEF Next, CancelStep, Enqueue, EnqueueLookup, EnqueueCreate, Dispatch, FireTimer, FindJob, ClaimJob, Launch,
   Execute, Settle, Timeout, StoreResult, RunHook, RenewLease, Maintain, LeaseLapse, BecomeDue, SweepLease,
   InterruptedHook, Tick, CancelJobs, Live, ReconcileJob, Start, Stop

\* A cancellation works on rows that are there.
LEMMA CancelShaped ==
    ASSUME Shaped, Next, RowsStay
    PROVE  /\ cancel' \in CancelRec /\ cancels' \in 0..MaxCancels
           /\ cancel'.at \in {"put", "lanePut", "pendingPut"} =>
                 cancel'.job \in JobIds /\ db'[cancel'.job] # NoJob
           /\ cancel'.at \in {"pending", "pendingPut"} => \A j \in cancel'.todo : db'[j] # NoJob
<1> DEFINE C == /\ cancel' \in CancelRec
                /\ cancel'.at \in {"put", "lanePut", "pendingPut"} =>
                      cancel'.job \in JobIds /\ db'[cancel'.job] # NoJob
                /\ cancel'.at \in {"pending", "pendingPut"} => \A j \in cancel'.todo : db'[j] # NoJob
           N == cancels' \in 0..MaxCancels
<1>0. /\ cancel \in CancelRec /\ cancels \in 0..MaxCancels
      /\ cancel.at \in {"put", "lanePut", "pendingPut"} =>
            cancel.job \in JobIds /\ db'[cancel.job] # NoJob
      /\ cancel.at \in {"pending", "pendingPut"} => \A j \in cancel.todo : db'[j] # NoJob
      /\ \A j \in JobIds : aborts[j] # 0 => db'[j] # NoJob
      /\ NoCancel \in CancelRec /\ NoCancel.at = "idle"
  BY DEF Shaped, TypeOK, Named, RowsStay, Exists, CancelRec, NoCancel
<1>1. CASE UNCHANGED <<cancel, cancels>>
  BY <1>0, <1>1
<1>2. ASSUME BeginCancel
      PROVE  N
  BY <1>0, <1>2 DEF BeginCancel
<1>3. ASSUME NEW j \in JobIds, CancelOne(j)
      PROVE  C
  BY <1>0, <1>3 DEF CancelOne, CancelCall, RowsStay, Exists, CancelRec, NoCancel
<1>4. ASSUME NEW l \in Lanes, CancelLane(l)
      PROVE  C
  BY <1>0, <1>4 DEF CancelLane, CancelCall, CancelRec, NoCancel
<1>5. ASSUME NEW j \in JobIds, CancelLaneRunning(j)
      PROVE  C
  BY <1>0, <1>5 DEF CancelLaneRunning, CancelCall, CancelRec
<1>6. ASSUME NEW j \in JobIds, CancelLanePending(j)
      PROVE  C
  BY <1>0, <1>6 DEF CancelLanePending, CancelCall, CancelRec, IsFirst
<1>7. CASE CancelOnePut \/ CancelLaneReturn \/ Crash
  BY <1>0, <1>7 DEF CancelOnePut, CancelPut, CancelLaneReturn, CancelCall, Crash
<1>8. CASE CancelLaneRunningPut
  BY <1>0, <1>8 DEF CancelLaneRunningPut, CancelPut, CancelCall, CancelRec
<1>9. CASE CancelLanePendingPut
  <2>1. cancel' = [cancel EXCEPT !.at = "pending", !.job = 0] /\ cancel.todo \subseteq JobIds
    BY <1>0, <1>9 DEF CancelLanePendingPut, CancelPut, CancelCall, CancelRec
  <2>2. cancel' \in CancelRec /\ cancel'.at = "pending" /\ cancel'.todo = cancel.todo
    BY <1>0, <2>1 DEF CancelRec
  <2>3. cancels' = cancels
    BY <1>9 DEF CancelLanePendingPut, CancelPut
  <2> QED BY <1>0, <1>9, <2>2, <2>3 DEF CancelLanePendingPut
<1>10. CASE CancelLaneScan
  <2>1. \A j \in PendingIn(cancel.lane) : j \in JobIds /\ db'[j] # NoJob
    BY DEF PendingIn, Exists, RowsStay
  <2> QED BY <1>0, <1>10, <2>1 DEF CancelLaneScan, CancelCall, CancelRec
<1>11. C
  BY CancelSteps, <1>1, <1>3, <1>4, <1>5, <1>6, <1>7, <1>8, <1>9, <1>10 DEF CancelStep
<1>12. N
  BY CancelSteps, <1>0, <1>1, <1>2 DEF CancelStep, CancelOne, CancelLane, CancelLaneRunning, CancelLanePending,
     CancelOnePut, CancelLaneRunningPut, CancelLanePendingPut, CancelPut, CancelLaneScan, CancelLaneReturn,
     Crash
<1> QED BY <1>11, <1>12

EnqueueShaped ==
    /\ enq \in [Clients -> EnqRec]
    /\ \A c \in Clients : enq[c].at = "create" => enq[c].info \in Infos

\* An enqueue works on an id of its own and a known lane.
LEMMA EnqShaped ==
    ASSUME Shaped, Next
    PROVE  EnqueueShaped'
<1>0. EnqueueShaped
  BY DEF Shaped, TypeOK, Named, EnqueueShaped
<1>1. ASSUME NEW c \in Clients, NEW info \in Infos, EnqueueLookup(c, info)
      PROVE  EnqueueShaped'
  BY <1>0, <1>1 DEF EnqueueLookup, EnqueueShaped, EnqRec
<1>2. ASSUME NEW c \in Clients, NEW due \in BOOLEAN, EnqueueCreate(c, due)
      PROVE  EnqueueShaped'
  BY <1>0, <1>2 DEF EnqueueCreate, EnqueueShaped, EnqRec, NoEnq
<1>3. CASE Crash
  BY <1>3 DEF Crash, EnqueueShaped, EnqRec, NoEnq
<1>4. CASE UNCHANGED enq
  BY <1>0, <1>4 DEF EnqueueShaped
<1>5. CASE Enqueue
  BY <1>1, <1>2, <1>5 DEF Enqueue
<1>6. CASE Dispatch
  BY <1>4, <1>6 DEF Dispatch, FireTimer, FindJob, ClaimJob, Launch
<1>7. CASE Execute
  BY <1>4, <1>7 DEF Execute, Settle, Timeout, StoreResult, RunHook, RenewLease
<1>8. CASE Maintain
  BY <1>4, <1>8 DEF Maintain, LeaseLapse, BecomeDue, SweepLease, InterruptedHook, Tick
<1>9. CASE CancelJobs
  BY <1>4, <1>9 DEF CancelJobs, CancelOne, CancelLane, CancelLaneRunning, CancelLaneScan, CancelLanePending,
     CancelLaneReturn, CancelOnePut, CancelLaneRunningPut, CancelLanePendingPut, CancelPut, CancelCall
<1>10. CASE Live
  BY <1>3, <1>4, <1>10 DEF Live, ReconcileJob, Start, Stop
<1> QED BY <1>5, <1>6, <1>7, <1>8, <1>9, <1>10 DEF Next

\* The steps that touch what the sweep and the hooks keep.
TollStep ==
    \/ UNCHANGED <<sweep, hooks, lost>>
    \/ \E j \in JobIds : SweepLease(j) \/ ReconcileJob(j)
    \/ InterruptedHook
    \/ \E e \in Slots : RunHook(e)
    \/ Crash

\* What a step may do to the sweep, the hooks that ran and the lost starts.
LEMMA TollSteps == Next => TollStep
<1> SUFFICES ASSUME Next PROVE TollStep
  OBVIOUS
<1>1. CASE Enqueue
  BY <1>1 DEF Enqueue, EnqueueLookup, EnqueueCreate, TollStep
<1>2. CASE Dispatch
  BY <1>2 DEF Dispatch, FireTimer, FindJob, ClaimJob, Launch, TollStep
<1>3. CASE Execute
  BY <1>3 DEF Execute, Settle, Timeout, StoreResult, RenewLease, TollStep
<1>4. CASE Maintain
  BY <1>4 DEF Maintain, LeaseLapse, BecomeDue, Tick, TollStep
<1>5. CASE CancelJobs
  BY <1>5 DEF CancelJobs, CancelOne, CancelLane, CancelLaneRunning, CancelLaneScan, CancelLanePending,
              CancelLaneReturn, CancelOnePut, CancelLaneRunningPut, CancelLanePendingPut, CancelPut,
              CancelCall, TollStep
<1>6. CASE Live
  BY <1>6 DEF Live, Start, Stop, TollStep
<1> QED BY <1>1, <1>2, <1>3, <1>4, <1>5, <1>6 DEF Next

\* These stay well formed.
LEMMA TollShaped ==
    ASSUME Shaped, Next
    PROVE  /\ sweep' \in JobIds \cup {0}
           /\ hooks' \in [JobIds -> Seq({"ok", "failed"})]
           /\ lost' \in [JobIds -> Nat]
<1>0. /\ sweep \in JobIds \cup {0}
      /\ hooks \in [JobIds -> Seq({"ok", "failed"})]
      /\ lost \in [JobIds -> Nat]
  BY DEF Shaped, TypeOK
<1>1. \A j \in JobIds, s \in {"ok", "failed"} : Append(hooks[j], s) \in Seq({"ok", "failed"})
  BY <1>0
<1>2. ASSUME NEW j \in JobIds, NEW force, TakeBack(j, force)
      PROVE  sweep' \in JobIds \cup {0} /\ lost' \in [JobIds -> Nat]
  BY <1>0, <1>2 DEF TakeBack
<1>3. CASE InterruptedHook
  BY <1>0, <1>1, <1>3 DEF InterruptedHook
<1>4. ASSUME NEW e \in Slots, RunHook(e)
      PROVE  hooks' \in [JobIds -> Seq({"ok", "failed"})] /\ UNCHANGED <<sweep, lost>>
  <2>1. exec[e].job \in JobIds
    BY <1>4 DEF RunHook, Shaped, Named, Busy
  <2> QED BY <1>0, <1>1, <1>4, <2>1 DEF RunHook
<1>5. CASE Crash
  BY <1>0, <1>5 DEF Crash
<1>6. CASE UNCHANGED <<sweep, hooks, lost>>
  BY <1>0, <1>6
<1> QED BY TollSteps, <1>0, <1>2, <1>3, <1>4, <1>5, <1>6 DEF TollStep, SweepLease, ReconcileJob

\* So do the boot number, its phase and the tick.
LEMMA ClockShaped ==
    ASSUME Shaped, Next
    PROVE  boot' \in Boots /\ mode' \in {"reconcile", "up"} /\ ticking' \in BOOLEAN
<1>0. boot \in Boots /\ mode \in {"reconcile", "up"} /\ ticking \in BOOLEAN
  BY DEF Shaped, TypeOK
<1>1. CASE UNCHANGED <<boot, mode, ticking>>
  BY <1>0, <1>1
<1>2. CASE Crash \/ Start \/ Stop
  BY <1>0, <1>2 DEF Crash, Start, Stop
<1>3. CASE Enqueue
  BY <1>1, <1>3 DEF Enqueue, EnqueueLookup, EnqueueCreate
<1>4. CASE Dispatch
  BY <1>1, <1>4 DEF Dispatch, FireTimer, FindJob, ClaimJob, Launch
<1>5. CASE Execute
  BY <1>1, <1>5 DEF Execute, Settle, Timeout, StoreResult, RunHook, RenewLease
<1>6. CASE Maintain
  BY <1>1, <1>6 DEF Maintain, LeaseLapse, BecomeDue, SweepLease, InterruptedHook, Tick
<1>7. CASE CancelJobs
  BY <1>1, <1>7 DEF CancelJobs, CancelOne, CancelLane, CancelLaneRunning, CancelLaneScan, CancelLanePending,
     CancelLaneReturn, CancelOnePut, CancelLaneRunningPut, CancelLanePendingPut, CancelPut, CancelCall
<1>8. CASE Live
  BY <1>1, <1>2, <1>8 DEF Live, ReconcileJob
<1> QED BY <1>3, <1>4, <1>5, <1>6, <1>7, <1>8 DEF Next

\* And the retry timers of the lanes.
LEMMA TimersShaped ==
    ASSUME Shaped, Next
    PROVE  timers' \subseteq Lanes
<1>0. timers \subseteq Lanes
  BY DEF Shaped, TypeOK
<1>1. \A j \in JobIds : Exists(j) => Lane(j) \in Lanes
  BY LaneTyped
<1>2. DueLanes \subseteq Lanes
  BY <1>1 DEF DueLanes
<1>3. CASE Enqueue
  <2>1. ASSUME NEW c \in Clients, NEW due \in BOOLEAN, EnqueueCreate(c, due)
        PROVE  timers' \subseteq Lanes
    <3>1. enq[c].info \in Infos
      BY <2>1 DEF EnqueueCreate, Shaped, Named
    <3> QED BY <1>0, <2>1, <3>1 DEF EnqueueCreate
  <2> QED BY <1>0, <1>3, <2>1 DEF Enqueue, EnqueueLookup
<1>4. CASE Dispatch
  BY <1>0, <1>4 DEF Dispatch, FireTimer, FindJob, ClaimJob, Launch
<1>5. CASE Execute
  <2>1. \A e \in Slots : Busy(e) => Lane(exec[e].job) \in Lanes
    BY <1>1 DEF Shaped, Named
  <2> QED BY <1>0, <1>5, <2>1 DEF Execute, Settle, Timeout, StoreResult, RunHook, RenewLease, Finish, GoesTo,
       Busy, queueVars
<1>6. CASE Maintain
  BY <1>0, <1>1, <1>2, <1>6
  DEF Maintain, LeaseLapse, BecomeDue, SweepLease, TakeBack, InterruptedHook, Tick, queueVars
<1>7. CASE CancelJobs
  BY <1>0, <1>7 DEF CancelJobs, CancelOne, CancelLane, CancelLaneRunning, CancelLaneScan, CancelLanePending,
     CancelLaneReturn, CancelOnePut, CancelLaneRunningPut, CancelLanePendingPut, CancelPut, CancelCall
<1>8. CASE Live
  BY <1>0, <1>2, <1>8 DEF Live, Crash, ReconcileJob, Start, Stop, queueVars
<1> QED BY <1>3, <1>4, <1>5, <1>6, <1>7, <1>8 DEF Next

\* So every step of the queue keeps the state well formed.
LEMMA ShapedStep == Shaped /\ [Next]_vars => Shaped'
<1> SUFFICES ASSUME Shaped, [Next]_vars PROVE Shaped'
  OBVIOUS
<1>1. CASE UNCHANGED vars
  BY <1>1 DEF vars, Shaped, TypeOK, Named, Busy, Exists
<1>2. CASE Next
  <2>1. db' \in [JobIds -> Docs \cup {NoJob}] /\ RowsStay
    BY <1>2, Rows, Kept DEF RowsStay, Exists
  <2>2. TypeOK'
    BY <1>2, <2>1, DispShaped, ExecShaped, CancelShaped, EnqShaped, TollShaped, ClockShaped, TimersShaped
    DEF TypeOK, EnqueueShaped
  <2>3. Named'
    BY <1>2, <2>1, DispShaped, ExecShaped, CancelShaped, EnqShaped DEF Named, EnqueueShaped, Exists, Busy
  <2> QED BY <2>2, <2>3 DEF Shaped
<1> QED BY <1>1, <1>2

\* The state of the queue is well formed in every execution: whatever is in a
\* dispatcher's, an execution's or a cancellation's hands has a row in the
\* store.
THEOREM ShapedAlways == Spec => []Shaped
<1>1. Init => Shaped
  BY ShapedInit
<1>2. Shaped /\ [Next]_vars => Shaped'
  BY ShapedStep
<1> QED BY <1>1, <1>2, PTL DEF Spec

-----------------------------------------------------------------------------
(* the queue uses the store *)

\* A write of one row by the queue is an operation of the job store.
LEMMA MoveIsStoreStep ==
    ASSUME Shaped, NEW j \in JobIds, NEW doc, db' = [db EXCEPT ![j] = doc], RowMove(j, doc)
    PROVE  Store!Next
<1> DEFINE Does(b) == \/ Store!Claim(j, b)
                      \/ Store!RenewLease(j, b)
                      \/ Store!Complete(j, b)
                      \/ Store!Fail(j, b)
                      \/ Store!FailOrRetry(j, b)
<1>1. boot \in Boots
  BY DEF Shaped, TypeOK
<1>2. CASE ~Exists(j)
  BY <1>2 DEF RowMove, Exists, NewDoc, Store!NewDoc, Store!Exists, Store!Create, Store!Write, Store!Next
<1>3. CASE Exists(j) /\ Claimable(db[j]) /\ doc = Claimed(db[j], boot)
  <2>1. Does(boot)
    BY <1>3 DEF Exists, Claimable, Claimed, Store!Claimable, Store!Claimed, Store!Exists, Store!Claim,
       Store!Write
  <2> QED BY <1>1, <2>1 DEF Store!Next
<1>4. CASE Exists(j) /\ Owned(db[j], boot)
           /\ doc \in {Renewed(db[j]), Completed(db[j]), Failed(db[j]), FailedOrRetried(db[j])}
  <2>1. Does(boot)
    BY <1>4 DEF Exists, Owned, Renewed, Completed, Failed, FailedOrRetried, Released,
       Store!Owned, Store!Renewed, Store!Completed, Store!Failed, Store!FailedOrRetried, Store!Released,
       Store!Exists, Store!RenewLease, Store!Complete, Store!Fail, Store!FailOrRetry, Store!Write
  <2> QED BY <1>1, <2>1 DEF Store!Next
<1>5. CASE Exists(j) /\ Cancellable(db[j]) /\ doc = Cancelled(db[j])
  BY <1>5 DEF Exists, Cancellable, Cancelled, Released, Store!Cancellable, Store!Cancelled, Store!Released,
     Store!Exists, Store!Cancel, Store!Write, Store!Next
<1>6. CASE Exists(j) /\ ~db[j].due /\ doc = [db[j] EXCEPT !.due = TRUE]
  BY <1>6 DEF Exists, Store!Exists, Store!BecomeDue, Store!Write, Store!Next
<1>7. CASE Exists(j) /\ db[j].lease = "live" /\ doc = [db[j] EXCEPT !.lease = "expired"]
  BY <1>7 DEF Exists, Store!Exists, Store!LeaseLapse, Store!Write, Store!Next
<1>8. CASE Exists(j) /\ (\E force \in BOOLEAN : Reclaimable(db[j], force)) /\ doc = Reclaimed(db[j])
  BY <1>8 DEF Exists, Reclaimable, Reclaimed, Released, Store!Reclaimable, Store!Reclaimed, Store!Released,
     Store!Exists, Store!Reclaim, Store!Write, Store!Next
<1> QED BY <1>2, <1>3, <1>4, <1>5, <1>6, <1>7, <1>8 DEF RowMove

\* Every write of the queue is a step of the store, for every constant.
THEOREM WritesThroughStore == Spec => UsesStore
<1>1. Init => Store!Init
  BY DEF Init, Store!Init
<1>2. Shaped /\ [Next]_vars => [db' = db \/ Store!Next]_db
  <2> SUFFICES ASSUME Shaped, Next PROVE db' = db \/ Store!Next
    BY DEF vars
  <2>1. StoreStep
    BY Rows
  <2> QED BY <2>1, MoveIsStoreStep DEF StoreStep
<1> QED BY <1>1, <1>2, ShapedAlways, PTL DEF Spec, UsesStore

StoreTheorems == INSTANCE JobStoreProofs

\* A queue that uses the store runs as JobStore specifies, with its constants.
LEMMA RunsAsStore == UsesStore => StoreTheorems!Spec
<1>1. Store!Init => StoreTheorems!Init
  BY DEF Store!Init, StoreTheorems!Init
<1>2. [db' = db \/ Store!Next]_db => [StoreTheorems!Next]_db
  BY DEF Store!Create, Store!Claim, Store!RenewLease, Store!Complete, Store!Fail, Store!FailOrRetry,
     Store!Reclaim, Store!Cancel, Store!BecomeDue, Store!LeaseLapse, Store!NewDoc, Store!Claimable,
     Store!Claimed, Store!Owned, Store!Renewed, Store!Completed, Store!Failed, Store!FailedOrRetried,
     Store!Released, Store!Reclaimable, Store!Reclaimed, Store!Cancellable, Store!Cancelled,
     Store!Exists, Store!Write, Store!Next, StoreTheorems!Create, StoreTheorems!Claim,
     StoreTheorems!RenewLease, StoreTheorems!Complete, StoreTheorems!Fail, StoreTheorems!FailOrRetry,
     StoreTheorems!Reclaim, StoreTheorems!Cancel, StoreTheorems!BecomeDue, StoreTheorems!LeaseLapse,
     StoreTheorems!NewDoc, StoreTheorems!Claimable, StoreTheorems!Claimed, StoreTheorems!Owned,
     StoreTheorems!Renewed, StoreTheorems!Completed, StoreTheorems!Failed, StoreTheorems!FailedOrRetried,
     StoreTheorems!Released, StoreTheorems!Reclaimable, StoreTheorems!Reclaimed,
     StoreTheorems!Cancellable, StoreTheorems!Cancelled, StoreTheorems!Exists, StoreTheorems!Write,
     StoreTheorems!Next
<1> QED BY <1>1, <1>2, PTL DEF UsesStore, StoreTheorems!Spec

\* What is proved of the store holds of the rows of the running queue.
THEOREM RowsOfQueue ==
    Spec => /\ []StoreTheorems!RowDiscipline
            /\ StoreTheorems!SettledIsFinal
            /\ StoreTheorems!PromiseKept
<1>1. StoreTheorems!JobDocAssumption
  BY JobDocAssumption DEF StoreTheorems!JobDocAssumption, StoreTheorems!Docs, StoreTheorems!Statuses, Docs, Statuses
<1>2. StoreTheorems!Spec => []StoreTheorems!RowDiscipline
  BY <1>1, StoreTheorems!Disciplined, PTL
<1>3. StoreTheorems!Spec => StoreTheorems!SettledIsFinal
  BY <1>1, StoreTheorems!FinalOutcome, PTL
<1>4. StoreTheorems!Spec => StoreTheorems!PromiseKept
  BY <1>1, StoreTheorems!KeepsPromise, PTL
<1> QED BY <1>2, <1>3, <1>4, WritesThroughStore, RunsAsStore, PTL
-----------------------------------------------------------------------------
(* the counters agree *)

BusySlots == {e \in Slots : Busy(e)}

\* A slot is taken by a launch and freed by the finally block, and the count
\* moves with it.
LEMMA BusyMoves ==
    ASSUME Shaped, Next
    PROVE  \/ BusySlots' = BusySlots /\ running' = running
           \/ \E e \in Slots \ BusySlots : BusySlots' = BusySlots \cup {e} /\ running' = running + 1
           \/ \E e \in BusySlots : BusySlots' = BusySlots \ {e} /\ running' = running - 1
           \/ BusySlots' = {} /\ running' = 0
<1>0. exec \in [Slots -> ExecRec]
  BY DEF Shaped, TypeOK
<1>1. CASE UNCHANGED <<exec, aborts, running>>
  BY <1>1 DEF BusySlots, Busy
<1>2. ASSUME NEW d \in Dispatchers, NEW e \in Slots, Launch(d, e)
      PROVE  e \notin BusySlots /\ BusySlots' = BusySlots \cup {e} /\ running' = running + 1
  BY <1>0, <1>2 DEF Launch, BusySlots, Busy
<1>3. ASSUME NEW e \in Slots, exec[e].at # "idle", exec'[e].at # "idle", running' = running,
             \A f \in Slots : f # e => exec'[f] = exec[f]
      PROVE  BusySlots' = BusySlots /\ running' = running
  BY <1>3 DEF BusySlots, Busy
<1>4. ASSUME NEW e \in Slots, (\E r \in Results : Settle(e, r)) \/ Timeout(e)
      PROVE  BusySlots' = BusySlots /\ running' = running
  <2>1. exec[e].at # "idle" /\ running' = running
    BY <1>4 DEF Settle, Timeout
  <2>2. exec'[e].at # "idle" /\ \A f \in Slots : f # e => exec'[f] = exec[f]
    <3>1. ASSUME NEW r \in Results, Settle(e, r)
          PROVE  exec'[e].at # "idle" /\ \A f \in Slots : f # e => exec'[f] = exec[f]
      BY <1>0, <3>1, SettledFacts DEF Settle
    <3>2. CASE Timeout(e)
      BY <1>0, <3>2, SettledFacts DEF Timeout
    <3> QED BY <1>4, <3>1, <3>2
  <2> QED BY <1>3, <2>1, <2>2
<1>5. ASSUME NEW e \in Slots, exec[e].at # "idle", GoesTo(e, "hook")
      PROVE  BusySlots' = BusySlots /\ running' = running
  BY <1>0, <1>3, <1>5 DEF GoesTo
<1>6. ASSUME NEW e \in Slots, exec[e].at # "idle", Finish(e)
      PROVE  e \in BusySlots /\ BusySlots' = BusySlots \ {e} /\ running' = running - 1
  BY <1>0, <1>6 DEF Finish, NoExec, BusySlots, Busy
<1>7. ASSUME NEW j \in JobIds, Abort(j), UNCHANGED <<aborts, running>>
      PROVE  BusySlots' = BusySlots /\ running' = running
  <2>1. \A e \in Slots : exec'[e].at = exec[e].at
    BY <1>0, <1>7, SettledFacts DEF Abort
  <2> QED BY <1>7, <2>1 DEF BusySlots, Busy
<1>8. CASE Crash
  BY <1>8 DEF Crash, NoExec, BusySlots, Busy
<1>9. ASSUME NEW e \in Slots, StoreResult(e) \/ RunHook(e)
      PROVE  (GoesTo(e, "hook") \/ Finish(e)) /\ exec[e].at # "idle"
  BY <1>9 DEF StoreResult, RunHook
<1> QED BY ExecSteps, <1>1, <1>2, <1>4, <1>5, <1>6, <1>7, <1>8, <1>9 DEF ExecStep

CountKept == IsFiniteSet(BusySlots) /\ running = Cardinality(BusySlots)

\* No execution, and the counter at zero.
LEMMA CountInit == Init => CountKept
<1>1. Init => BusySlots = {}
  BY DEF Init, NoExec, BusySlots, Busy
<1> QED BY <1>1, FS_EmptySet DEF Init, CountKept

\* The running counter goes up and down with the occupied slots.
LEMMA CountStep == Shaped /\ CountKept /\ [Next]_vars => CountKept'
<1> SUFFICES ASSUME Shaped, CountKept, [Next]_vars PROVE CountKept'
  OBVIOUS
<1>1. CASE UNCHANGED vars
  BY <1>1 DEF vars, CountKept, BusySlots, Busy
<1>2. CASE Next
  <2>1. ASSUME NEW e \in Slots \ BusySlots, BusySlots' = BusySlots \cup {e}, running' = running + 1
        PROVE  CountKept'
    BY <2>1, FS_AddElement DEF CountKept
  <2>2. ASSUME NEW e \in BusySlots, BusySlots' = BusySlots \ {e}, running' = running - 1
        PROVE  CountKept'
    BY <2>2, FS_RemoveElement DEF CountKept
  <2> QED BY <1>2, <2>1, <2>2, BusyMoves, FS_EmptySet DEF CountKept
<1> QED BY <1>1, <1>2

\* The starts of one row, and none are lost before it exists.
RowAccounted(d, n) ==
    LET spare == d.attempts - d.retry - n IN
    /\ d.status \in {"pending", "interrupted"} => spare = 0
    /\ d.status \in {"running", "completed", "failed"} => spare = 1
    /\ d.status = "cancelled" => spare \in {0, 1}

Accounts ==
    \A j \in JobIds :
        /\ ~Exists(j) => lost[j] = 0
        /\ Exists(j) => RowAccounted(db[j], lost[j])
        /\ Exists(j) /\ IsChat(j) => db[j].retry = 0

\* A start of a row is on record as a retry or as lost to a crash, whatever
\* moves the row; a chat turn is never retried.
LEMMA MoveAccounted ==
    ASSUME Shaped, Accounts, NEW j \in JobIds, NEW doc, RowMove(j, doc)
    PROVE  /\ RowAccounted(doc, lost'[j])
           /\ doc.info.type = ChatTurn => doc.retry = 0
<1> DEFINE Good == /\ RowAccounted(doc, lost'[j])
                   /\ doc.info.type = ChatTurn => doc.retry = 0
           d == db[j]
<1>0. /\ lost \in [JobIds -> Nat] /\ boot \in Boots
      /\ Exists(j) => d \in Docs /\ d.attempts \in Nat /\ d.retry \in Nat /\ d.status \in Statuses
  BY DEF Shaped, TypeOK, Exists, Docs
<1>1. /\ ~Exists(j) => lost[j] = 0
      /\ Exists(j) => RowAccounted(d, lost[j])
      /\ Exists(j) /\ d.info.type = ChatTurn => d.retry = 0
  BY DEF Accounts, IsChat
<1>2. CASE ~Exists(j)
  BY <1>0, <1>1, <1>2, NewDocFacts DEF RowMove, RowAccounted
<1>3. CASE Exists(j) /\ lost' = lost /\ Claimable(d) /\ doc = Claimed(d, boot)
  <2>1. /\ doc.status = "running" /\ doc.info = d.info
        /\ doc.attempts = d.attempts + 1 /\ doc.retry = d.retry
    BY <1>0, <1>3, ClaimedFacts
  <2>2. d.status \in {"pending", "interrupted"} /\ lost'[j] = lost[j] /\ lost[j] \in Nat
    BY <1>0, <1>3 DEF Claimable
  <2>3. d.attempts - d.retry - lost[j] = 0
    BY <1>1, <1>3, <2>2 DEF RowAccounted
  <2>4. doc.attempts - doc.retry - lost'[j] = 1
    BY <1>0, <1>3, <2>1, <2>2, <2>3
  <2>5. RowAccounted(doc, lost'[j])
    BY <2>1, <2>4 DEF RowAccounted
  <2> QED BY <1>1, <1>3, <2>1, <2>5
<1>4. CASE Exists(j) /\ lost' = lost /\ Owned(d, boot) /\ doc \in {Completed(d), Failed(d)}
  BY <1>0, <1>1, <1>4, ReleasedFacts DEF RowAccounted, Owned, Completed, Failed, Statuses
<1>5. CASE Exists(j) /\ lost' = lost /\ Owned(d, boot) /\ ~IsChat(j) /\ doc = FailedOrRetried(d)
  <2>1. /\ doc.info = d.info /\ doc.attempts = d.attempts
        /\ \/ doc.status = "failed" /\ doc.retry = d.retry
           \/ doc.status = "pending" /\ doc.retry = d.retry + 1
    BY <1>0, <1>5, RetriedFacts DEF Owned
  <2>2. d.status = "running" /\ lost'[j] = lost[j] /\ lost[j] \in Nat /\ d.info.type # ChatTurn
    BY <1>0, <1>5 DEF Owned, IsChat
  <2>3. d.attempts - d.retry - lost[j] = 1
    BY <1>1, <1>5, <2>2 DEF RowAccounted
  <2>4. \/ doc.status = "failed" /\ doc.attempts - doc.retry - lost'[j] = 1
        \/ doc.status = "pending" /\ doc.attempts - doc.retry - lost'[j] = 0
    BY <1>0, <1>5, <2>1, <2>2, <2>3
  <2>5. RowAccounted(doc, lost'[j])
    BY <2>4 DEF RowAccounted
  <2> QED BY <2>1, <2>2, <2>5
<1>6. CASE Exists(j) /\ lost' = lost /\ Cancellable(d) /\ doc = Cancelled(d)
  BY <1>0, <1>1, <1>6, ReleasedFacts DEF RowAccounted, Cancellable, Cancelled, Statuses
<1>7. CASE Exists(j) /\ lost' = lost /\ doc \in {Renewed(d), [d EXCEPT !.lease = "expired"]}
  <2>1. /\ doc.status = d.status /\ doc.info = d.info
        /\ doc.attempts = d.attempts /\ doc.retry = d.retry
    <3>1. CASE doc = Renewed(d)
      BY <1>0, <1>7, <3>1, RenewedFacts DEF Renewed
    <3>2. CASE doc = [d EXCEPT !.lease = "expired"]
      BY <1>0, <1>7, <3>2, RenewedFacts
    <3> QED BY <1>7, <3>1, <3>2
  <2> QED BY <1>0, <1>1, <1>7, <2>1 DEF RowAccounted
<1>8. CASE Exists(j) /\ lost' = lost /\ doc = [d EXCEPT !.due = TRUE]
  BY <1>0, <1>1, <1>8, DueFacts DEF RowAccounted
<1>9. CASE Exists(j) /\ lost' = [lost EXCEPT ![j] = @ + 1]
           /\ (\E force \in BOOLEAN : Reclaimable(d, force)) /\ doc = Reclaimed(d)
  <2>1. /\ doc.status \in {"pending", "interrupted"} /\ doc.info = d.info
        /\ doc.attempts = d.attempts /\ doc.retry = d.retry
    BY <1>0, <1>9, ReclaimedFacts
  <2>2. lost'[j] = lost[j] + 1 /\ lost[j] \in Nat
    BY <1>0, <1>9
  <2>3. d.attempts - d.retry - lost[j] = 1
    BY <1>1, <1>9 DEF RowAccounted, Reclaimable
  <2> QED BY <1>0, <1>1, <1>9, <2>1, <2>2, <2>3 DEF RowAccounted
<1> QED BY <1>2, <1>3, <1>4, <1>5, <1>6, <1>7, <1>8, <1>9 DEF RowMove

\* Every step keeps the starts of every row accounted for.
LEMMA AccountsStep == Shaped /\ Accounts /\ [Next]_vars => Accounts'
<1> SUFFICES ASSUME Shaped, Accounts, [Next]_vars PROVE Accounts'
  OBVIOUS
<1>1. CASE UNCHANGED <<db, lost>>
  BY <1>1 DEF Accounts, Exists, IsChat
<1>2. ASSUME NEW j \in JobIds, NEW doc \in Docs, db' = [db EXCEPT ![j] = doc], RowMove(j, doc)
      PROVE  Accounts'
  <2>1. db \in [JobIds -> Docs \cup {NoJob}] /\ lost \in [JobIds -> Nat]
    BY DEF Shaped, TypeOK
  <2>2. \A i \in JobIds : i # j => db'[i] = db[i] /\ lost'[i] = lost[i]
    BY <1>2, <2>1 DEF RowMove
  <2>3. db'[j] = doc
    BY <1>2, <2>1
  <2> QED BY <1>2, <2>2, <2>3, MoveAccounted DEF Accounts, Exists, IsChat
<1> QED BY <1>1, <1>2, Rows DEF StoreStep, vars

\* So they are in every execution.
LEMMA AccountsAlways == Spec => []Accounts
<1>1. Init => Accounts
  BY DEF Init, Accounts, Exists
<1> QED BY <1>1, AccountsStep, ShapedAlways, PTL DEF Spec

\* The count in memory and the counters in the rows agree with what runs and
\* ran, for any number of jobs, slots, dispatchers and crashes, with stores that
\* give up and leases that lapse under a live executor.
THEOREM Counters == Spec => []CountersExact
<1>1. Spec => []CountKept
  BY CountInit, CountStep, ShapedAlways, PTL DEF Spec
<1>2. Shaped /\ CountKept /\ Accounts => CountersExact
  BY DEF Shaped, CountKept, BusySlots, Accounts, RowAccounted, CountersExact, RunningCountExact, StartsAccounted
<1> QED BY <1>1, <1>2, AccountsAlways, ShapedAlways, PTL

\* A chat turn starts again only because its process or its lease was lost.
THEOREM ChatTurnsOnce == Spec => []ChatRetriedOnlyByCrash
<1>1. Shaped /\ Accounts => ChatRetriedOnlyByCrash
  <2> SUFFICES ASSUME Shaped, Accounts, NEW j \in JobIds, Is(j, "pending"), IsChat(j)
               PROVE  db[j].attempts = lost[j]
    BY DEF ChatRetriedOnlyByCrash
  <2>1. db[j].attempts \in Nat /\ lost[j] \in Nat
    BY DEF Shaped, TypeOK, Is, Exists, Docs
  <2>2. db[j].retry = 0 /\ db[j].attempts - db[j].retry - lost[j] = 0
    BY DEF Accounts, Is, RowAccounted
  <2> QED BY <2>1, <2>2
<1> QED BY <1>1, AccountsAlways, ShapedAlways, PTL
-----------------------------------------------------------------------------
(* who holds a job *)

Launching(d) == disp[d].at = "launch"

\* The calls that hold a job stay the same.
SameHands ==
    /\ \A e \in Slots : (Busy(e)' <=> Busy(e)) /\ (Busy(e) => exec'[e].job = exec[e].job)
    /\ \A d \in Dispatchers : /\ Launching(d)' <=> Launching(d)
                              /\ Launching(d) => disp'[d].job = disp[d].job
    /\ aborts' = aborts
    /\ boot' = boot

NoHands ==
    /\ \A e \in Slots : ~Busy(e)
    /\ \A d \in Dispatchers : ~Launching(d)

\* A dispatch gets hold of a job.
Takes(d) ==
    /\ disp[d].at = "claim"
    /\ Claimable(db[disp[d].job])
    /\ db' = [db EXCEPT ![disp[d].job] = Claimed(db[disp[d].job], boot)]
    /\ disp' = [disp EXCEPT ![d].at = "launch"]
    /\ UNCHANGED <<exec, aborts, boot>>

HandStep ==
    \/ SameHands
    \/ NoHands'
    \/ \E d \in Dispatchers : Takes(d)
    \/ \E d \in Dispatchers, e \in Slots : Launch(d, e)
    \/ \E e \in Slots : Busy(e) /\ Finish(e) /\ UNCHANGED <<disp, boot>>

\* A job passes from a dispatch that claimed it to the executeJob call it starts,
\* and leaves it through the finally block.
LEMMA HandSteps ==
    ASSUME Shaped, Next
    PROVE  HandStep
<1>0. exec \in [Slots -> ExecRec] /\ disp \in [Dispatchers -> DispRec]
  BY DEF Shaped, TypeOK
<1>1. CASE UNCHANGED <<exec, disp, aborts, boot>>
  BY <1>1 DEF HandStep, SameHands, Busy, Launching
<1>2. ASSUME NEW d \in Dispatchers, UNCHANGED <<exec, aborts, boot>>,
             disp[d].at # "launch", disp'[d].at # "launch",
             \A x \in Dispatchers : x # d => disp'[x] = disp[x]
      PROVE  HandStep
  BY <1>2 DEF HandStep, SameHands, Busy, Launching
<1>3. ASSUME NEW d \in Dispatchers, NEW l \in Lanes, FireTimer(d, l)
      PROVE  HandStep
  <2>1. disp[d].at # "launch" /\ disp'[d].at # "launch"
    BY <1>0, <1>3 DEF FireTimer
  <2> QED BY <1>0, <1>2, <1>3, <2>1 DEF FireTimer
<1>4. ASSUME NEW d \in Dispatchers, FindJob(d)
      PROVE  HandStep
  <2>0. \/ \E j \in JobIds : disp' = [disp EXCEPT ![d].at = "claim", ![d].job = j]
        \/ disp' = [disp EXCEPT ![d] = NoDisp]
    BY <1>4 DEF FindJob
  <2>1. disp[d].at # "launch" /\ disp'[d].at # "launch"
    <3>1. disp[d].at # "launch"
      BY <1>4 DEF FindJob
    <3>2. disp'[d].at # "launch"
      BY <1>0, <2>0 DEF NoDisp, DispRec
    <3> QED BY <3>1, <3>2
  <2>2. \A x \in Dispatchers : x # d => disp'[x] = disp[x]
    BY <1>0, <2>0
  <2> QED BY <1>2, <1>4, <2>1, <2>2 DEF FindJob
<1>5. ASSUME NEW d \in Dispatchers, ClaimJob(d)
      PROVE  HandStep
  <2>1. CASE disp' = [disp EXCEPT ![d].at = "find"]
    <3>1. disp[d].at # "launch" /\ disp'[d].at # "launch"
      BY <1>0, <1>5, <2>1 DEF ClaimJob
    <3> QED BY <1>0, <1>2, <1>5, <2>1, <3>1 DEF ClaimJob
  <2>2. CASE /\ Claimable(db[disp[d].job])
             /\ Write(disp[d].job, Claimed(db[disp[d].job], boot))
             /\ disp' = [disp EXCEPT ![d].at = "launch"]
    <3>1. Takes(d)
      BY <1>5, <2>2 DEF ClaimJob, Takes, Write
    <3> QED BY <3>1 DEF HandStep
  <2> QED BY <1>5, <2>1, <2>2 DEF ClaimJob
<1>6. CASE Dispatch
  BY <1>3, <1>4, <1>5, <1>6 DEF Dispatch, HandStep
<1>7. ASSUME UNCHANGED <<disp, aborts, boot>>,
             \A e \in Slots : exec'[e].job = exec[e].job /\ (exec'[e].at = "idle" <=> exec[e].at = "idle")
      PROVE  HandStep
  BY <1>7 DEF HandStep, SameHands, Busy, Launching
<1>8. ASSUME NEW e \in Slots, Busy(e), Finish(e), UNCHANGED <<disp, boot>>
      PROVE  HandStep
  BY <1>8 DEF HandStep
<1>9. ASSUME NEW e \in Slots, Busy(e), GoesTo(e, "hook"), UNCHANGED <<disp, boot>>
      PROVE  HandStep
  <2>1. exec'[e].job = exec[e].job /\ exec[e].at # "idle" /\ exec'[e].at # "idle"
    BY <1>0, <1>9, SettledFacts DEF GoesTo, Busy
  <2>2. \A f \in Slots : f # e => exec'[f] = exec[f]
    BY <1>0, <1>9 DEF GoesTo
  <2> QED BY <1>7, <1>9, <2>1, <2>2 DEF GoesTo
<1>10. ASSUME NEW e \in Slots, NEW r \in Results, Settle(e, r)
      PROVE  HandStep
  <2>1. exec'[e].job = exec[e].job /\ exec[e].at # "idle" /\ exec'[e].at # "idle"
    <3>1. exec'[e] = [exec[e] EXCEPT !.at = "store", !.result = r]
      BY <1>0, <1>10 DEF Settle
    <3>2. exec[e] \in ExecRec /\ exec[e].at = "run"
      BY <1>0, <1>10 DEF Settle
    <3>3. /\ [exec[e] EXCEPT !.at = "store", !.result = r].at = "store"
          /\ [exec[e] EXCEPT !.at = "store", !.result = r].job = exec[e].job
      BY <3>2 DEF ExecRec
    <3> QED BY <3>1, <3>2, <3>3
  <2>2. \A f \in Slots : f # e => exec'[f] = exec[f]
    BY <1>0, <1>10 DEF Settle
  <2> QED BY <1>7, <1>10, <2>1, <2>2 DEF Settle
<1>11. ASSUME NEW e \in Slots, Timeout(e)
      PROVE  HandStep
  <2>1. exec'[e].job = exec[e].job /\ exec[e].at # "idle" /\ exec'[e].at # "idle"
    BY <1>0, <1>11, SettledFacts DEF Timeout
  <2>2. \A f \in Slots : f # e => exec'[f] = exec[f]
    BY <1>0, <1>11 DEF Timeout
  <2> QED BY <1>7, <1>11, <2>1, <2>2 DEF Timeout
<1>12. CASE Execute
  <2>1. ASSUME NEW e \in Slots, StoreResult(e) \/ RunHook(e)
        PROVE  Busy(e) /\ (Finish(e) \/ GoesTo(e, "hook")) /\ UNCHANGED <<disp, boot>>
    BY <2>1 DEF StoreResult, RunHook, Busy
  <2> QED BY <1>1, <1>8, <1>9, <1>10, <1>11, <1>12, <2>1 DEF Execute, RenewLease, queueVars
<1>13. ASSUME NEW j \in JobIds, Abort(j), UNCHANGED <<disp, aborts, boot>>
       PROVE  HandStep
  BY <1>0, <1>7, <1>13, SettledFacts DEF Abort
<1>14. CASE Enqueue
  BY <1>1, <1>14 DEF Enqueue, EnqueueLookup, EnqueueCreate
<1>15. CASE Maintain
  BY <1>1, <1>15 DEF Maintain, LeaseLapse, BecomeDue, SweepLease, InterruptedHook, Tick, queueVars
<1>16. CASE CancelJobs
  BY <1>1, <1>13, <1>16 DEF CancelJobs, CancelOne, CancelLane, CancelLaneRunning, CancelLaneScan, CancelLanePending,
              CancelLaneReturn, CancelOnePut, CancelLaneRunningPut, CancelLanePendingPut, CancelPut,
              CancelCall
<1>17. CASE Crash
  BY <1>17 DEF Crash, HandStep, NoHands, Busy, Launching, NoExec, NoDisp
<1>18. CASE Live
  BY <1>1, <1>17, <1>18 DEF Live, ReconcileJob, Start, Stop, queueVars
<1> QED BY <1>6, <1>12, <1>14, <1>15, <1>16, <1>18 DEF Next

\* Who may rewrite a row that exists.
LEMMA RowFates ==
    ASSUME Shaped, Next, NEW j \in JobIds, Exists(j), db'[j] # db[j]
    PROVE  \/ Cancellable(db[j]) /\ db'[j] = Cancelled(db[j]) /\ cancel.at # "idle"
           \/ \E d \in Dispatchers : disp[d].job = j /\ Takes(d)
           \/ \E e \in Slots : exec[e].job = j /\ StoreResult(e)
           \/ db'[j] = Renewed(db[j])
           \/ LeaseLapse(j) \/ BecomeDue(j) \/ SweepLease(j) \/ ReconcileJob(j)
<1> DEFINE Fate == \/ Cancellable(db[j]) /\ db'[j] = Cancelled(db[j]) /\ cancel.at # "idle"
                   \/ \E d \in Dispatchers : disp[d].job = j /\ Takes(d)
                   \/ \E e \in Slots : exec[e].job = j /\ StoreResult(e)
                   \/ db'[j] = Renewed(db[j])
                   \/ LeaseLapse(j) \/ BecomeDue(j) \/ SweepLease(j) \/ ReconcileJob(j)
<1> SUFFICES Fate
  OBVIOUS
<1>0. db \in [JobIds -> Docs \cup {NoJob}]
  BY DEF Shaped, TypeOK
<1>1. ASSUME NEW i, NEW doc, db' = [db EXCEPT ![i] = doc]
      PROVE  i = j /\ db'[j] = doc
  BY <1>0, <1>1
<1>2. ASSUME NEW c \in Clients, NEW due \in BOOLEAN, EnqueueCreate(c, due)
      PROVE  FALSE
  BY <1>1, <1>2 DEF EnqueueCreate, Write
<1>3. ASSUME NEW d \in Dispatchers, ClaimJob(d)
      PROVE  Fate
  <2>1. Takes(d)
    BY <1>3 DEF ClaimJob, Takes, Write
  <2>2. disp[d].job = j
    BY <1>1, <2>1 DEF Takes
  <2> QED BY <2>1, <2>2
<1>4. ASSUME NEW e \in Slots, StoreResult(e)
      PROVE  Fate
  <2>1. exec[e].job = j
    BY <1>0, <1>4 DEF StoreResult
  <2> QED BY <1>4, <2>1
<1>5. ASSUME NEW e \in Slots, RenewLease(e)
      PROVE  Fate
  BY <1>1, <1>5 DEF RenewLease, Write
<1>6. ASSUME NEW i \in JobIds, LeaseLapse(i) \/ BecomeDue(i) \/ SweepLease(i) \/ ReconcileJob(i)
      PROVE  Fate
  <2>1. i = j
    <3>1. \E doc : db' = [db EXCEPT ![i] = doc]
      BY <1>6 DEF LeaseLapse, BecomeDue, SweepLease, ReconcileJob, TakeBack, Write
    <3> QED BY <1>1, <3>1
  <2> QED BY <1>6, <2>1
<1>7. ASSUME NEW then, CancelPut(then), cancel.at # "idle"
      PROVE  Fate
  <2>1. /\ Cancellable(db[cancel.job])
        /\ db' = [db EXCEPT ![cancel.job] = Cancelled(db[cancel.job])]
    BY <1>7 DEF CancelPut, Write
  <2>2. cancel.job = j
    BY <1>1, <2>1
  <2> QED BY <1>1, <1>7, <2>1, <2>2
<1>8. CASE Enqueue
  BY <1>2, <1>8 DEF Enqueue, EnqueueLookup
<1>9. CASE Dispatch
  BY <1>3, <1>9 DEF Dispatch, FireTimer, FindJob, Launch
<1>10. CASE Execute
  BY <1>4, <1>5, <1>10 DEF Execute, Settle, Timeout, RunHook
<1>11. CASE Maintain
  BY <1>6, <1>11 DEF Maintain, InterruptedHook, Tick
<1>12. CASE CancelJobs
  BY <1>7, <1>12 DEF CancelJobs, CancelOne, CancelLane, CancelLaneRunning, CancelLaneScan, CancelLanePending,
              CancelLaneReturn, CancelOnePut, CancelLaneRunningPut, CancelLanePendingPut
<1>13. CASE Live
  BY <1>6, <1>13 DEF Live, Crash, Start, Stop
<1> QED BY <1>8, <1>9, <1>10, <1>11, <1>12, <1>13 DEF Next
-----------------------------------------------------------------------------
(* one hand at a time *)

\* A row in somebody's hands is not offered again, and while it runs it runs for
\* this process under a live lease.
Safe(j) ==
    /\ ~Is(j, "pending")
    /\ Is(j, "running") => db[j].boot = boot /\ db[j].lease = "live"

HandsSafe == \A j \in JobIds : InHand(j) => Safe(j)

\* A job is in one hand at most.
HandsApart ==
    /\ ExclusiveExecution
    /\ \A c, d \in Dispatchers : Launching(c) /\ Launching(d) /\ disp[c].job = disp[d].job => c = d
    /\ \A d \in Dispatchers, e \in Slots : ~(Launching(d) /\ Busy(e) /\ disp[d].job = exec[e].job)

HandsKept == HandsSafe /\ HandsApart /\ CancelReachesExecution

\* What is in somebody's hands has a row.
LEMMA HeldExists ==
    ASSUME Shaped, NEW j \in JobIds, InHand(j)
    PROVE  Exists(j) /\ db[j] \in Docs
BY DEF Shaped, TypeOK, Named, InHand, Exists

\* An execution whose result is stored and whose hook follows leaves a row
\* behind that is settled or that it could not write.
LEMMA HookRow ==
    ASSUME Shaped, NEW e \in Slots, StoreResult(e), GoesTo(e, "hook")
    PROVE  LET j == exec[e].job IN
           db'[j] = db[j] \/ (db'[j] \in Docs /\ db'[j].status \in {"completed", "failed"})
<1> DEFINE j == exec[e].job
           d == db[j]
<1>1. j \in JobIds /\ d \in Docs /\ exec \in [Slots -> ExecRec] /\ db \in [JobIds -> Docs \cup {NoJob}]
  BY DEF StoreResult, Shaped, TypeOK, Named, Busy, Exists
<1>2. PICK writes \in BOOLEAN :
         /\ writes => ResultWrites(e, d)
         /\ db' = [db EXCEPT ![j] = IF writes THEN ResultDoc(e, @) ELSE @]
         /\ IF HookFollows(e, db'[j], writes) THEN GoesTo(e, "hook") ELSE Finish(e)
  BY DEF StoreResult
<1>3. HookFollows(e, db'[j], writes)
  <2>1. exec'[e].at = "hook"
    BY <1>1, SettledFacts DEF GoesTo
  <2>2. ~Finish(e)
    BY <1>1, <2>1 DEF Finish, NoExec
  <2> QED BY <1>2, <2>2
<1>4. CASE ~writes
  BY <1>1, <1>2, <1>4
<1>5. CASE writes
  <2>1. db'[j] = ResultDoc(e, d)
    BY <1>1, <1>2, <1>5
  <2>2. exec[e].result # "abortError"
    BY <1>3 DEF HookFollows, Retries
  <2>3. CASE exec[e].result = "ok"
    <3>1. ResultDoc(e, d) = Completed(d)
      BY <2>3 DEF ResultDoc, Retries
    <3> QED BY <1>1, <2>1, <3>1, ReleasedFacts DEF Completed, Statuses
  <2>4. CASE exec[e].result # "ok" /\ Retries(e)
    <3>1. ResultDoc(e, d) = FailedOrRetried(d)
      BY <2>4 DEF ResultDoc, Retries
    <3>2. db'[j].status = "failed"
      BY <1>3, <2>4 DEF HookFollows, Retries
    <3>3. Owned(d, boot)
      BY <1>2, <1>5, <2>2 DEF ResultWrites
    <3> QED BY <1>1, <2>1, <3>1, <3>2, <3>3, RetriedFacts DEF Owned
  <2>5. CASE exec[e].result # "ok" /\ ~Retries(e)
    <3>1. ResultDoc(e, d) = Failed(d)
      BY <2>2, <2>5 DEF ResultDoc
    <3> QED BY <1>1, <2>1, <3>1, ReleasedFacts DEF Failed, Statuses
  <2> QED BY <2>3, <2>4, <2>5
<1> QED BY <1>4, <1>5

\* A job that stays in hand is not put back to pending, and while it runs this
\* boot owns it.
LEMMA SafeStays ==
    ASSUME ~ClockMayJump, Shaped, HandsKept, Next, boot' = boot,
           NEW j \in JobIds, InHand(j), InHand(j)'
    PROVE  Safe(j)'
<1>1. Safe(j) /\ Exists(j) /\ db[j] \in Docs
  BY HeldExists DEF HandsKept, HandsSafe
<1>2. CASE db'[j] = db[j]
  BY <1>1, <1>2 DEF Safe, Is, Exists
<1>3. CASE db'[j] = Cancelled(db[j])
  <2>1. db'[j] \in Docs /\ db'[j].status = "cancelled"
    BY <1>1, <1>3, ReleasedFacts DEF Cancelled, Statuses
  <2> QED BY <2>1 DEF Safe, Is
<1>4. CASE db'[j] = Renewed(db[j])
  <2>1. db'[j] \in Docs /\ db'[j].status = db[j].status /\ db'[j].boot = db[j].boot /\ db'[j].lease = "live"
    BY <1>1, <1>4 DEF Renewed, Docs
  <2> QED BY <1>1, <2>1 DEF Safe, Is, Exists
<1>5. ASSUME NEW d \in Dispatchers, disp[d].job = j, Takes(d)
      PROVE  FALSE
  BY <1>1, <1>5 DEF Takes, Claimable, Safe, Is
<1>6. ASSUME NEW e \in Slots, exec[e].job = j, StoreResult(e)
      PROVE  Safe(j)'
  <2>1. CASE GoesTo(e, "hook")
    <3>1. db'[j] = db[j] \/ (db'[j] \in Docs /\ db'[j].status \in {"completed", "failed"})
      BY <1>6, <2>1, HookRow
    <3>2. CASE db'[j] \in Docs /\ db'[j].status \in {"completed", "failed"}
      BY <3>2 DEF Safe, Is
    <3> QED BY <1>2, <3>1, <3>2
  <2>2. CASE Finish(e)
    <3>1. exec \in [Slots -> ExecRec] /\ Busy(e) /\ disp' = disp
      BY <1>6 DEF Shaped, TypeOK, StoreResult, Busy
    <3>2. ~Busy(e)' /\ \A f \in Slots : f # e => exec'[f] = exec[f]
      BY <2>2, <3>1 DEF Finish, NoExec, Busy
    <3>3. \A f \in Slots : ~(Busy(f)' /\ exec'[f].job = j)
      BY <1>6, <3>1, <3>2 DEF HandsKept, HandsApart, ExclusiveExecution, Busy
    <3>4. \A d \in Dispatchers : ~(disp'[d].at = "launch" /\ disp'[d].job = j)
      BY <1>6, <3>1 DEF HandsKept, HandsApart, Launching
    <3> QED BY <3>3, <3>4 DEF InHand
  <2> QED BY <1>6, <2>1, <2>2 DEF StoreResult
<1>7. ~(LeaseLapse(j) \/ BecomeDue(j))
  BY <1>1 DEF LeaseLapse, BecomeDue, Safe
<1>8. ~(SweepLease(j) \/ ReconcileJob(j))
  BY <1>1 DEF SweepLease, ReconcileJob, TakeBack, Reclaimable, Orphaned, Safe, Is
<1> QED BY <1>1, <1>2, <1>3, <1>4, <1>5, <1>6, <1>7, <1>8, RowFates

\* At first nothing is in hand.
LEMMA HandsInit == Init => HandsKept
BY DEF Init, HandsKept, HandsSafe, HandsApart, ExclusiveExecution, CancelReachesExecution, InHand, Busy, Launching,
   NoExec, NoDisp

\* No two hands hold one job, and each holds what it owns, after every step of
\* a queue whose clock keeps time.
LEMMA HandsStep == ~ClockMayJump /\ Shaped /\ HandsKept /\ [Next]_vars => HandsKept'
<1> SUFFICES ASSUME ~ClockMayJump, Shaped, HandsKept, [Next]_vars PROVE HandsKept'
  OBVIOUS
<1>0. /\ exec \in [Slots -> ExecRec] /\ disp \in [Dispatchers -> DispRec]
      /\ aborts \in [JobIds -> Slots \cup {0}] /\ db \in [JobIds -> Docs \cup {NoJob}] /\ boot \in Boots
      /\ \A e \in Slots : Busy(e) => exec[e].job \in JobIds
      /\ \A d \in Dispatchers : disp[d].at \in {"claim", "launch"} =>
            disp[d].job \in JobIds /\ Exists(disp[d].job) /\ db[disp[d].job] \in Docs
  BY DEF Shaped, TypeOK, Named, Exists
<1>h. /\ HandsSafe
      /\ \A e, f \in Slots : Busy(e) /\ Busy(f) /\ exec[e].job = exec[f].job => e = f
      /\ \A c, d \in Dispatchers : Launching(c) /\ Launching(d) /\ disp[c].job = disp[d].job => c = d
      /\ \A d \in Dispatchers, e \in Slots : ~(Launching(d) /\ Busy(e) /\ disp[d].job = exec[e].job)
      /\ \A e \in Slots : Busy(e) => aborts[exec[e].job] = e
  BY DEF HandsKept, HandsApart, ExclusiveExecution, CancelReachesExecution
<1>1. CASE UNCHANGED vars
  BY <1>1 DEF vars, HandsKept, HandsSafe, HandsApart, ExclusiveExecution, CancelReachesExecution, InHand, Safe,
     Is, Exists, Busy, Launching
<1>2. CASE Next /\ SameHands
  <2>1. HandsSafe'
    <3> SUFFICES ASSUME NEW j \in JobIds, InHand(j)' PROVE Safe(j)'
      BY DEF HandsSafe
    <3>1. InHand(j) /\ boot' = boot
      BY <1>2 DEF SameHands, InHand, Launching, Busy
    <3> QED BY <1>2, <3>1, SafeStays
  <2>2. HandsApart'
    <3>1. ExclusiveExecution'
      BY <1>h, <1>2 DEF SameHands, ExclusiveExecution
    <3>2. \A c, d \in Dispatchers : Launching(c)' /\ Launching(d)' /\ disp'[c].job = disp'[d].job => c = d
      BY <1>h, <1>2 DEF SameHands
    <3>3. \A d \in Dispatchers, e \in Slots : ~(Launching(d)' /\ Busy(e)' /\ disp'[d].job = exec'[e].job)
      BY <1>h, <1>2 DEF SameHands
    <3> QED BY <3>1, <3>2, <3>3 DEF HandsApart
  <2>3. CancelReachesExecution'
    BY <1>h, <1>2 DEF SameHands, CancelReachesExecution, Busy
  <2> QED BY <2>1, <2>2, <2>3 DEF HandsKept
<1>3. CASE NoHands'
  BY <1>3 DEF NoHands, HandsKept, HandsSafe, HandsApart, ExclusiveExecution, CancelReachesExecution, InHand,
     Busy, Launching
<1>4. ASSUME NEW d \in Dispatchers, Takes(d)
      PROVE  HandsKept'
  <2>0. PICK j \in JobIds : j = disp[d].job
    BY <1>0, <1>4 DEF Takes
  <2>1. db[j] \in Docs /\ Is(j, "pending") /\ ~InHand(j)
    BY <1>0, <1>h, <1>4, <2>0 DEF Takes, Claimable, HandsSafe, Safe, Is
  <2>2. /\ \A c \in Dispatchers : c # d => disp'[c] = disp[c]
        /\ disp'[d].at = "launch" /\ disp'[d].job = j
    BY <1>0, <1>4, <2>0 DEF Takes, DispRec
  <2>3. Safe(j)'
    <3>1. db'[j] = Claimed(db[j], boot) /\ boot' = boot
      BY <1>0, <1>4, <2>0, <2>1 DEF Takes
    <3>2. db'[j] \in Docs /\ db'[j].status = "running" /\ db'[j].boot = boot /\ db'[j].lease = "live"
      BY <1>0, <2>1, <3>1, ClaimedFacts
    <3> QED BY <3>1, <3>2 DEF Safe, Is, Exists
  <2>4. HandsSafe'
    <3> SUFFICES ASSUME NEW i \in JobIds, i # j, InHand(i)' PROVE Safe(i)'
      BY <2>3 DEF HandsSafe
    <3>1. InHand(i)
      BY <1>4, <2>2 DEF InHand, Busy, Takes
    <3>2. db'[i] = db[i] /\ boot' = boot
      BY <1>0, <1>4, <2>0 DEF Takes
    <3> QED BY <1>h, <3>1, <3>2 DEF HandsSafe, Safe, Is, Exists
  <2>5. HandsApart'
    BY <1>h, <1>4, <2>1, <2>2 DEF Takes, HandsApart, ExclusiveExecution, Launching, Busy, InHand
  <2>6. CancelReachesExecution'
    BY <1>h, <1>4 DEF Takes, CancelReachesExecution, Busy
  <2> QED BY <2>4, <2>5, <2>6 DEF HandsKept
<1>5. ASSUME NEW d \in Dispatchers, NEW e \in Slots, Launch(d, e)
      PROVE  HandsKept'
  <2>0. PICK j \in JobIds : j = disp[d].job
    BY <1>0, <1>5 DEF Launch
  <2>1. Launching(d) /\ ~Busy(e) /\ UNCHANGED <<db, boot>>
    BY <1>0, <1>5 DEF Launch, Launching
  <2>2. /\ Busy(e)' /\ exec'[e].job = j /\ ~Launching(d)'
        /\ \A f \in Slots : f # e => exec'[f] = exec[f]
        /\ \A c \in Dispatchers : c # d => disp'[c] = disp[c]
        /\ aborts'[j] = e /\ \A i \in JobIds : i # j => aborts'[i] = aborts[i]
    BY <1>0, <1>5, <2>0, <2>1 DEF Launch, Busy, Launching, NoDisp
  <2>3. HandsSafe'
    <3> SUFFICES ASSUME NEW i \in JobIds, InHand(i)' PROVE Safe(i)'
      BY DEF HandsSafe
    <3>1. InHand(i)
      BY <2>0, <2>1, <2>2 DEF InHand, Busy, Launching
    <3> QED BY <1>h, <2>1, <3>1 DEF HandsSafe, Safe, Is, Exists
  <2>4. HandsApart'
    <3>1. ExclusiveExecution'
      BY <1>h, <2>0, <2>1, <2>2 DEF ExclusiveExecution, Busy
    <3>2. \A c, x \in Dispatchers : Launching(c)' /\ Launching(x)' /\ disp'[c].job = disp'[x].job => c = x
      BY <1>h, <2>2 DEF Launching
    <3>3. \A c \in Dispatchers, f \in Slots : ~(Launching(c)' /\ Busy(f)' /\ disp'[c].job = exec'[f].job)
      BY <1>h, <2>0, <2>1, <2>2 DEF Launching, Busy
    <3> QED BY <3>1, <3>2, <3>3 DEF HandsApart
  <2>5. CancelReachesExecution'
    <3> SUFFICES ASSUME NEW f \in Slots, f # e, Busy(f)' PROVE aborts'[exec'[f].job] = f
      BY <2>2 DEF CancelReachesExecution
    <3>1. Busy(f) /\ exec'[f].job = exec[f].job
      BY <2>2 DEF Busy
    <3>2. exec[f].job \in JobIds /\ exec[f].job # j /\ aborts[exec[f].job] = f
      BY <1>0, <1>h, <2>0, <2>1, <3>1
    <3> QED BY <2>2, <3>1, <3>2
  <2> QED BY <2>3, <2>4, <2>5 DEF HandsKept
<1>6. ASSUME Next, NEW e \in Slots, Busy(e), Finish(e), UNCHANGED <<disp, boot>>
      PROVE  HandsKept'
  <2>1. /\ ~Busy(e)' /\ exec[e].job \in JobIds
        /\ \A f \in Slots : f # e => exec'[f] = exec[f]
        /\ \A i \in JobIds : i # exec[e].job => aborts'[i] = aborts[i]
    BY <1>0, <1>6 DEF Finish, NoExec, Busy
  <2>2. HandsSafe'
    <3> SUFFICES ASSUME NEW i \in JobIds, InHand(i)' PROVE Safe(i)'
      BY DEF HandsSafe
    <3>1. InHand(i)
      BY <1>6, <2>1 DEF InHand, Busy
    <3> QED BY <1>6, <3>1, SafeStays
  <2>3. HandsApart'
    BY <1>h, <1>6, <2>1 DEF HandsApart, ExclusiveExecution, Launching, Busy
  <2>4. CancelReachesExecution'
    <3> SUFFICES ASSUME NEW f \in Slots, f # e, Busy(f)' PROVE aborts'[exec'[f].job] = f
      BY <2>1 DEF CancelReachesExecution
    <3>1. Busy(f) /\ exec'[f].job = exec[f].job
      BY <2>1 DEF Busy
    <3> QED BY <1>0, <1>h, <1>6, <2>1, <3>1
  <2> QED BY <2>2, <2>3, <2>4 DEF HandsKept
<1>7. CASE Next
  BY <1>2, <1>3, <1>4, <1>5, <1>6, <1>7, HandSteps DEF HandStep
<1> QED BY <1>1, <1>7

\* So in every execution, unless the clock may jump over a lease.
LEMMA HandsAlways == ASSUME ~ClockMayJump PROVE Spec => []HandsKept
<1>1. Shaped /\ HandsKept /\ [Next]_vars => HandsKept'
  BY HandsStep
<1> QED BY <1>1, HandsInit, ShapedAlways, PTL DEF Spec

\* While leases do not lapse under a live executor, a job is executed by one
\* executor at a time, and again only when it should be.
THEOREM OneAtATime == ASSUME ~ClockMayJump PROVE Spec => []ExecutedInTurn
<1>1. HandsKept => ExclusiveExecution
  BY DEF HandsKept, HandsApart
<1> QED BY <1>1, HandsAlways, ChatTurnsOnce, PTL DEF ExecutedInTurn

\* Under the same condition cancel reaches every execution in flight.
THEOREM CancelReaches == ASSUME ~ClockMayJump PROVE Spec => []CancelReachesExecution
<1>1. HandsKept => CancelReachesExecution
  BY DEF HandsKept
<1> QED BY <1>1, HandsAlways, PTL
-----------------------------------------------------------------------------
(* nothing is stranded *)

\* Somebody will still store a result for the job.
Held(j) ==
    \/ \E e \in Slots : exec[e].at \in {"run", "store"} /\ exec[e].job = j
    \/ \E d \in Dispatchers : Launching(d) /\ disp[d].job = j

\* A running row belongs to this process or to an earlier one, and if to this
\* one, somebody will still store a result for it.
RunningHeld ==
    \A j \in JobIds : Is(j, "running") =>
        /\ db[j].boot \in Boots /\ db[j].boot <= boot
        /\ db[j].boot = boot => Held(j)

\* Only a claim makes a row run, and nothing changes its owner while it runs.
LEMMA RunningFrom ==
    ASSUME Shaped, Next, NEW j \in JobIds, Is(j, "running")'
    PROVE  \/ Is(j, "running") /\ db'[j].boot = db[j].boot
           \/ \E d \in Dispatchers : disp[d].job = j /\ Takes(d)
<1> DEFINE Still == Is(j, "running") /\ db'[j].boot = db[j].boot
<1>0. db \in [JobIds -> Docs \cup {NoJob}] /\ db'[j] # NoJob /\ db'[j].status = "running"
  BY DEF Shaped, TypeOK, Is, Exists
<1>1. ASSUME NEW i \in JobIds, NEW doc \in Docs, db' = [db EXCEPT ![i] = doc], RowMove(i, doc)
      PROVE  Still \/ \E d \in Dispatchers : disp[d].job = j /\ Takes(d)
  <2>1. CASE db'[j] = db[j]
    BY <1>0, <2>1 DEF Is, Exists
  <2>2. CASE ~Exists(j) /\ db'[j] # db[j]
    <3>1. i = j /\ db'[j] = doc
      BY <1>0, <1>1, <2>2
    <3>2. doc.status = "pending"
      BY <1>1, <2>2, <3>1, NewDocFacts DEF RowMove
    <3> QED BY <1>0, <3>1, <3>2
  <2>3. CASE Exists(j) /\ db'[j] # db[j]
    <3>1. db[j] \in Docs
      BY <1>0, <2>3 DEF Exists
    <3>2. CASE Exists(j) /\ db'[j] = Renewed(db[j])
      BY <1>0, <3>1, <3>2, RenewedFacts DEF Renewed, Is
    <3>3. CASE LeaseLapse(j)
      <4>1. db'[j] = [db[j] EXCEPT !.lease = "expired"]
        BY <1>0, <3>3 DEF LeaseLapse, Write
      <4> QED BY <3>1, <3>3, <4>1, RenewedFacts DEF LeaseLapse
    <3>4. ~BecomeDue(j)
      <4> SUFFICES ASSUME BecomeDue(j) PROVE FALSE
        OBVIOUS
      <4>1. db'[j] = [db[j] EXCEPT !.due = TRUE] /\ db[j].status = "pending"
        BY <1>0 DEF BecomeDue, Write, Is
      <4> QED BY <1>0, <3>1, <4>1, DueFacts
    <3>5. db'[j] # Cancelled(db[j]) /\ db'[j] # Reclaimed(db[j])
      BY <1>0, <3>1, ReleasedFacts, ReclaimedFacts DEF Cancelled, Statuses
    <3>6. ~(SweepLease(j) \/ ReconcileJob(j))
      BY <1>0, <3>5 DEF SweepLease, ReconcileJob, TakeBack, Write
    <3>7. ASSUME NEW e \in Slots, exec[e].job = j, StoreResult(e)
          PROVE  FALSE
      <4>1. /\ ResultWrites(e, db[j]) /\ db'[j] = ResultDoc(e, db[j])
        BY <1>0, <2>3, <3>7 DEF StoreResult
      <4>2. CASE exec[e].result = "ok"
        <5>1. ResultDoc(e, db[j]) = Completed(db[j])
          BY <4>2 DEF ResultDoc, Retries
        <5> QED BY <1>0, <3>1, <4>1, <5>1, ReleasedFacts DEF Completed, Statuses
      <4>3. CASE exec[e].result = "abortError"
        BY <3>5, <4>1, <4>3 DEF ResultDoc, Retries
      <4>4. CASE exec[e].result \notin {"ok", "abortError"} /\ Retries(e)
        <5>1. ResultDoc(e, db[j]) = FailedOrRetried(db[j]) /\ Owned(db[j], boot)
          BY <4>1, <4>4 DEF ResultDoc, ResultWrites
        <5> QED BY <1>0, <3>1, <4>1, <5>1, RetriedFacts DEF Owned
      <4>5. CASE exec[e].result \notin {"ok", "abortError"} /\ ~Retries(e)
        <5>1. ResultDoc(e, db[j]) = Failed(db[j])
          BY <4>5 DEF ResultDoc
        <5> QED BY <1>0, <3>1, <4>1, <5>1, ReleasedFacts DEF Failed, Statuses
      <4> QED BY <4>2, <4>3, <4>4, <4>5
    <3> QED BY <2>3, <3>2, <3>3, <3>4, <3>5, <3>6, <3>7, RowFates
  <2> QED BY <2>1, <2>2, <2>3
<1>2. CASE UNCHANGED <<db, lost>>
  BY <1>0, <1>2 DEF Is, Exists
<1> QED BY <1>1, <1>2, Rows DEF StoreStep

\* A store call that does not give up leaves no row running for this process.
LEMMA StoreSettles ==
    ASSUME ~MayGiveUp, Shaped, NEW e \in Slots, StoreResult(e), NEW j \in JobIds, exec[e].job = j
    PROVE  ~(Is(j, "running")' /\ db'[j].boot = boot)
<1>1. db[j] \in Docs /\ db \in [JobIds -> Docs \cup {NoJob}]
  BY DEF StoreResult, Shaped, TypeOK, Named, Busy, Exists
<1>2. CASE ResultWrites(e, db[j]) /\ db' = [db EXCEPT ![j] = ResultDoc(e, @)]
  <2> SUFFICES db'[j].status # "running"
    BY DEF Is
  <2>1. db'[j] = ResultDoc(e, db[j])
    BY <1>1, <1>2
  <2>2. ResultDoc(e, db[j]) \in {Completed(db[j]), Failed(db[j]), Cancelled(db[j])}
           \/ (Owned(db[j], boot) /\ ResultDoc(e, db[j]) = FailedOrRetried(db[j]))
    <3>1. CASE exec[e].result = "abortError"
      BY <3>1 DEF ResultDoc, Retries
    <3>2. CASE exec[e].result = "ok"
      BY <3>2 DEF ResultDoc, Retries
    <3>3. CASE exec[e].result \notin {"abortError", "ok"} /\ Retries(e)
      BY <1>2, <3>3 DEF ResultWrites, ResultDoc
    <3>4. CASE exec[e].result \notin {"abortError", "ok"} /\ ~Retries(e)
      BY <3>4 DEF ResultDoc
    <3> QED BY <3>1, <3>2, <3>3, <3>4
  <2> QED BY <1>1, <2>1, <2>2, ReleasedFacts, RetriedFacts DEF Completed, Failed, Cancelled, Owned, Statuses
<1>3. CASE ~ResultWrites(e, db[j]) /\ UNCHANGED db
  <2>1. ~(db[j].status = "running" /\ db[j].boot = boot)
    BY <1>3 DEF ResultWrites, Cancellable, Owned
  <2> QED BY <1>1, <1>3, <2>1 DEF Is
<1> QED BY <1>1, <1>2, <1>3 DEF StoreResult

\* A job leaves its hands only with its outcome stored, or in a crash.
LEMMA HeldMoves ==
    ASSUME Shaped, Next, NEW j \in JobIds, Held(j)
    PROVE  \/ Held(j)'
           \/ \E e \in Slots : exec[e].job = j /\ StoreResult(e)
           \/ Crash
<1> DEFINE Goal == \/ Held(j)'
                   \/ \E e \in Slots : exec[e].job = j /\ StoreResult(e)
                   \/ Crash
<1>0. exec \in [Slots -> ExecRec] /\ disp \in [Dispatchers -> DispRec]
  BY DEF Shaped, TypeOK
<1>1. ASSUME NEW d \in Dispatchers, Launching(d), disp[d].job = j
      PROVE  Goal
  <2>1. ASSUME NEW c \in Dispatchers, NEW e \in Slots, Launch(c, e)
        PROVE  Goal
    <3>1. CASE c = d
      <4>1. exec'[e].at \in {"run", "store"} /\ exec'[e].job = j
        BY <1>0, <1>1, <2>1, <3>1 DEF Launch
      <4> QED BY <4>1 DEF Held
    <3>2. CASE c # d
      BY <1>0, <1>1, <2>1, <3>2 DEF Launch, Held, Launching
    <3> QED BY <3>1, <3>2
  <2>2. CASE UNCHANGED disp
    BY <1>1, <2>2 DEF Held, Launching
  <2>3. ASSUME NEW c \in Dispatchers, (\E l \in Lanes : FireTimer(c, l)) \/ FindJob(c) \/ ClaimJob(c)
        PROVE  Goal
    <3>1. c # d
      BY <1>1, <2>3 DEF FireTimer, FindJob, ClaimJob, Launching
    <3>2. disp'[d] = disp[d]
      <4>1. CASE \E l \in Lanes : FireTimer(c, l)
        BY <1>0, <3>1, <4>1 DEF FireTimer
      <4>2. CASE FindJob(c)
        BY <1>0, <3>1, <4>2 DEF FindJob
      <4>3. CASE ClaimJob(c)
        BY <1>0, <3>1, <4>3 DEF ClaimJob
      <4> QED BY <2>3, <4>1, <4>2, <4>3
    <3> QED BY <1>1, <3>2 DEF Held, Launching
  <2> QED BY <2>1, <2>2, <2>3, DispSteps DEF DispStep
<1>2. ASSUME NEW e \in Slots, exec[e].at \in {"run", "store"}, exec[e].job = j
      PROVE  Goal
  <2>1. ASSUME exec'[e].at \in {"run", "store"}, exec'[e].job = j
        PROVE  Goal
    BY <2>1 DEF Held
  <2>2. CASE UNCHANGED exec
    BY <1>2, <2>1, <2>2
  <2>3. ASSUME NEW d \in Dispatchers, NEW f \in Slots, Launch(d, f)
        PROVE  Goal
    <3>1. f # e /\ exec'[e] = exec[e]
      BY <1>0, <1>2, <2>3 DEF Launch, Busy
    <3> QED BY <1>2, <2>1, <3>1
  <2>4. ASSUME NEW f \in Slots, NEW r \in Results, Settle(f, r)
        PROVE  Goal
    <3>1. CASE f = e
      <4>1. exec'[e] = [exec[e] EXCEPT !.at = "store", !.result = r]
        BY <1>0, <2>4, <3>1 DEF Settle
      <4>2. exec'[e].at = "store" /\ exec'[e].job = j
        BY <1>0, <1>2, <4>1 DEF ExecRec
      <4> QED BY <2>1, <4>2
    <3>2. CASE f # e
      BY <1>0, <1>2, <2>1, <2>4, <3>2 DEF Settle
    <3> QED BY <3>1, <3>2
  <2>5. ASSUME NEW f \in Slots, Timeout(f)
        PROVE  Goal
    <3>1. CASE f = e
      <4>1. exec'[e] = [exec[e] EXCEPT !.aborted = TRUE]
        BY <1>0, <2>5, <3>1 DEF Timeout
      <4>2. exec'[e].at = exec[e].at /\ exec'[e].job = j
        BY <1>0, <1>2, <4>1 DEF ExecRec
      <4> QED BY <1>2, <2>1, <4>2
    <3>2. CASE f # e
      BY <1>0, <1>2, <2>1, <2>5, <3>2 DEF Timeout
    <3> QED BY <3>1, <3>2
  <2>6. ASSUME NEW i \in JobIds, Abort(i)
        PROVE  Goal
    <3>1. exec'[e].at = exec[e].at /\ exec'[e].job = j
      BY <1>0, <1>2, <2>6, SettledFacts DEF Abort
    <3> QED BY <1>2, <2>1, <3>1
  <2>7. ASSUME NEW f \in Slots, StoreResult(f) \/ RunHook(f)
        PROVE  Goal
    <3>1. CASE f = e
      BY <1>2, <2>7, <3>1 DEF RunHook
    <3>2. CASE f # e
      <4>1. exec'[e] = exec[e]
        BY <1>0, <2>7, <3>2 DEF StoreResult, RunHook, GoesTo, Finish
      <4> QED BY <1>2, <2>1, <4>1
    <3> QED BY <3>1, <3>2
  <2> QED BY <2>2, <2>3, <2>4, <2>5, <2>6, <2>7, ExecSteps DEF ExecStep
<1> QED BY <1>1, <1>2 DEF Held

\* The boot number changes only in a crash.
LEMMA BootMoves == Shaped /\ Next => (boot' = boot \/ Crash)
BY DEF Next, Enqueue, EnqueueLookup, EnqueueCreate, Dispatch, FireTimer, FindJob, ClaimJob, Launch,
   Execute, Settle, Timeout, StoreResult, RunHook, RenewLease, Maintain, LeaseLapse, BecomeDue, SweepLease,
   InterruptedHook, Tick, CancelJobs, CancelOne, CancelLane, CancelLaneRunning, CancelLaneScan, CancelLanePending,
   CancelLaneReturn, CancelOnePut, CancelLaneRunningPut, CancelLanePendingPut, CancelPut, CancelCall,
   Live, ReconcileJob, Start, Stop

\* A row running in this boot is in somebody's hands after every step, as long
\* as no call of the store gives up.
LEMMA RunningHeldStep == ~MayGiveUp /\ Shaped /\ RunningHeld /\ [Next]_vars => RunningHeld'
<1> SUFFICES ASSUME ~MayGiveUp, Shaped, RunningHeld, [Next]_vars PROVE RunningHeld'
  OBVIOUS
<1>1. CASE UNCHANGED vars
  BY <1>1 DEF vars, RunningHeld, Is, Exists, Held, Launching
<1>2. ASSUME Next, NEW j \in JobIds, Is(j, "running")'
      PROVE  /\ db'[j].boot \in Boots /\ db'[j].boot <= boot'
             /\ db'[j].boot = boot' => Held(j)'
  <2>0. boot \in Boots /\ boot \in Nat /\ db \in [JobIds -> Docs \cup {NoJob}] /\ disp \in [Dispatchers -> DispRec]
    BY DEF Shaped, TypeOK
  <2>1. ASSUME NEW d \in Dispatchers, disp[d].job = j, Takes(d)
        PROVE  /\ db'[j].boot \in Boots /\ db'[j].boot <= boot'
               /\ db'[j].boot = boot' => Held(j)'
    <3>1. db'[j] = Claimed(db[j], boot) /\ boot' = boot /\ db[j] \in Docs
      BY <2>0, <2>1 DEF Takes, Shaped, Named, Exists
    <3>2. db'[j].boot = boot
      BY <2>0, <3>1, ClaimedFacts
    <3>3. disp'[d].at = "launch" /\ disp'[d].job = j
      BY <2>0, <2>1 DEF Takes, DispRec
    <3> QED BY <2>0, <3>1, <3>2, <3>3 DEF Held, Launching
  <2>2. CASE Is(j, "running") /\ db'[j].boot = db[j].boot
    <3>1. db[j].boot \in Boots /\ db[j].boot \in Nat /\ db[j].boot <= boot /\ (db[j].boot = boot => Held(j))
      BY <2>2 DEF RunningHeld
    <3>2. CASE boot' = boot
      <4>1. ASSUME NEW e \in Slots, exec[e].job = j, StoreResult(e)
            PROVE  db'[j].boot # boot
        BY <1>2, <4>1, StoreSettles
      <4>2. ~Crash
        BY <2>0, <3>2 DEF Crash
      <4> QED BY <1>2, <2>2, <3>1, <3>2, <4>1, <4>2, HeldMoves
    <3>3. CASE Crash
      BY <2>0, <2>2, <3>1, <3>3 DEF Crash
    <3> QED BY <1>2, <3>2, <3>3, BootMoves
  <2> QED BY <1>2, <2>1, <2>2, RunningFrom
<1> QED BY <1>1, <1>2 DEF RunningHeld

\* While store calls do not lose every race, a running row of this process is in
\* somebody's hands, however the lease and the clock behave.
THEOREM Unstranded == ASSUME ~MayGiveUp PROVE Spec => []NothingStranded
<1>1. Init => RunningHeld
  BY DEF Init, RunningHeld, Is, Exists
<1>2. Shaped /\ RunningHeld /\ [Next]_vars => RunningHeld'
  BY RunningHeldStep
<1>3. RunningHeld => NothingStranded
  BY DEF RunningHeld, NothingStranded, Held, InHand, Busy, Launching
<1> QED BY <1>1, <1>2, <1>3, ShapedAlways, PTL DEF Spec
-----------------------------------------------------------------------------
(* the cap *)

Capped == {e \in Slots : Busy(e) /\ ~IsChat(exec[e].job)}
Admitted == {d \in Dispatchers : disp[d].at \in {"claim", "launch"} /\ ~IsChat(disp[d].job)}

\* Work that counts against the cap is admitted by a dispatch that saw room, and
\* moves from that dispatch to the slot it starts.
LEMMA CapMoves ==
    ASSUME Shaped, Next
    PROVE  \/ Capped' \subseteq Capped /\ Admitted' \subseteq Admitted
           \/ Capped' \subseteq Capped /\ running < MaxGlobal
           \/ \E d \in Admitted, e \in Slots \ Capped :
                 Capped' \subseteq Capped \cup {e} /\ Admitted' \subseteq Admitted \ {d}
<1>0. exec \in [Slots -> ExecRec] /\ disp \in [Dispatchers -> DispRec]
  BY DEF Shaped, TypeOK
<1>1. \A j \in JobIds : Exists(j) => db'[j].info = db[j].info
  BY Rows, Kept
<1>2. /\ \A e \in Slots : Busy(e) => db'[exec[e].job].info = db[exec[e].job].info
      /\ \A d \in Dispatchers : disp[d].at \in {"claim", "launch"} =>
            db'[disp[d].job].info = db[disp[d].job].info
  BY <1>1 DEF Shaped, Named
<1>3. ASSUME NEW d \in Dispatchers, NEW e \in Slots, Launch(d, e)
      PROVE  \/ Capped' \subseteq Capped /\ Admitted' \subseteq Admitted
             \/ \E x \in Admitted, y \in Slots \ Capped :
                   Capped' \subseteq Capped \cup {y} /\ Admitted' \subseteq Admitted \ {x}
  <2>1. PICK j : j = disp[d].job
    OBVIOUS
  <2>2. /\ disp[d].at = "launch" /\ ~Busy(e) /\ db' = db
        /\ disp'[d].at = "idle" /\ \A x \in Dispatchers : x # d => disp'[x] = disp[x]
        /\ exec'[e].job = j /\ \A y \in Slots : y # e => exec'[y] = exec[y]
    BY <1>0, <1>3, <2>1 DEF Launch, NoDisp
  <2>3. Admitted' \subseteq Admitted \ {d}
    BY <2>2 DEF Admitted, IsChat
  <2>4. CASE IsChat(j)
    <3>1. Capped' \subseteq Capped
      BY <2>2, <2>4 DEF Capped, IsChat, Busy
    <3> QED BY <2>3, <3>1
  <2>5. CASE ~IsChat(j)
    <3>1. Capped' \subseteq Capped \cup {e} /\ e \notin Capped /\ d \in Admitted
      BY <2>1, <2>2, <2>5 DEF Capped, Admitted, IsChat, Busy
    <3> QED BY <2>3, <3>1
  <2> QED BY <2>4, <2>5
<1>4. ASSUME NEW d \in Dispatchers, FindJob(d)
      PROVE  Admitted' \subseteq Admitted \/ running < MaxGlobal
  <2>1. db' = db /\ disp[d].at = "find"
    BY <1>4 DEF FindJob
  <2>2. CASE disp' = [disp EXCEPT ![d] = NoDisp]
    <3>1. disp'[d].at = "idle" /\ \A x \in Dispatchers : x # d => disp'[x] = disp[x]
      BY <1>0, <2>2 DEF NoDisp
    <3> QED BY <2>1, <3>1 DEF Admitted, IsChat
  <2>3. ASSUME NEW j \in JobIds, IsChat(j), disp' = [disp EXCEPT ![d].at = "claim", ![d].job = j]
        PROVE  Admitted' \subseteq Admitted
    <3>1. disp'[d].job = j /\ \A x \in Dispatchers : x # d => disp'[x] = disp[x]
      BY <1>0, <2>3 DEF DispRec
    <3> QED BY <2>1, <2>3, <3>1 DEF Admitted, IsChat
  <2> QED BY <1>4, <2>2, <2>3 DEF FindJob, MayDispatch
<1>5. ASSUME NEW d \in Dispatchers, (\E l \in Lanes : FireTimer(d, l)) \/ ClaimJob(d)
      PROVE  Admitted' \subseteq Admitted
  <2>1. \A x \in Dispatchers : x # d => disp'[x] = disp[x]
    BY <1>0, <1>5 DEF FireTimer, ClaimJob
  <2>2. disp'[d].at \in {"claim", "launch"} => disp[d].at = "claim" /\ disp'[d].job = disp[d].job
    BY <1>0, <1>5 DEF FireTimer, ClaimJob, DispRec
  <2> QED BY <1>2, <2>1, <2>2 DEF Admitted, IsChat
<1>6. UNCHANGED disp => Admitted' \subseteq Admitted
  BY <1>2 DEF Admitted, IsChat
<1>7. Crash => Admitted' \subseteq Admitted
  BY DEF Crash, Admitted, NoDisp
<1>8. ASSUME ~\E d \in Dispatchers, e \in Slots : Launch(d, e)
      PROVE  Capped' \subseteq Capped
  <2>1. CASE SameHands
    BY <1>2, <2>1 DEF SameHands, Capped, IsChat
  <2>2. CASE NoHands'
    BY <2>2 DEF NoHands, Capped
  <2>3. ASSUME NEW e \in Slots, Busy(e), Finish(e)
        PROVE  Capped' \subseteq Capped
    <3>1. ~Busy(e)' /\ \A f \in Slots : f # e => exec'[f] = exec[f]
      BY <1>0, <2>3 DEF Finish, NoExec, Busy
    <3> QED BY <1>2, <3>1 DEF Capped, IsChat, Busy
  <2>4. ASSUME NEW d \in Dispatchers, Takes(d)
        PROVE  Capped' \subseteq Capped
    BY <1>2, <2>4 DEF Takes, Capped, IsChat, Busy
  <2> QED BY <1>8, <2>1, <2>2, <2>3, <2>4, HandSteps DEF HandStep
<1>9. ~(\E d \in Dispatchers, e \in Slots : Launch(d, e)) =>
         Admitted' \subseteq Admitted \/ running < MaxGlobal
  BY <1>4, <1>5, <1>6, <1>7, DispSteps DEF DispStep, Admitted, IsChat
<1> QED BY <1>3, <1>8, <1>9

CapKept == Cardinality(Capped) + Cardinality(Admitted) < MaxGlobal + Cardinality(Dispatchers)

\* The slots beyond the cap are bounded by the dispatchers that had passed the
\* check.
LEMMA CapStep == Shaped /\ CountKept /\ CapKept /\ [Next]_vars => CapKept'
<1> SUFFICES ASSUME Shaped, CountKept, CapKept, Next PROVE CapKept'
  BY DEF vars, CapKept, Capped, Admitted, IsChat, Busy
<1>1. /\ IsFiniteSet(Dispatchers) /\ Admitted \subseteq Dispatchers /\ Admitted' \subseteq Dispatchers
      /\ IsFiniteSet(BusySlots) /\ Capped \subseteq BusySlots
  BY DEF CountKept, Admitted, Capped, BusySlots
<1>2. /\ IsFiniteSet(Capped) /\ Cardinality(Capped) <= running
      /\ IsFiniteSet(Admitted) /\ IsFiniteSet(Admitted') /\ Cardinality(Admitted') <= Cardinality(Dispatchers)
  BY <1>1, FS_Subset DEF CountKept
<1>3. /\ Cardinality(Capped) \in Nat /\ Cardinality(Admitted) \in Nat /\ Cardinality(Admitted') \in Nat
      /\ Cardinality(Dispatchers) \in Nat /\ running \in Nat
  BY <1>1, <1>2, FS_CardinalityType DEF CountKept
<1>4. CASE Capped' \subseteq Capped /\ Admitted' \subseteq Admitted
  <2>1. /\ Cardinality(Capped') <= Cardinality(Capped) /\ Cardinality(Capped') \in Nat
        /\ Cardinality(Admitted') <= Cardinality(Admitted)
    BY <1>2, <1>4, FS_Subset, FS_CardinalityType
  <2> QED BY <1>3, <2>1 DEF CapKept
<1>5. CASE Capped' \subseteq Capped /\ running < MaxGlobal
  <2>1. Cardinality(Capped') <= Cardinality(Capped) /\ Cardinality(Capped') \in Nat
    BY <1>2, <1>5, FS_Subset, FS_CardinalityType
  <2> QED BY <1>2, <1>3, <1>5, <2>1 DEF CapKept
<1>6. ASSUME NEW d \in Admitted, NEW e \in Slots \ Capped,
             Capped' \subseteq Capped \cup {e}, Admitted' \subseteq Admitted \ {d}
      PROVE  CapKept'
  <2>1. IsFiniteSet(Capped \cup {e}) /\ Cardinality(Capped \cup {e}) = Cardinality(Capped) + 1
    BY <1>2, FS_AddElement
  <2>2. IsFiniteSet(Admitted \ {d}) /\ Cardinality(Admitted \ {d}) = Cardinality(Admitted) - 1
    BY <1>2, FS_RemoveElement
  <2>3. /\ Cardinality(Capped') <= Cardinality(Capped) + 1 /\ Cardinality(Capped') \in Nat
        /\ Cardinality(Admitted') <= Cardinality(Admitted) - 1
    BY <1>6, <2>1, <2>2, FS_Subset, FS_CardinalityType
  <2> QED BY <1>3, <2>3 DEF CapKept
<1> QED BY <1>4, <1>5, <1>6, CapMoves

\* However many dispatches run together, they exceed the cap by fewer jobs than
\* there are dispatches.
THEOREM CapHolds == Spec => []CapOvershootBounded
<1>1. Init => CapKept
  <2> SUFFICES ASSUME Init PROVE CapKept
    OBVIOUS
  <2>1. Capped = {} /\ Admitted = {}
    BY DEF Init, NoExec, NoDisp, Capped, Admitted, Busy
  <2> QED BY <2>1, FS_EmptySet, FS_CardinalityType DEF CapKept
<1>2. Spec => []CountKept
  BY CountInit, CountStep, ShapedAlways, PTL DEF Spec
<1>3. CapKept => CapOvershootBounded
  BY DEF CapKept, Capped, Admitted, CapOvershootBounded
<1> QED BY <1>1, <1>2, <1>3, CapStep, ShapedAlways, PTL DEF Spec
-----------------------------------------------------------------------------
(* the hook tells the outcome *)

Uncancelled == cancel.at = "idle"

\* Where no cancellation is asked for, no row is ever cancelled and no
\* execution aborted.
LEMMA NobodyCancels == ASSUME MaxCancels = 0 PROVE Spec => []Uncancelled
<1>1. Init => Uncancelled
  BY DEF Init, Uncancelled, NoCancel
<1>2. Shaped /\ Uncancelled /\ [Next]_vars => Uncancelled'
  <2> SUFFICES ASSUME Shaped, Uncancelled, Next PROVE Uncancelled'
    BY DEF vars, Uncancelled
  <2>1. ~BeginCancel
    BY DEF BeginCancel, Shaped, TypeOK
  <2>2. \A j \in JobIds : ~CancelOne(j) /\ ~CancelLaneRunning(j) /\ ~CancelLanePending(j)
    BY <2>1 DEF CancelOne, CancelLaneRunning, CancelLanePending, Uncancelled
  <2>3. \A l \in Lanes : ~CancelLane(l)
    BY <2>1 DEF CancelLane
  <2>4. ~CancelOnePut /\ ~CancelLaneRunningPut /\ ~CancelLanePendingPut /\ ~CancelLaneScan /\ ~CancelLaneReturn
    BY DEF CancelOnePut, CancelLaneRunningPut, CancelLanePendingPut, CancelLaneScan, CancelLaneReturn,
       CancelLaneReturns, Uncancelled
  <2>5. Crash => Uncancelled'
    BY DEF Crash, NoCancel, Uncancelled
  <2> QED BY <2>2, <2>3, <2>4, <2>5, CancelSteps DEF CancelStep, Uncancelled
<1> QED BY <1>1, <1>2, ShapedAlways, PTL DEF Spec

\* Where a slot that is busy after a step was before it.
LEMMA ExecFrom ==
    ASSUME Shaped, Next, NEW e \in Slots, exec'[e].at # "idle"
    PROVE  \/ \E d \in Dispatchers : Launch(d, e) /\ exec'[e].at \in {"run", "store"} /\ exec'[e].job = disp[d].job
           \/ /\ exec[e].at \in {"run", "store"} /\ exec'[e].at \in {"run", "store"}
              /\ exec'[e].job = exec[e].job
           \/ /\ exec[e].at = "hook" /\ exec'[e].at = "hook"
              /\ exec'[e].job = exec[e].job /\ exec'[e].result = exec[e].result
           \/ /\ StoreResult(e) /\ GoesTo(e, "hook") /\ exec'[e].at = "hook"
              /\ exec'[e].job = exec[e].job /\ exec'[e].result = exec[e].result
<1> DEFINE From ==
           \/ \E d \in Dispatchers : Launch(d, e) /\ exec'[e].at \in {"run", "store"} /\ exec'[e].job = disp[d].job
           \/ /\ exec[e].at \in {"run", "store"} /\ exec'[e].at \in {"run", "store"}
              /\ exec'[e].job = exec[e].job
           \/ /\ exec[e].at = "hook" /\ exec'[e].at = "hook"
              /\ exec'[e].job = exec[e].job /\ exec'[e].result = exec[e].result
           \/ /\ StoreResult(e) /\ GoesTo(e, "hook") /\ exec'[e].at = "hook"
              /\ exec'[e].job = exec[e].job /\ exec'[e].result = exec[e].result
<1>0. exec \in [Slots -> ExecRec] /\ exec[e].at \in {"idle", "run", "store", "hook"}
  BY DEF Shaped, TypeOK, ExecRec
<1>1. CASE exec'[e] = exec[e]
  BY <1>0, <1>1
<1>2. ASSUME NEW d \in Dispatchers, NEW f \in Slots, Launch(d, f)
      PROVE  From
  <2>1. CASE f # e
    BY <1>0, <1>1, <1>2, <2>1 DEF Launch
  <2>2. CASE f = e
    <3>1. exec'[e].at \in {"run", "store"} /\ exec'[e].job = disp[d].job
      BY <1>0, <1>2, <2>2 DEF Launch
    <3> QED BY <1>2, <2>2, <3>1
  <2> QED BY <2>1, <2>2
<1>3. ASSUME NEW f \in Slots, NEW r \in Results, Settle(f, r)
      PROVE  From
  <2>1. CASE f # e
    BY <1>0, <1>1, <1>3, <2>1 DEF Settle
  <2>2. CASE f = e
    <3>1. exec'[e] = [exec[e] EXCEPT !.at = "store", !.result = r] /\ exec[e].at = "run"
      BY <1>0, <1>3, <2>2 DEF Settle
    <3>2. exec'[e].at = "store" /\ exec'[e].job = exec[e].job
      BY <1>0, <3>1 DEF ExecRec
    <3> QED BY <3>1, <3>2
  <2> QED BY <2>1, <2>2
<1>4. ASSUME exec[e].at # "store" \/ exec'[e].at # "hook", exec'[e].at = exec[e].at, exec'[e].job = exec[e].job, exec'[e].result = exec[e].result
      PROVE  From
  BY <1>0, <1>4
<1>5. ASSUME NEW f \in Slots, Timeout(f)
      PROVE  From
  <2>1. CASE f # e
    BY <1>0, <1>1, <1>5, <2>1 DEF Timeout
  <2>2. CASE f = e
    <3>1. exec'[e] = [exec[e] EXCEPT !.aborted = TRUE]
      BY <1>0, <1>5, <2>2 DEF Timeout
    <3>2. exec'[e].at = exec[e].at /\ exec'[e].job = exec[e].job /\ exec'[e].result = exec[e].result
      BY <1>0, <3>1 DEF ExecRec
    <3> QED BY <1>4, <1>5, <2>2, <3>2 DEF Timeout
  <2> QED BY <2>1, <2>2
<1>6. ASSUME NEW i \in JobIds, Abort(i)
      PROVE  From
  <2>1. exec'[e] = IF e = aborts[i] THEN [exec[e] EXCEPT !.aborted = TRUE] ELSE exec[e]
    BY <1>6 DEF Abort
  <2>2. exec'[e].at = exec[e].at /\ exec'[e].job = exec[e].job /\ exec'[e].result = exec[e].result
    BY <1>0, <2>1 DEF ExecRec
  <2> QED BY <1>4, <2>2
<1>7. ASSUME NEW f \in Slots, StoreResult(f) \/ RunHook(f)
      PROVE  From
  <2>1. CASE f # e
    <3>1. exec'[e] = exec[e]
      BY <1>0, <1>7, <2>1 DEF StoreResult, RunHook, GoesTo, Finish
    <3> QED BY <1>1, <3>1
  <2>2. CASE f = e /\ Finish(e)
    BY <1>0, <2>2 DEF Finish, NoExec
  <2>3. CASE f = e /\ StoreResult(e) /\ GoesTo(e, "hook")
    <3>1. exec'[e] = [exec[e] EXCEPT !.at = "hook"]
      BY <1>0, <2>3 DEF GoesTo
    <3>2. exec'[e].at = "hook" /\ exec'[e].job = exec[e].job /\ exec'[e].result = exec[e].result
      BY <1>0, <3>1 DEF ExecRec
    <3> QED BY <2>3, <3>2
  <2> QED BY <1>7, <2>1, <2>2, <2>3 DEF StoreResult, RunHook
<1>8. ~Crash
  BY DEF Crash, NoExec
<1> QED BY <1>1, <1>2, <1>3, <1>5, <1>6, <1>7, <1>8, ExecSteps DEF ExecStep

\* Only a claim hands a job to a dispatcher.
LEMMA LaunchingFrom ==
    ASSUME Shaped, Next, NEW d \in Dispatchers, disp'[d].at = "launch"
    PROVE  (Launching(d) /\ disp'[d].job = disp[d].job) \/ Takes(d)
<1>0. exec \in [Slots -> ExecRec] /\ disp \in [Dispatchers -> DispRec]
  BY DEF Shaped, TypeOK
<1>1. CASE SameHands
  BY <1>1 DEF SameHands, Launching
<1>2. ~NoHands'
  BY DEF NoHands, Launching
<1>3. ASSUME NEW c \in Dispatchers, Takes(c), c # d
      PROVE  Launching(d) /\ disp'[d].job = disp[d].job
  BY <1>0, <1>3 DEF Takes, Launching
<1>4. ASSUME NEW c \in Dispatchers, NEW e \in Slots, Launch(c, e)
      PROVE  Launching(d) /\ disp'[d].job = disp[d].job
  BY <1>0, <1>4 DEF Launch, Launching, NoDisp
<1>5. CASE UNCHANGED disp
  BY <1>5 DEF Launching
<1> QED BY <1>1, <1>2, <1>3, <1>4, <1>5, HandSteps DEF HandStep

\* What is true of rows, hooks to come and hooks told when no cancel interferes,
\* no lease lapses under an executor and no store call gives up.
ToldOf(j) ==
    \/ hooks[j] = <<>>
    \/ hooks[j] = <<"ok">> /\ Is(j, "completed")
    \/ hooks[j] = <<"failed">> /\ (Is(j, "failed") \/ Is(j, "interrupted"))

ToldTruly ==
    /\ \A j \in JobIds : Held(j) => Is(j, "running")
    /\ \A e \in Slots, j \in JobIds : exec[e].at = "hook" /\ exec[e].job = j =>
          /\ hooks[j] = <<>>
          /\ Is(j, IF exec[e].result = "ok" THEN "completed" ELSE "failed")
    /\ \A j \in JobIds : sweep = j => hooks[j] = <<>> /\ Is(j, "interrupted")
    /\ \A j \in JobIds : ToldOf(j)

\* A reported outcome is never taken back, where nobody cancels.
LEMMA ReportedStays ==
    ASSUME Shaped, Uncancelled, ToldTruly, Next,
           NEW j \in JobIds, NEW s \in {"completed", "failed", "interrupted"}, Is(j, s)
    PROVE  Is(j, s)'
<1>1. Exists(j) /\ db[j] \in Docs /\ db[j].status = s
  BY DEF Is, Exists, Shaped, TypeOK
<1>2. CASE db'[j] = db[j]
  BY <1>1, <1>2 DEF Is, Exists
<1>3. ASSUME NEW d \in Dispatchers, disp[d].job = j, Takes(d)
      PROVE  FALSE
  BY <1>1, <1>3 DEF Takes, Claimable
<1>4. ASSUME NEW e \in Slots, exec[e].job = j, StoreResult(e)
      PROVE  FALSE
  BY <1>1, <1>4 DEF StoreResult, ToldTruly, Held, Is
<1>5. CASE db'[j] = Renewed(db[j])
  <2>1. db'[j] \in Docs /\ db'[j].status = s
    <3>1. db[j] \in Docs /\ db'[j] = [db[j] EXCEPT !.lease = "live"]
      BY <1>1, <1>5 DEF Renewed
    <3>2. db'[j] \in Docs /\ db'[j].status = db[j].status
      <4> DEFINE r == [db[j] EXCEPT !.lease = "live"]
      <4>1. r \in Docs /\ r.status = db[j].status
        BY <3>1, RenewedFacts
      <4>2. db'[j] = r
        BY <3>1
      <4> HIDE DEF r
      <4> QED BY <4>1, <4>2
    <3> QED BY <1>1, <3>2
  <2> QED BY <2>1 DEF Is, Exists
<1>6. ~(LeaseLapse(j) \/ BecomeDue(j) \/ SweepLease(j) \/ ReconcileJob(j))
  BY <1>1 DEF LeaseLapse, BecomeDue, SweepLease, ReconcileJob, TakeBack, Reclaimable, Orphaned, Is
<1> QED BY <1>1, <1>2, <1>3, <1>4, <1>5, <1>6, RowFates DEF Uncancelled

\* A job in hand is running, where nobody cancels and the clock keeps time.
LEMMA HeldRuns ==
    ASSUME ~ClockMayJump, Shaped, Uncancelled, HandsKept, ToldTruly, Next, NEW j \in JobIds, Held(j)'
    PROVE  Is(j, "running")'
<1>0. /\ exec \in [Slots -> ExecRec] /\ disp \in [Dispatchers -> DispRec]
      /\ db \in [JobIds -> Docs \cup {NoJob}] /\ boot \in Boots
  BY DEF Shaped, TypeOK
<1>1. ASSUME NEW d \in Dispatchers, Takes(d), disp[d].job = j
      PROVE  Is(j, "running")'
  <2>1. db'[j] = Claimed(db[j], boot) /\ db[j] \in Docs
    BY <1>0, <1>1 DEF Takes, Shaped, Named, Exists
  <2> QED BY <1>0, <2>1, ClaimedFacts DEF Is, Exists
<1>2. Held(j) \/ \E d \in Dispatchers : Takes(d) /\ disp[d].job = j
  <2>1. ASSUME NEW e \in Slots, exec'[e].at \in {"run", "store"}, exec'[e].job = j
        PROVE  Held(j)
    <3>1. CASE exec[e].at \in {"run", "store"} /\ exec'[e].job = exec[e].job
      BY <2>1, <3>1 DEF Held
    <3>2. ASSUME NEW d \in Dispatchers, Launch(d, e), exec'[e].job = disp[d].job
          PROVE  Held(j)
      BY <2>1, <3>2 DEF Held, Launching, Launch
    <3> QED BY <2>1, <3>1, <3>2, ExecFrom
  <2>2. ASSUME NEW d \in Dispatchers, disp'[d].at = "launch", disp'[d].job = j
        PROVE  Held(j) \/ \E c \in Dispatchers : Takes(c) /\ disp[c].job = j
    <3>1. CASE Launching(d) /\ disp'[d].job = disp[d].job
      BY <2>2, <3>1 DEF Held
    <3>2. CASE Takes(d)
      <4>1. disp'[d].job = disp[d].job
        BY <1>0, <3>2 DEF Takes, DispRec
      <4> QED BY <2>2, <3>2, <4>1
    <3> QED BY <2>2, <3>1, <3>2, LaunchingFrom
  <2> QED BY <2>1, <2>2 DEF Held, Launching
<1>3. CASE Held(j)
  <2>1. /\ Is(j, "running") /\ Exists(j) /\ db[j] \in Docs /\ InHand(j) /\ Safe(j)
    BY <1>0, <1>3 DEF ToldTruly, Held, InHand, Launching, Busy, Is, Exists, HandsKept, HandsSafe
  <2>2. CASE db'[j] = db[j]
    BY <2>1, <2>2 DEF Is, Exists
  <2>3. ASSUME NEW e \in Slots, exec[e].job = j, StoreResult(e)
        PROVE  FALSE
    <3>1. Busy(e) /\ disp' = disp /\ exec'[e].at \notin {"run", "store"}
             /\ \A f \in Slots : f # e => exec'[f] = exec[f]
      <4>1. CASE GoesTo(e, "hook")
        BY <1>0, <2>3, <4>1, SettledFacts, ZenonT(30) DEF StoreResult, GoesTo, Busy
      <4>2. CASE Finish(e)
        BY <1>0, <2>3, <4>2 DEF StoreResult, Finish, NoExec, Busy
      <4> QED BY <2>3, <4>1, <4>2 DEF StoreResult
    <3>2. \A f \in Slots : ~(exec'[f].at \in {"run", "store"} /\ exec'[f].job = j)
      BY <2>3, <3>1 DEF HandsKept, HandsApart, ExclusiveExecution, Busy
    <3>3. \A d \in Dispatchers : ~(disp'[d].at = "launch" /\ disp'[d].job = j)
      BY <2>3, <3>1 DEF HandsKept, HandsApart, Launching
    <3> QED BY <3>2, <3>3 DEF Held, Launching
  <2>4. CASE db'[j] = Renewed(db[j])
    <3>1. db'[j] \in Docs /\ db'[j].status = "running"
      BY <2>1, <2>4 DEF Renewed, Docs, Is
    <3> QED BY <3>1 DEF Is, Exists
  <2>5. \A d \in Dispatchers : ~(disp[d].job = j /\ Takes(d))
    BY <2>1 DEF Takes, Claimable, Is
  <2>6. ~(LeaseLapse(j) \/ BecomeDue(j) \/ SweepLease(j) \/ ReconcileJob(j))
    BY <2>1 DEF LeaseLapse, BecomeDue, SweepLease, ReconcileJob, TakeBack, Reclaimable, Orphaned, Is, Safe
  <2> QED BY <2>1, <2>2, <2>3, <2>4, <2>5, <2>6, RowFates DEF Uncancelled
<1> QED BY <1>1, <1>2, <1>3

\* The call that leads to a hook leaves the outcome in the row.
LEMMA HookFollowsOutcome ==
    ASSUME ~MayGiveUp, Shaped, NEW e \in Slots, StoreResult(e), GoesTo(e, "hook"),
           NEW j \in JobIds, exec[e].job = j, Is(j, "running"), db[j].boot = boot
    PROVE  Is(j, IF exec[e].result = "ok" THEN "completed" ELSE "failed")'
<1> DEFINE d == db[j]
<1>1. d \in Docs /\ exec \in [Slots -> ExecRec] /\ db \in [JobIds -> Docs \cup {NoJob}]
  BY DEF Shaped, TypeOK, Is, Exists
<1>2. PICK writes \in BOOLEAN :
         /\ writes => ResultWrites(e, d)
         /\ ~writes => ~ResultWrites(e, d)
         /\ db' = [db EXCEPT ![j] = IF writes THEN ResultDoc(e, @) ELSE @]
         /\ IF HookFollows(e, db'[j], writes) THEN GoesTo(e, "hook") ELSE Finish(e)
  BY DEF StoreResult
<1>3. HookFollows(e, db'[j], writes) /\ exec'[e].result = exec[e].result
  <2>1. exec'[e].at = "hook" /\ exec'[e].result = exec[e].result
    <3>1. exec'[e] = [exec[e] EXCEPT !.at = "hook"] /\ exec[e] \in ExecRec
      BY <1>1 DEF GoesTo
    <3> QED BY <3>1 DEF ExecRec
  <2>2. ~Finish(e)
    BY <1>1, <2>1 DEF Finish, NoExec
  <2> QED BY <1>2, <2>1, <2>2
<1>4. exec[e].result # "abortError"
  BY <1>3 DEF HookFollows, Retries
<1>5. writes /\ db'[j] = ResultDoc(e, d)
  <2>1. ResultWrites(e, d)
    BY <1>4 DEF ResultWrites, Owned, Is
  <2> QED BY <1>1, <1>2, <2>1
<1>6. CASE exec[e].result = "ok"
  <2>1. ResultDoc(e, d) = Completed(d)
    BY <1>6 DEF ResultDoc, Retries
  <2>2. db'[j] \in Docs /\ db'[j].status = "completed"
    BY <1>1, <1>5, <2>1, ReleasedFacts DEF Completed, Statuses
  <2> QED BY <1>3, <1>6, <2>2 DEF Is, Exists
<1>7. CASE exec[e].result # "ok"
  <2>1. db'[j] \in Docs /\ db'[j].status = "failed"
    <3>1. CASE Retries(e)
      <4>1. ResultDoc(e, d) = FailedOrRetried(d)
        BY <1>7, <3>1 DEF ResultDoc, Retries
      <4>2. db'[j].status = "failed"
        BY <1>3, <3>1 DEF HookFollows, Retries
      <4> QED BY <1>1, <1>5, <4>1, <4>2, RetriedFacts DEF Is
    <3>2. CASE ~Retries(e)
      <4>1. ResultDoc(e, d) = Failed(d)
        BY <1>4, <1>7, <3>2 DEF ResultDoc
      <4> QED BY <1>1, <1>5, <4>1, ReleasedFacts DEF Failed, Statuses
    <3> QED BY <3>1, <3>2
  <2> QED BY <1>3, <1>7, <2>1 DEF Is, Exists
<1> QED BY <1>6, <1>7

\* Every step keeps what hooks were told true of the row.
LEMMA ToldStep ==
    ASSUME ~ClockMayJump, ~MayGiveUp, Shaped, Uncancelled, HandsKept, ToldTruly, Next
    PROVE  ToldTruly'
<1>0. /\ exec \in [Slots -> ExecRec] /\ db \in [JobIds -> Docs \cup {NoJob}]
      /\ hooks \in [JobIds -> Seq({"ok", "failed"})] /\ sweep \in JobIds \cup {0} /\ 0 \notin JobIds
      /\ \A e \in Slots : Busy(e) => exec[e].job \in JobIds
  BY DEF Shaped, TypeOK, Named
<1>t. /\ \A j \in JobIds : Held(j) => Is(j, "running")
      /\ \A e \in Slots, j \in JobIds : exec[e].at = "hook" /\ exec[e].job = j =>
            /\ hooks[j] = <<>>
            /\ Is(j, IF exec[e].result = "ok" THEN "completed" ELSE "failed")
      /\ \A j \in JobIds : sweep = j => hooks[j] = <<>> /\ Is(j, "interrupted")
      /\ \A j \in JobIds : ToldOf(j)
  BY DEF ToldTruly
<1>1. ASSUME NEW j \in JobIds
      PROVE  \/ hooks'[j] = hooks[j]
             \/ \E e \in Slots : RunHook(e) /\ exec[e].job = j
             \/ InterruptedHook /\ sweep = j
  <2>1. ASSUME NEW e \in Slots, RunHook(e), exec[e].job # j
        PROVE  hooks'[j] = hooks[j]
    BY <1>0, <2>1 DEF RunHook
  <2>2. ASSUME InterruptedHook, sweep # j
        PROVE  hooks'[j] = hooks[j]
    BY <1>0, <2>2 DEF InterruptedHook
  <2> QED BY <2>1, <2>2, TollSteps DEF TollStep, SweepLease, ReconcileJob, Crash
\* what the hook step of a slot adds
<1>2. ASSUME NEW j \in JobIds, NEW e \in Slots, RunHook(e), exec[e].job = j
      PROVE  /\ hooks'[j] = IF exec[e].result = "ok" THEN <<"ok">> ELSE <<"failed">>
             /\ Is(j, IF exec[e].result = "ok" THEN "completed" ELSE "failed")
             /\ exec'[e].at = "idle"
  <2>1. hooks[j] = <<>> /\ Is(j, IF exec[e].result = "ok" THEN "completed" ELSE "failed")
    BY <1>t, <1>2 DEF RunHook
  <2>2. hooks'[j] = Append(hooks[j], IF exec[e].result = "ok" THEN "ok" ELSE "failed")
    BY <1>0, <1>2 DEF RunHook
  <2>3. exec'[e].at = "idle"
    BY <1>0, <1>2 DEF RunHook, Finish, NoExec
  <2> QED BY <2>1, <2>2, <2>3
<1>3. ASSUME NEW j \in JobIds, InterruptedHook, sweep = j
      PROVE  hooks'[j] = <<"failed">> /\ Is(j, "interrupted") /\ sweep' = 0
  <2>1. hooks[j] = <<>> /\ Is(j, "interrupted")
    BY <1>t, <1>3
  <2>2. hooks'[j] = Append(hooks[j], "failed") /\ sweep' = 0
    BY <1>0, <1>3 DEF InterruptedHook
  <2> QED BY <2>1, <2>2
<1>4. ASSUME NEW j \in JobIds
      PROVE  ToldOf(j)'
  <2>1. CASE hooks'[j] = hooks[j]
    <3>1. CASE hooks[j] = <<>>
      BY <2>1, <3>1 DEF ToldOf
    <3>2. ASSUME NEW s \in {"completed", "failed", "interrupted"}, Is(j, s)
          PROVE  Is(j, s)'
      BY <3>2, ReportedStays
    <3> QED BY <1>t, <2>1, <3>1, <3>2 DEF ToldOf
  <2>2. ASSUME NEW e \in Slots, RunHook(e), exec[e].job = j
        PROVE  ToldOf(j)'
    <3>1. CASE exec[e].result = "ok"
      <4>1. hooks'[j] = <<"ok">> /\ Is(j, "completed")
        BY <1>2, <2>2, <3>1
      <4> QED BY <4>1, ReportedStays DEF ToldOf
    <3>2. CASE exec[e].result # "ok"
      <4>1. hooks'[j] = <<"failed">> /\ Is(j, "failed")
        BY <1>2, <2>2, <3>2
      <4> QED BY <4>1, ReportedStays DEF ToldOf
    <3> QED BY <3>1, <3>2
  <2>3. CASE InterruptedHook /\ sweep = j
    <3>1. hooks'[j] = <<"failed">> /\ Is(j, "interrupted")
      BY <1>3, <2>3
    <3> QED BY <3>1, ReportedStays DEF ToldOf
  <2> QED BY <1>1, <2>1, <2>2, <2>3
<1>5. ASSUME NEW e \in Slots, NEW j \in JobIds, exec'[e].at = "hook", exec'[e].job = j
      PROVE  /\ hooks'[j] = <<>>
             /\ Is(j, IF exec[e].result = "ok" THEN "completed" ELSE "failed")'
  <2>1. CASE exec[e].at = "hook" /\ exec'[e].job = exec[e].job /\ exec'[e].result = exec[e].result
    <3> DEFINE s == IF exec[e].result = "ok" THEN "completed" ELSE "failed"
    <3>1. hooks[j] = <<>> /\ Is(j, s)
      BY <1>t, <1>5, <2>1
    <3>2. ~(InterruptedHook /\ sweep = j)
      BY <1>t, <3>1 DEF Is
    <3>3. \A f \in Slots : ~(RunHook(f) /\ exec[f].job = j)
      <4> SUFFICES ASSUME NEW f \in Slots, RunHook(f), exec[f].job = j PROVE FALSE
        OBVIOUS
      <4>1. f = e
        BY <1>5, <2>1 DEF HandsKept, HandsApart, ExclusiveExecution, Busy, RunHook
      <4> QED BY <1>2, <1>5, <4>1
    <3>4. hooks'[j] = <<>>
      BY <1>1, <3>1, <3>2, <3>3
    <3>5. CASE exec[e].result = "ok"
      <4>1. Is(j, "completed")'
        BY <3>1, <3>5, ReportedStays
      <4> QED BY <2>1, <3>4, <3>5, <4>1
    <3>6. CASE exec[e].result # "ok"
      <4>1. Is(j, "failed")'
        BY <3>1, <3>6, ReportedStays
      <4> QED BY <2>1, <3>4, <3>6, <4>1
    <3> QED BY <3>5, <3>6
  <2>2. CASE StoreResult(e) /\ GoesTo(e, "hook") /\ exec'[e].job = exec[e].job
    <3>1. Is(j, "running") /\ InHand(j) /\ Safe(j)
      BY <1>t, <1>5, <2>2 DEF StoreResult, Held, InHand, Busy, HandsKept, HandsSafe
    <3>2. hooks[j] = <<>> /\ hooks' = hooks
      BY <1>t, <2>2, <3>1 DEF ToldOf, Is, StoreResult
    <3> QED BY <1>5, <2>2, <3>1, <3>2, HookFollowsOutcome DEF Safe
  <2> QED BY <1>5, <2>1, <2>2, ExecFrom DEF Launch
<1>6. ASSUME NEW j \in JobIds, sweep' = j
      PROVE  hooks'[j] = <<>> /\ Is(j, "interrupted")'
  <2>1. CASE sweep = j
    <3>1. hooks[j] = <<>> /\ Is(j, "interrupted")
      BY <1>t, <2>1
    <3>2. ~InterruptedHook
      BY <1>0, <1>6 DEF InterruptedHook
    <3>3. \A f \in Slots : ~(RunHook(f) /\ exec[f].job = j)
      BY <1>2, <3>1 DEF Is
    <3> QED BY <1>1, <3>1, <3>2, <3>3, ReportedStays
  <2>2. CASE sweep # j
    <3>1. ASSUME NEW i \in JobIds, NEW force, TakeBack(i, force), UNCHANGED hooks
          PROVE  hooks'[j] = <<>> /\ Is(j, "interrupted")'
      <4>1. i = j /\ db'[j].status = "interrupted" /\ db[j].status = "running" /\ Exists(j)
        BY <1>0, <1>6, <2>2, <3>1 DEF TakeBack, Reclaimable
      <4>2. db'[j] = Reclaimed(db[j]) /\ db[j] \in Docs
        BY <1>0, <3>1, <4>1 DEF TakeBack, Write, Exists
      <4>3. db'[j] \in Docs
        BY <4>2, ReclaimedFacts
      <4>4. hooks[j] = <<>>
        BY <1>t, <4>1 DEF ToldOf, Is
      <4> QED BY <3>1, <4>1, <4>3, <4>4 DEF Is, Exists
    <3> QED BY <1>0, <1>6, <2>2, <3>1, TollSteps DEF TollStep, SweepLease, ReconcileJob, InterruptedHook, RunHook, Crash
  <2> QED BY <2>1, <2>2
<1>7. \A j \in JobIds : Held(j)' => Is(j, "running")'
  BY HeldRuns
<1>8. \A e \in Slots, j \in JobIds : exec'[e].at = "hook" /\ exec'[e].job = j =>
            /\ hooks'[j] = <<>>
            /\ Is(j, IF exec[e].result = "ok" THEN "completed" ELSE "failed")'
  BY <1>5
<1> QED BY <1>4, <1>6, <1>7, <1>8 DEF ToldTruly

\* The hook hears of a job once, and of the outcome the row records: with no
\* cancel (which lets a hook speak of a job it settled), no lease lapsing under an
\* executor and no store call that gives up.
THEOREM HooksTellTruth ==
    ASSUME ~ClockMayJump, ~MayGiveUp, MaxCancels = 0
    PROVE  Spec => []HookTellsOutcome
<1>1. Init => ToldTruly
  BY DEF Init, ToldTruly, ToldOf, Held, Launching, NoExec, NoDisp, Is, Exists
<1>2. Shaped /\ Uncancelled /\ HandsKept /\ ToldTruly /\ [Next]_vars => ToldTruly'
  <2>1. ASSUME ToldTruly, UNCHANGED vars PROVE ToldTruly'
    BY <2>1 DEF vars, ToldTruly, ToldOf, Held, Launching, Is, Exists
  <2> QED BY <2>1, ToldStep
<1>3. ToldTruly => HookTellsOutcome
  <2> SUFFICES ASSUME ToldTruly, NEW j \in JobIds, hooks[j] # <<>>
               PROVE  /\ Len(hooks[j]) = 1
                      /\ hooks[j] = <<"ok">> <=> Is(j, "completed")
                      /\ hooks[j] = <<"failed">> <=> Is(j, "failed") \/ Is(j, "interrupted")
    BY DEF HookTellsOutcome
  <2>1. \/ hooks[j] = <<"ok">> /\ Is(j, "completed")
        \/ hooks[j] = <<"failed">> /\ (Is(j, "failed") \/ Is(j, "interrupted"))
    BY DEF ToldTruly, ToldOf
  <2>2. <<"ok">> # <<"failed">> /\ Len(<<"ok">>) = 1 /\ Len(<<"failed">>) = 1
    OBVIOUS
  <2> QED BY <2>1, <2>2 DEF Is
<1> QED BY <1>1, <1>2, <1>3, NobodyCancels, HandsAlways, ShapedAlways, PTL DEF Spec
=============================================================================
