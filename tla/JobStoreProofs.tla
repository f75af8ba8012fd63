--------------------------- MODULE JobStoreProofs ---------------------------
(***************************************************************************)
(* Proofs about JobStore for all ids, boots and retry limits.  One lemma   *)
(* says what any transition of a row looks like; the invariants and the    *)
(* refinement of JobPromise then need no case analysis of their own.       *)
(***************************************************************************)
EXTENDS JobStore, TLAPS

\* The invariants of one row, the conjuncts of TypeOK, OwnedIffRunning and
\* StartsBounded at a row.
SoundDoc(d) ==
    /\ d \in Docs
    /\ (d.status = "running") <=> (d.boot \in Boots)
    /\ (d.status = "running") <=> (d.lease # "none")
    /\ d.retry <= MaxRetries
    /\ d.attempts <= MaxAttempts + d.retry
    /\ d.status = "pending" => d.attempts < MaxAttempts + d.retry

\* How a step may change a row: it keeps the status, or takes one of the edges
\* of the job's life cycle, and only a claim counts a start.
Edge(d, e) ==
    \/ e.status = d.status /\ e.attempts = d.attempts
    \/ d.status = "pending" /\ e.status = "running" /\ e.attempts = d.attempts + 1
    \/ d.status = "running" /\ e.status = "pending" /\ e.attempts = d.attempts
    \/ /\ d.status \in {"pending", "running", "interrupted"}
       /\ e.status \in Terminal
       /\ d.status = "interrupted" => e.status = "cancelled"
       /\ e.attempts = d.attempts

RowsSound == db \in [JobIds -> Docs \cup {NoJob}] /\ \A j \in JobIds : Exists(j) => SoundDoc(db[j])

\* A new row is pending, unowned and has every start ahead of it.
LEMMA NewDocSound ==
    ASSUME NEW info \in Infos, NEW due \in BOOLEAN
    PROVE  SoundDoc(NewDoc(info, due)) /\ NewDoc(info, due).status = "pending"
                                       /\ NewDoc(info, due).attempts = 0
BY JobDocAssumption DEF SoundDoc, NewDoc, Docs, Statuses

\* A row that leaves "running" (or is cancelled) with a status other than
\* running is sound if it has a start left whenever it goes back to pending.
LEMMA ReleasedSound ==
    ASSUME NEW d, SoundDoc(d), NEW s \in Statuses \ {"running"},
           s = "pending" => d.attempts < MaxAttempts + d.retry
    PROVE  SoundDoc(Released(d, s)) /\ Released(d, s).status = s
                                    /\ Released(d, s).attempts = d.attempts
                                    /\ Released(d, s).retry = d.retry
BY JobDocAssumption DEF SoundDoc, Released, Docs, Statuses

\* claimJob gives the row an owner and counts one start, which was left.
LEMMA ClaimedSound ==
    ASSUME NEW d, SoundDoc(d), NEW b \in Boots, Claimable(d)
    PROVE  SoundDoc(Claimed(d, b)) /\ Edge(d, Claimed(d, b))
<1>1. d \in Docs
  BY DEF SoundDoc
<1>2. Claimed(d, b) \in Docs
  <2>1. d.attempts + 1 \in Nat
    BY <1>1 DEF Docs
  <2>2. QED
    BY <1>1, <2>1 DEF Claimed, Docs, Statuses
<1>3. /\ Claimed(d, b).status = "running"
       /\ Claimed(d, b).attempts = d.attempts + 1
       /\ Claimed(d, b).retry = d.retry
       /\ Claimed(d, b).boot = b
       /\ Claimed(d, b).lease = "live"
  BY <1>1 DEF Claimed, Docs
<1>4. /\ d.status = "pending"
      /\ d.retry <= MaxRetries
      /\ d.attempts < MaxAttempts + d.retry
      /\ d.attempts \in Nat
      /\ d.retry \in Nat
  BY DEF SoundDoc, Claimable, Docs
<1>5. SoundDoc(Claimed(d, b))
  BY <1>2, <1>3, <1>4, JobDocAssumption DEF SoundDoc
<1>6. Edge(d, Claimed(d, b))
  BY <1>3, <1>4 DEF Edge
<1>7. QED
  BY <1>5, <1>6

\* renewLease changes nothing but the lease.
LEMMA RenewedSound ==
    ASSUME NEW d, SoundDoc(d), d.status = "running"
    PROVE  SoundDoc(Renewed(d)) /\ Edge(d, Renewed(d))
BY JobDocAssumption DEF SoundDoc, Renewed, Docs, Statuses, Edge

\* completeJob and a final failure take the owner away and are final.
LEMMA SettledSound ==
    ASSUME NEW d, SoundDoc(d), d.status = "running"
    PROVE  /\ SoundDoc(Completed(d)) /\ Edge(d, Completed(d))
           /\ SoundDoc(Failed(d)) /\ Edge(d, Failed(d))
BY ReleasedSound DEF Completed, Failed, Edge, Statuses, Terminal

\* A logical retry trades one unit of retry_count for the start it needs.
LEMMA FailedOrRetriedSound ==
    ASSUME NEW d, SoundDoc(d), d.status = "running"
    PROVE  SoundDoc(FailedOrRetried(d)) /\ Edge(d, FailedOrRetried(d))
<1>1. d.status = "running"
  OBVIOUS
<1>2. CASE d.retry >= MaxRetries
  BY <1>2, ReleasedSound DEF FailedOrRetried, Edge, Statuses, Terminal
<1>3. CASE ~(d.retry >= MaxRetries)
  <2> DEFINE e == [Released(d, "pending") EXCEPT !.retry = @ + 1, !.due = FALSE]
  <2>1. /\ d \in Docs
        /\ d.attempts \in Nat
        /\ d.retry \in Nat
        /\ d.attempts <= MaxAttempts + d.retry
    BY DEF SoundDoc, Docs
  <2>2. e \in Docs
    <3>1. d.retry + 1 \in Nat
      BY <2>1
    <3>2. QED
      BY <2>1, <3>1 DEF Released, Docs, Statuses
  <2>3. /\ e.status = "pending"
         /\ e.boot = NoBoot
         /\ e.lease = "none"
         /\ e.attempts = d.attempts
         /\ e.retry = d.retry + 1
    BY <2>1 DEF Released, Docs
  <2>4. SoundDoc(e)
    BY <1>3, <2>1, <2>2, <2>3, JobDocAssumption DEF SoundDoc
  <2>5. Edge(d, e)
    BY <1>1, <2>3 DEF Edge
  <2>6. FailedOrRetried(d) = e
    BY <1>3 DEF FailedOrRetried
  <2>7. QED
    BY <2>4, <2>5, <2>6
<1>4. QED
  BY <1>2, <1>3

\* A reclaim goes back to pending only below max_attempts.
LEMMA ReclaimedSound ==
    ASSUME NEW d, SoundDoc(d), d.status = "running"
    PROVE  SoundDoc(Reclaimed(d)) /\ Edge(d, Reclaimed(d))
<1>1. d.attempts \in Int /\ d.retry \in Nat
  BY DEF SoundDoc, Docs
<1>2. CASE d.attempts >= MaxAttempts
  BY <1>2, ReleasedSound DEF Reclaimed, Edge, Statuses, Terminal
<1>3. CASE ~(d.attempts >= MaxAttempts)
  <2>1. d.attempts < MaxAttempts + d.retry
    BY <1>1, <1>3, JobDocAssumption
  <2>2. QED
    BY <1>3, <2>1, ReleasedSound DEF Reclaimed, Edge, Statuses
<1>4. QED
  BY <1>2, <1>3

\* requestCancellation is final, from any status but a terminal one.
LEMMA CancelledSound ==
    ASSUME NEW d, SoundDoc(d), Cancellable(d)
    PROVE  SoundDoc(Cancelled(d)) /\ Edge(d, Cancelled(d))
<1>1. d.status \in {"pending", "running", "interrupted"}
  BY DEF Cancellable, SoundDoc, Docs, Statuses
<1>2. QED
  BY <1>1, ReleasedSound DEF Cancelled, Edge, Statuses, Terminal

\* The passage of time leaves a sound row sound.
LEMMA AgedSound ==
    ASSUME NEW d, SoundDoc(d)
    PROVE  /\ SoundDoc([d EXCEPT !.due = TRUE]) /\ Edge(d, [d EXCEPT !.due = TRUE])
           /\ d.lease = "live" => /\ SoundDoc([d EXCEPT !.lease = "expired"])
                                  /\ Edge(d, [d EXCEPT !.lease = "expired"])
BY DEF SoundDoc, Docs, Edge

-----------------------------------------------------------------------------
\* A step touches one row: it creates it, or moves it along an edge.
StepOf(j) ==
    \E d : /\ Write(j, d)
           /\ SoundDoc(d)
           /\ \/ ~Exists(j) /\ d.status = "pending" /\ d.attempts = 0
              \/ Exists(j) /\ Edge(db[j], d)

\* Whatever operation runs, one row takes one edge of the life cycle and the
\* others stay.
LEMMA StepShape ==
    ASSUME RowsSound, Next
    PROVE  \E j \in JobIds : StepOf(j)
<1>1. PICK j \in JobIds :
        \/ \E info \in Infos, due \in BOOLEAN : Create(j, info, due)
        \/ \E b \in Boots :
              \/ Claim(j, b)
              \/ RenewLease(j, b)
              \/ Complete(j, b)
              \/ Fail(j, b)
              \/ FailOrRetry(j, b)
        \/ \E force \in BOOLEAN : Reclaim(j, force)
        \/ Cancel(j)
        \/ BecomeDue(j)
        \/ LeaseLapse(j)
  BY DEF Next
<1>2. SUFFICES StepOf(j)
  OBVIOUS
<1>3. Exists(j) => SoundDoc(db[j])
  BY DEF RowsSound
<1>4. ASSUME NEW info \in Infos, NEW due \in BOOLEAN, Create(j, info, due)
      PROVE  StepOf(j)
  BY <1>4, NewDocSound DEF Create, StepOf
<1>5. ASSUME NEW b \in Boots, Claim(j, b)
      PROVE  StepOf(j)
  BY <1>3, <1>5, ClaimedSound DEF Claim, StepOf
<1>6. ASSUME NEW b \in Boots, RenewLease(j, b)
      PROVE  StepOf(j)
  BY <1>3, <1>6, RenewedSound DEF RenewLease, Owned, StepOf
<1>7. ASSUME NEW b \in Boots, Complete(j, b) \/ Fail(j, b)
      PROVE  StepOf(j)
  BY <1>3, <1>7, SettledSound DEF Complete, Fail, Owned, StepOf
<1>8. ASSUME NEW b \in Boots, FailOrRetry(j, b)
      PROVE  StepOf(j)
  BY <1>3, <1>8, FailedOrRetriedSound DEF FailOrRetry, Owned, StepOf
<1>9. ASSUME NEW force \in BOOLEAN, Reclaim(j, force)
      PROVE  StepOf(j)
  BY <1>3, <1>9, ReclaimedSound DEF Reclaim, Reclaimable, StepOf
<1>10. CASE Cancel(j)
  BY <1>3, <1>10, CancelledSound DEF Cancel, StepOf
<1>11. CASE BecomeDue(j) \/ LeaseLapse(j)
  BY <1>3, <1>11, AgedSound DEF BecomeDue, LeaseLapse, StepOf
<1>12. QED
  BY <1>1, <1>4, <1>5, <1>6, <1>7, <1>8, <1>9, <1>10, <1>11

\* The empty store is sound.
LEMMA RowsSoundInit == Init => RowsSound
BY DEF Init, RowsSound, Exists

\* Every operation keeps every row sound.
LEMMA RowsSoundStep == RowsSound /\ [Next]_db => RowsSound'
<1>1. SUFFICES ASSUME RowsSound, [Next]_db
               PROVE  RowsSound'
  OBVIOUS
<1>2. CASE Next
  <2>1. PICK j \in JobIds : StepOf(j)
    BY <1>1, <1>2, StepShape
  <2>2. PICK d : Write(j, d) /\ SoundDoc(d)
    BY <2>1 DEF StepOf
  <2>3. QED
    BY <1>1, <2>2 DEF RowsSound, Write, Exists, SoundDoc
<1>3. CASE UNCHANGED db
  BY <1>1, <1>3 DEF RowsSound, Exists
<1>4. QED
  BY <1>1, <1>2, <1>3

\* So rows are sound in every execution.
LEMMA RowsSoundAlways == Spec => []RowsSound
BY RowsSoundInit, RowsSoundStep, PTL DEF Spec

\* Every row the store ever holds is a well-formed JobDoc.
THEOREM Typing == Spec => []TypeOK
<1>1. RowsSound => TypeOK
  BY DEF RowsSound, TypeOK
<1>2. QED
  BY <1>1, RowsSoundAlways, PTL

\* A row has an owner and a lease exactly while it is running.
THEOREM Ownership == Spec => []OwnedIffRunning
<1>1. RowsSound => OwnedIffRunning
  BY DEF RowsSound, OwnedIffRunning, SoundDoc
<1>2. QED
  BY <1>1, RowsSoundAlways, PTL

\* No mix of crashes and retries starts a job more than max_attempts plus
\* maxRetries times.
THEOREM BoundedStarts == Spec => []StartsBounded
<1>1. RowsSound => StartsBounded
  BY DEF RowsSound, StartsBounded, SoundDoc
<1>2. QED
  BY <1>1, RowsSoundAlways, PTL

\* The three together, as the runs check them.
THEOREM Disciplined == Spec => []RowDiscipline
BY Typing, Ownership, BoundedStarts, PTL DEF RowDiscipline

\* A settled job is never reopened and its outcome is never rewritten.
THEOREM FinalOutcome == Spec => SettledIsFinal
<1> DEFINE Final == \A j \in JobIds : Exists(j) /\ db[j].status \in Terminal =>
                       /\ db'[j] # NoJob
                       /\ \/ db'[j].status = db[j].status
                          \/ db[j].status = "interrupted" /\ db'[j].status = "cancelled"
<1>1. ASSUME RowsSound, [Next]_db
      PROVE  [Final]_db
  <2>1. CASE Next
    <3>1. PICK j \in JobIds : StepOf(j)
      BY <1>1, <2>1, StepShape
    <3>2. PICK d : /\ Write(j, d)
                   /\ SoundDoc(d)
                   /\ ~Exists(j) \/ Edge(db[j], d)
      BY <3>1 DEF StepOf
    <3>3. d # NoJob
      BY <3>2, JobDocAssumption DEF SoundDoc
    <3>4. QED
      BY <1>1, <3>2, <3>3 DEF RowsSound, Write, Exists, Edge, Terminal
  <2>2. CASE UNCHANGED db
    BY <2>2
  <2>3. QED
    BY <1>1, <2>1, <2>2
<1>2. QED
  BY <1>1, RowsSoundAlways, PTL DEF Spec, SettledIsFinal

-----------------------------------------------------------------------------
\* An edge of a row is a step of the promise on its phase, or a stutter.
LEMMA EdgePromise ==
    ASSUME RowsSound, NEW j \in JobIds, StepOf(j)
    PROVE  \/ Promise!Submit(j) \/ Promise!Start(j) \/ Promise!GiveBack(j) \/ Promise!Settle(j)
           \/ UNCHANGED Promise!promiseVars
<1> DEFINE ph == [i \in JobIds |-> PhaseOf(db[i])]
           st == [i \in JobIds |-> StartsOf(db[i])]
<1>1. PICK d : /\ Write(j, d)
               /\ SoundDoc(d)
               /\ \/ ~Exists(j) /\ d.status = "pending" /\ d.attempts = 0
                  \/ Exists(j) /\ Edge(db[j], d)
  BY DEF StepOf
<1>2. d # NoJob
  BY <1>1, JobDocAssumption DEF SoundDoc
<1>3. db \in [JobIds -> Docs \cup {NoJob}] /\ (Exists(j) => SoundDoc(db[j]))
  BY DEF RowsSound
<1>4. /\ ph' = [ph EXCEPT ![j] = PhaseOf(d)]
      /\ st' = [st EXCEPT ![j] = StartsOf(d)]
  BY <1>1, <1>3 DEF Write
<1>5. CASE ~Exists(j)
  <2>1. ph[j] = "absent" /\ PhaseOf(d) = "waiting" /\ st[j] = 0 /\ StartsOf(d) = 0
    BY <1>1, <1>2, <1>5 DEF Exists, PhaseOf, StartsOf
  <2>2. st' = st
    BY <1>4, <2>1
  <2>3. Promise!Submit(j)
    BY <1>4, <2>1, <2>2 DEF Promise!Submit
  <2>4. QED
    BY <2>3
<1>6. CASE Exists(j)
  <2>1. Edge(db[j], d) /\ SoundDoc(db[j]) /\ db[j] # NoJob
    BY <1>1, <1>3, <1>6 DEF Exists
  <2>2. /\ ph[j] = PhaseOf(db[j])
        /\ st[j] = db[j].attempts
        /\ StartsOf(d) = d.attempts
    BY <1>2, <2>1 DEF StartsOf
  <2>3. /\ db[j].retry \in Nat /\ db[j].attempts \in Nat
        /\ d.retry \in Nat /\ d.attempts \in Nat
        /\ d.retry <= MaxRetries
        /\ db[j].retry <= MaxRetries
    BY <1>1, <2>1 DEF SoundDoc, Docs
  <2>4. CASE d.status = db[j].status /\ d.attempts = db[j].attempts
    <3>1. PhaseOf(d) = ph[j] /\ StartsOf(d) = st[j]
      BY <1>2, <2>1, <2>2, <2>4 DEF PhaseOf
    <3>2. ph' = ph /\ st' = st
      BY <1>4, <3>1
    <3>3. QED
      BY <3>2 DEF Promise!promiseVars
  <2>5. CASE db[j].status = "pending" /\ d.status = "running" /\ d.attempts = db[j].attempts + 1
    <3>1. ph[j] = "waiting" /\ PhaseOf(d) = "started"
      BY <1>2, <2>1, <2>2, <2>5 DEF PhaseOf
    <3>2. st[j] < MaxAttempts + MaxRetries
      BY <2>1, <2>2, <2>3, <2>5, JobDocAssumption DEF SoundDoc
    <3>3. st' = [st EXCEPT ![j] = @ + 1]
      BY <1>4, <2>2, <2>5
    <3>4. Promise!Start(j)
      BY <1>4, <3>1, <3>2, <3>3 DEF Promise!Start
    <3>5. QED
      BY <3>4
  <2>6. CASE db[j].status = "running" /\ d.status = "pending" /\ d.attempts = db[j].attempts
    <3>1. ph[j] = "started" /\ PhaseOf(d) = "waiting"
      BY <1>2, <2>1, <2>2, <2>6 DEF PhaseOf
    <3>2. st[j] < MaxAttempts + MaxRetries
      BY <1>1, <2>2, <2>3, <2>6, JobDocAssumption DEF SoundDoc
    <3>3. st' = st
      BY <1>4, <2>2, <2>6
    <3>4. Promise!GiveBack(j)
      BY <1>4, <3>1, <3>2, <3>3 DEF Promise!GiveBack
    <3>5. QED
      BY <3>4
  <2>7. CASE /\ db[j].status \in {"pending", "running", "interrupted"}
             /\ d.status \in Terminal
             /\ d.attempts = db[j].attempts
    <3>1. PhaseOf(d) = "settled" /\ ph[j] \in {"waiting", "started", "settled"}
      BY <1>2, <2>1, <2>2, <2>7 DEF PhaseOf, Terminal
    <3>2. st' = st
      BY <1>4, <2>2, <2>7
    <3>3. CASE ph[j] = "settled"
      <4>1. ph' = ph
        BY <1>4, <3>1, <3>3
      <4>2. QED
        BY <3>2, <4>1 DEF Promise!promiseVars
    <3>4. CASE ph[j] # "settled"
      BY <1>4, <3>1, <3>2, <3>4 DEF Promise!Settle
    <3>5. QED
      BY <3>3, <3>4
  <2>8. QED
    BY <2>1, <2>4, <2>5, <2>6, <2>7 DEF Edge
<1>7. QED
  BY <1>5, <1>6

\* The store implements JobPromise: for any ids, boots and limits, every job
\* waits, is started within the budget, and settles for good.
THEOREM KeepsPromise == Spec => PromiseKept
<1>1. Init => Promise!Init
  BY DEF Init, Promise!Init, PhaseOf, StartsOf
<1>2. ASSUME RowsSound, [Next]_db
      PROVE  [Promise!Next]_Promise!promiseVars
  <2>1. CASE Next
    <3>1. PICK j \in JobIds : StepOf(j)
      BY <1>2, <2>1, StepShape
    <3>2. QED
      BY <1>2, <3>1, EdgePromise DEF Promise!Next
  <2>2. CASE UNCHANGED db
    BY <2>2 DEF Promise!promiseVars
  <2>3. QED
    BY <1>2, <2>1, <2>2
<1>3. QED
  BY <1>1, <1>2, RowsSoundAlways, PTL DEF Spec, PromiseKept, Promise!Spec
=============================================================================
