------------------------------ MODULE JobStore ------------------------------
(***************************************************************************)
(* gateway/job-store.ts with every function as one atomic step on the      *)
(* collection.  JobStoreOCC shows that the read / guard / conditional put  *)
(* loops implement these steps; DurableQueue drives them.                  *)
(***************************************************************************)
EXTENDS JobDoc

VARIABLE db   \* db[j]: the row under id j, or NoJob

Exists(j) == db[j] # NoJob
Write(j, doc) == db' = [db EXCEPT ![j] = doc]

Init == db = [j \in JobIds |-> NoJob]

Create(j, info, due) == ~Exists(j) /\ Write(j, NewDoc(info, due))

Claim(j, b) == Exists(j) /\ Claimable(db[j]) /\ Write(j, Claimed(db[j], b))

RenewLease(j, b) == Exists(j) /\ Owned(db[j], b) /\ Write(j, Renewed(db[j]))

Complete(j, b) == Exists(j) /\ Owned(db[j], b) /\ Write(j, Completed(db[j]))

Fail(j, b) == Exists(j) /\ Owned(db[j], b) /\ Write(j, Failed(db[j]))

FailOrRetry(j, b) == Exists(j) /\ Owned(db[j], b) /\ Write(j, FailedOrRetried(db[j]))

Reclaim(j, force) == Exists(j) /\ Reclaimable(db[j], force) /\ Write(j, Reclaimed(db[j]))

Cancel(j) == Exists(j) /\ Cancellable(db[j]) /\ Write(j, Cancelled(db[j]))

\* Date.now() passes not_before, respectively lease_expires_at.
BecomeDue(j) ==
    /\ Exists(j)
    /\ ~db[j].due
    /\ Write(j, [db[j] EXCEPT !.due = TRUE])

LeaseLapse(j) ==
    /\ Exists(j)
    /\ db[j].lease = "live"
    /\ Write(j, [db[j] EXCEPT !.lease = "expired"])

Next ==
    \E j \in JobIds :
        \/ \E info \in Infos, due \in BOOLEAN : Create(j, info, due)
        \/ \E b \in Boots :
              \/ Claim(j, b)
              \/ RenewLease(j, b)
              \/ Complete(j, b)
              \/ Fail(j, b)
              \/ FailOrRetry(j, b)
        \/ \E force \in BOOLEAN : Reclaim(j, force)
        \/ Cancel(j)
        \/ BecomeDue(j)
        \/ LeaseLapse(j)

Spec == Init /\ [][Next]_db
-----------------------------------------------------------------------------
TypeOK == db \in [JobIds -> Docs \cup {NoJob}]

\* A row carries an owner and a lease exactly while it is running: every path
\* that leaves "running" must drop both, or a later process would find a row
\* that looks claimed and that nobody executes.
OwnedIffRunning ==
    \A j \in JobIds : Exists(j) =>
        /\ (db[j].status = "running") <=> (db[j].boot \in Boots)
        /\ (db[j].status = "running") <=> (db[j].lease # "none")

\* Crash reclaims and logical retries draw on separate counters but share
\* `attempts`: together they never start a job more than max_attempts plus
\* maxRetries times.  The status-dependent form is what each step preserves.
StartsBounded ==
    \A j \in JobIds : Exists(j) =>
        /\ db[j].retry <= MaxRetries
        /\ db[j].attempts <= MaxAttempts + db[j].retry
        /\ db[j].status = "pending" => db[j].attempts < MaxAttempts + db[j].retry

\* What every row the store holds looks like, whichever calls wrote it: a JobDoc,
\* owned exactly while it runs, within its budget of starts (job-store.ts:131,
\* :249, :305).
RowDiscipline == TypeOK /\ OwnedIffRunning /\ StartsBounded

\* A settled job is never reopened and its outcome is never rewritten, whoever
\* holds a late answer, with the one exception cancelJob makes: a job that was
\* interrupted can still be marked cancelled.
SettledIsFinal ==
    [][\A j \in JobIds : Exists(j) /\ db[j].status \in Terminal =>
          /\ db'[j] # NoJob
          /\ \/ db'[j].status = db[j].status
             \/ db[j].status = "interrupted" /\ db'[j].status = "cancelled"]_db

\* The store keeps the promise stated in JobPromise: its rows, read as phases,
\* move only the way the promise allows.
PhaseOf(d) ==
    IF d = NoJob THEN "absent"
    ELSE IF d.status = "pending" THEN "waiting"
    ELSE IF d.status = "running" THEN "started" ELSE "settled"
StartsOf(d) == IF d = NoJob THEN 0 ELSE d.attempts

Promise == INSTANCE JobPromise WITH
    Budget <- MaxAttempts + MaxRetries,
    phase <- [j \in JobIds |-> PhaseOf(db[j])],
    starts <- [j \in JobIds |-> StartsOf(db[j])]

PromiseKept == Promise!Spec
=============================================================================
