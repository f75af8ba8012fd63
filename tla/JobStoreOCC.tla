----------------------------- MODULE JobStoreOCC -----------------------------
(***************************************************************************)
(* The optimistic-concurrency loops of gateway/job-store.ts.  A call reads *)
(* the row and its version, returns early when the guard fails, otherwise  *)
(* computes the new row from that COPY and puts it with expectedVersion;   *)
(* the put fails if anybody wrote in between, the call sleeps and reads    *)
(* again, and gives up after MAX_RETRIES conflicts.  Callers interleave    *)
(* between the read and the put, which are both awaited.                   *)
(***************************************************************************)
EXTENDS JobDoc

CONSTANTS
    Callers,      \* concurrent callers of the store
    MAX_RETRIES,  \* MAX_RETRIES of job-store.ts
    MaxCalls      \* bound: calls started in one behaviour

ASSUME JobStoreOCCAssumption ==
    /\ MAX_RETRIES \in Nat \ {0}
    /\ MaxCalls \in Nat
    /\ JobIds # {} /\ Boots # {}

Ops == {"claim", "renew", "complete", "fail", "failOrRetry", "reclaim", "forceReclaim", "cancel"}

VARIABLES
    db,     \* the rows, as in JobStore
    ver,    \* ver[j]: HiveDB's version of row j, 0 while there is none
    call,   \* call[c]: what caller c is executing
    calls,  \* calls started so far
    wins    \* wins[j]: claimJob(j) calls that returned the row (history)

occVars == <<db, ver, call, calls, wins>>

Calls == [at: {"idle", "read", "put"}, op: Ops, job: JobIds, boot: Boots,
          copy: Docs \cup {NoJob}, version: Nat, attempt: Nat]

Guard(op, d, b) ==
    CASE op = "claim" -> Claimable(d)
      [] op \in {"renew", "complete", "fail", "failOrRetry"} -> Owned(d, b)
      [] op = "reclaim" -> Reclaimable(d, FALSE)
      [] op = "forceReclaim" -> Reclaimable(d, TRUE)
      [] op = "cancel" -> Cancellable(d)

Updated(op, d, b) ==
    CASE op = "claim" -> Claimed(d, b)
      [] op = "renew" -> Renewed(d)
      [] op = "complete" -> Completed(d)
      [] op = "fail" -> Failed(d)
      [] op = "failOrRetry" -> FailedOrRetried(d)
      [] op \in {"reclaim", "forceReclaim"} -> Reclaimed(d)
      [] op = "cancel" -> Cancelled(d)

\* A caller outside the store (the fields besides `at` mean nothing then).
Idle == [at |-> "idle", op |-> "cancel", job |-> CHOOSE j \in JobIds : TRUE,
         boot |-> CHOOSE b \in Boots : TRUE, copy |-> NoJob, version |-> 0, attempt |-> 0]

Init ==
    /\ db = [j \in JobIds |-> NoJob]
    /\ ver = [j \in JobIds |-> 0]
    /\ call = [c \in Callers |-> Idle]
    /\ calls = 0
    /\ wins = [j \in JobIds |-> 0]

\* createJob: nextId never repeats an id, so put(expectedVersion: 0) succeeds.
Create(j, info, due) ==
    /\ db[j] = NoJob
    /\ db' = [db EXCEPT ![j] = NewDoc(info, due)]
    /\ ver' = [ver EXCEPT ![j] = 1]
    /\ UNCHANGED <<call, calls, wins>>

Begin(c, op, j, b) ==
    /\ call[c].at = "idle"
    /\ calls < MaxCalls
    /\ calls' = calls + 1
    /\ call' = [call EXCEPT ![c] = [at |-> "read", op |-> op, job |-> j, boot |-> b,
                                    copy |-> NoJob, version |-> 0, attempt |-> 0]]
    /\ UNCHANGED <<db, ver, wins>>

\* Mutant of Admits: the early return after the read is missing.
Admits_unguarded(op, d, b) == d # NoJob

Admits(op, d, b) == d # NoJob /\ Guard(op, d, b)

\* `await c.get(jobId)` and the guards that follow it: an early return, or a
\* copy to compute the new row from.
Read(c) ==
    /\ call[c].at = "read"
    /\ LET k == call[c] IN
       call' = [call EXCEPT ![c] =
                  IF Admits(k.op, db[k.job], k.boot)
                  THEN [k EXCEPT !.at = "put", !.copy = db[k.job], !.version = ver[k.job]]
                  ELSE Idle]
    /\ UNCHANGED <<db, ver, calls, wins>>

\* HiveDB accepts a put only if the row still has the version that was read.
Accepts(c) == call[c].version = ver[call[c].job]

\* Mutant of PutOk: the version does not move.
PutOk_sameVersion(c) ==
    /\ call[c].at = "put"
    /\ Accepts(c)
    /\ LET j == call[c].job IN
       /\ db' = [db EXCEPT ![j] = Updated(call[c].op, call[c].copy, call[c].boot)]
       /\ wins' = [wins EXCEPT ![j] = IF call[c].op = "claim" THEN @ + 1 ELSE @]
    /\ call' = [call EXCEPT ![c] = Idle]
    /\ UNCHANGED <<ver, calls>>

PutOk(c) ==
    /\ call[c].at = "put"
    /\ Accepts(c)
    /\ LET j == call[c].job IN
       /\ db' = [db EXCEPT ![j] = Updated(call[c].op, call[c].copy, call[c].boot)]
       /\ ver' = [ver EXCEPT ![j] = @ + 1]
       /\ wins' = [wins EXCEPT ![j] = IF call[c].op = "claim" THEN @ + 1 ELSE @]
    /\ call' = [call EXCEPT ![c] = Idle]
    /\ UNCHANGED calls

\* catch: sleep and read again, or give up.
PutConflict(c) ==
    /\ call[c].at = "put"
    /\ ~Accepts(c)
    /\ LET k == call[c] IN
       call' = [call EXCEPT ![c] =
                  IF k.attempt + 1 < MAX_RETRIES
                  THEN [k EXCEPT !.at = "read", !.copy = NoJob, !.attempt = k.attempt + 1]
                  ELSE Idle]
    /\ UNCHANGED <<db, ver, calls, wins>>

\* Time passes for a row and for the copies callers hold of it alike: neither
\* not_before nor lease_expires_at is rewritten.
Aged(j, f(_)) ==
    /\ db' = [db EXCEPT ![j] = f(@)]
    /\ call' = [c \in Callers |->
                  IF call[c].at = "put" /\ call[c].job = j
                  THEN [call[c] EXCEPT !.copy = f(@)]
                  ELSE call[c]]
    /\ UNCHANGED <<ver, calls, wins>>

Due(d) == [d EXCEPT !.due = TRUE]
Lapsed(d) == [d EXCEPT !.lease = IF @ = "live" THEN "expired" ELSE @]

BecomeDue(j) == db[j] # NoJob /\ ~db[j].due /\ Aged(j, Due)
LeaseLapse(j) == db[j] # NoJob /\ db[j].lease = "live" /\ Aged(j, Lapsed)

Step(c) == Read(c) \/ PutOk(c) \/ PutConflict(c)

Next ==
    \/ \E j \in JobIds, info \in Infos, due \in BOOLEAN : Create(j, info, due)
    \/ \E c \in Callers, op \in Ops, j \in JobIds, b \in Boots : Begin(c, op, j, b)
    \/ \E c \in Callers : Step(c)
    \/ \E j \in JobIds : BecomeDue(j) \/ LeaseLapse(j)

Spec == Init /\ [][Next]_occVars
-----------------------------------------------------------------------------
TypeOK ==
    /\ db \in [JobIds -> Docs \cup {NoJob}]
    /\ ver \in [JobIds -> Nat]
    /\ call \in [Callers -> Calls]
    /\ calls \in 0..MaxCalls
    /\ wins \in [JobIds -> Nat]

\* What makes a put safe: a copy that still carries the current version IS the
\* current row, and the guard that let the call through still holds for it.
CopyIsCurrent ==
    \A c \in Callers : call[c].at = "put" =>
        LET j == call[c].job IN
        /\ call[c].version <= ver[j]
        /\ Guard(call[c].op, call[c].copy, call[c].boot)
        /\ Accepts(c) => call[c].copy = db[j]

\* "The claim pending->running path guarantees only one process wins the race
\* for the same job": every start counted in the row was handed to exactly one
\* caller of claimJob, so two callers never both leave with the same start.
OneWinnerPerStart ==
    \A j \in JobIds : wins[j] = IF db[j] = NoJob THEN 0 ELSE db[j].attempts

\* What the version check of put is there for, seen from both ends: no put that
\* is accepted is stale, and no start has two winners (job-store.ts:131).
NoStaleWinner == CopyIsCurrent /\ OneWinnerPerStart

\* The loops implement the atomic steps of JobStore: reading, conflicting,
\* retrying and giving up change no row.
Store == INSTANCE JobStore
ImplementsStore == Store!Spec
=============================================================================
