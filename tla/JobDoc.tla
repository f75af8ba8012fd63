------------------------------- MODULE JobDoc -------------------------------
(***************************************************************************)
(* The row of the `jobQueue` collection and the transition each function   *)
(* of gateway/job-store.ts computes from the row it has read.              *)
(*                                                                         *)
(* Kept: status, both retry counters, the owner (boot_id), the lease and   *)
(* whether not_before has passed.  Clock values are abstracted to what the *)
(* guards tell apart: `due` is not_before <= now, a lease is live or       *)
(* expired.  `info` stands for the fields createJob writes once (lane,     *)
(* type, priority, idempotency_key).  Payload, result, error texts and     *)
(* timestamps no guard reads are left out.                                 *)
(***************************************************************************)
EXTENDS Integers

CONSTANTS
    JobIds,       \* ids nextId may hand out
    Infos,        \* what createJob stores and nothing rewrites
    Boots,        \* boot ids of the successive processes
    NoBoot,       \* boot_id: null
    NoJob,        \* no row under this id
    MaxAttempts,  \* max_attempts (default 2)
    MaxRetries    \* JobRetryPolicy.maxRetries (default 3)

Statuses == {"pending", "running", "completed", "failed", "cancelled", "interrupted"}

Docs == [info: Infos, status: Statuses, attempts: Nat, retry: Nat, due: BOOLEAN,
         boot: Boots \cup {NoBoot}, lease: {"none", "live", "expired"}]

ASSUME JobDocAssumption ==
    /\ MaxAttempts \in Nat \ {0}
    /\ MaxRetries \in Nat
    /\ NoBoot \notin Boots
    /\ NoJob \notin Docs

\* Statuses no executor leaves; cancelJob still rewrites "interrupted".
Terminal == {"completed", "failed", "cancelled", "interrupted"}

\* createJob
NewDoc(info, due) ==
    [info |-> info, status |-> "pending", attempts |-> 0, retry |-> 0, due |-> due,
     boot |-> NoBoot, lease |-> "none"]

\* The row loses its owner and its lease whenever it stops running.
Released(d, status) ==
    [d EXCEPT !.status = status, !.boot = NoBoot, !.lease = "none"]

\* Mutant of Claimable: the re-read status is not checked.
Claimable_anyStatus(d) == d.due

\* claimJob
Claimable(d) == d.status = "pending" /\ d.due
Claimed(d, b) ==
    [d EXCEPT !.status = "running", !.attempts = @ + 1, !.boot = b, !.lease = "live"]

\* The guard renewLease, completeJob, failJob and failJobOrRetry share.
Owned(d, b) == d.status = "running" /\ d.boot = b

Renewed(d) == [d EXCEPT !.lease = "live"]
Completed(d) == Released(d, "completed")

Failed(d) == Released(d, "failed")

\* failJobOrRetry: a retry waits out its backoff, so it is not due yet.
FailedOrRetried(d) ==
    IF d.retry >= MaxRetries
    THEN Released(d, "failed")
    ELSE [Released(d, "pending") EXCEPT !.retry = @ + 1, !.due = FALSE]

\* reclaimOrInterrupt
Reclaimable(d, force) ==
    d.status = "running" /\ (force \/ d.lease = "expired")
\* Mutants of Reclaimed: the owner is kept; the lost start is refunded.
Reclaimed_keepsOwner(d) ==
    [d EXCEPT !.status = IF d.attempts >= MaxAttempts THEN "interrupted" ELSE "pending"]
Reclaimed_refunds(d) ==
    [Released(d, IF d.attempts >= MaxAttempts THEN "interrupted" ELSE "pending")
       EXCEPT !.attempts = @ - 1]

Reclaimed(d) ==
    Released(d, IF d.attempts >= MaxAttempts THEN "interrupted" ELSE "pending")

\* Mutant of Cancellable: a failed job may be cancelled.
Cancellable_failedToo(d) == d.status \notin {"completed", "cancelled"}

\* cancelJob: no owner check, and "interrupted" is not excluded.
Cancellable(d) == d.status \notin {"completed", "failed", "cancelled"}
Cancelled(d) == Released(d, "cancelled")
=============================================================================
