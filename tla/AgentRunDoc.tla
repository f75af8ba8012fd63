---------------------------- MODULE AgentRunDoc ----------------------------
(***************************************************************************)
(* The row of the `agentRuns` collection and what each function of         *)
(* agent/run-store.ts writes over it.  Every one of them is an updateDoc:  *)
(* a patch, whatever status and owner the row has by then.                 *)
(*                                                                         *)
(* Kept of state_json: how many iterations it counts and which tool calls  *)
(* its messages tell of.  Left out: the lease, which is written and        *)
(* renewed but which no function of the repository reads (findExpiredRuns  *)
(* has no caller), tokens, which bumpTurn adds in the same patch as turns, *)
(* times, error texts, and the truncation of a state over 1.5 MB.          *)
(***************************************************************************)
EXTENDS Naturals

CONSTANTS
    NoRun,     \* no row under this id
    NoState    \* state_json: ""

RunStatuses == {"running", "completed", "failed", "interrupted"}

Checkpoints == [iterations : Nat, known : SUBSET Nat]

Runs == [status : RunStatuses, boot : Nat, turns : Nat, goal_attempts : Nat,
         state : Checkpoints \cup {NoState}, pending : SUBSET Nat]

\* createRun
NewRun(b) ==
    [status |-> "running", boot |-> b, turns |-> 0, goal_attempts |-> 0,
     state |-> NoState, pending |-> {}]

\* checkpoint: the owner is taken over, the status left as it is.
Checkpointed(r, b, state, calls) ==
    [r EXCEPT !.state = state, !.pending = calls, !.boot = b]

\* bumpTurn
Bumped(r) == [r EXCEPT !.turns = @ + 1]

\* completeRun and failRun forget the checkpoint, interruptRun keeps it.
CompletedRun(r) == [r EXCEPT !.status = "completed", !.state = NoState, !.pending = {}]
FailedRun(r) == [r EXCEPT !.status = "failed", !.state = NoState, !.pending = {}]

InterruptedRun(r) == [r EXCEPT !.status = "interrupted"]

\* reclaimRun
ReclaimedRun(r, b) == [r EXCEPT !.status = "running", !.boot = b]

\* Mutant of Iterations: a resumed loop counts its iterations anew.
Iterations_anew(r) == 0

\* deserializeCheckpoint and the marks runAgent adds for calls it finds pending.
Iterations(r) == IF r.state = NoState THEN 0 ELSE r.state.iterations
\* Mutant of Known: pending calls leave no mark in the restored messages.
Known_noMarks(r) == IF r.state = NoState THEN {} ELSE r.state.known

Known(r) == IF r.state = NoState THEN {} ELSE r.state.known \cup r.pending
=============================================================================
