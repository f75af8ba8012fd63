----------------------------- MODULE JobPromise -----------------------------
(***************************************************************************)
(* What the durable queue promises about one job, whatever crashes,        *)
(* retries and cancellations happen: it waits until somebody starts it,    *)
(* it is started at most Budget times, and once it is settled it stays     *)
(* settled.                                                                *)
(***************************************************************************)
EXTENDS Integers

CONSTANTS JobIds, Budget

VARIABLES
    phase,   \* phase[j]: "absent", "waiting", "started" or "settled"
    starts   \* starts[j]: how often j was handed to an executor

promiseVars == <<phase, starts>>

Init ==
    /\ phase = [j \in JobIds |-> "absent"]
    /\ starts = [j \in JobIds |-> 0]

Submit(j) ==
    /\ phase[j] = "absent"
    /\ phase' = [phase EXCEPT ![j] = "waiting"]
    /\ UNCHANGED starts

Start(j) ==
    /\ phase[j] = "waiting"
    /\ starts[j] < Budget
    /\ phase' = [phase EXCEPT ![j] = "started"]
    /\ starts' = [starts EXCEPT ![j] = @ + 1]

\* A retry or a reclaim, allowed only while another start is left.
GiveBack(j) ==
    /\ phase[j] = "started"
    /\ starts[j] < Budget
    /\ phase' = [phase EXCEPT ![j] = "waiting"]
    /\ UNCHANGED starts

Settle(j) ==
    /\ phase[j] \in {"waiting", "started"}
    /\ phase' = [phase EXCEPT ![j] = "settled"]
    /\ UNCHANGED starts

Next == \E j \in JobIds : Submit(j) \/ Start(j) \/ GiveBack(j) \/ Settle(j)

Spec == Init /\ [][Next]_promiseVars
=============================================================================
