--------------------------- MODULE CircuitBreaker ---------------------------
(***************************************************************************)
(* resilience/circuit-breaker.ts with several calls in flight.  execute    *)
(* decides and counts before its await, onSuccess and onFailure judge by   *)
(* the state they find when the call is over: a call that was admitted     *)
(* while the breaker was closed, or as a probe of an earlier half-open     *)
(* period, counts like a probe of the present one.                         *)
(*                                                                         *)
(* Left out: statistics, and what failures counts beyond the threshold,    *)
(* which nothing reads before it is set to 0.                              *)
(***************************************************************************)
EXTENDS Integers, FiniteSets

CONSTANTS
    Calls,              \* callers of execute, each again and again
    FailureThreshold, SuccessThreshold, HalfOpenMaxCalls

ASSUME BreakerAssumption ==
    /\ IsFiniteSet(Calls)
    /\ {FailureThreshold, SuccessThreshold, HalfOpenMaxCalls} \subseteq Nat \ {0}

VARIABLES
    state, failures, successes, halfOpenCalls,
    elapsed,    \* resetTimeout has passed since the last failure
    inFlight,   \* calls whose fn has not settled
    probes,     \* those of them this half-open period admitted (history)
    strays      \* calls of other periods that succeeded in this one (history)

breakerVars ==
    <<state, failures, successes, halfOpenCalls, elapsed, inFlight, probes, strays>>

BreakerInit ==
    /\ state = "closed"
    /\ failures = 0
    /\ successes = 0
    /\ halfOpenCalls = 0
    /\ elapsed = TRUE
    /\ inFlight = {}
    /\ probes = {}
    /\ strays = 0

\* transitionTo
Close ==
    /\ state' = "closed"
    /\ failures' = 0 /\ successes' = 0 /\ halfOpenCalls' = 0
    /\ probes' = {} /\ strays' = 0

\* Mutant of Open: the calls of this period stay counted.
Open_keepsCalls ==
    /\ state' = "open"
    /\ successes' = 0 /\ UNCHANGED halfOpenCalls
    /\ probes' = {} /\ strays' = 0

Open ==
    /\ state' = "open"
    /\ successes' = 0 /\ halfOpenCalls' = 0
    /\ probes' = {} /\ strays' = 0

\* execute up to the call of fn; an open breaker whose time is over goes
\* half-open first.
AdmitClosed(c) ==
    /\ c \notin inFlight /\ state = "closed"
    /\ inFlight' = inFlight \cup {c}
    /\ UNCHANGED <<state, failures, successes, halfOpenCalls, elapsed, probes, strays>>

AdmitProbe(c) ==
    /\ c \notin inFlight
    /\ state = "half-open" \/ (state = "open" /\ elapsed)
    /\ halfOpenCalls < HalfOpenMaxCalls
    /\ state' = "half-open"
    /\ halfOpenCalls' = halfOpenCalls + 1
    /\ inFlight' = inFlight \cup {c}
    /\ probes' = probes \cup {c}
    /\ UNCHANGED <<failures, successes, elapsed, strays>>

\* onSuccess
Succeed(c) ==
    /\ c \in inFlight
    /\ inFlight' = inFlight \ {c}
    /\ IF state # "half-open"
       THEN failures' = 0 /\ UNCHANGED <<state, successes, halfOpenCalls, probes, strays>>
       ELSE IF successes + 1 >= SuccessThreshold THEN Close
       ELSE /\ failures' = 0
            /\ successes' = successes + 1
            /\ halfOpenCalls' = halfOpenCalls - 1
            /\ probes' = probes \ {c}
            /\ strays' = IF c \in probes THEN strays ELSE strays + 1
            /\ UNCHANGED state
    /\ UNCHANGED elapsed

\* onFailure
Fail(c) ==
    /\ c \in inFlight
    /\ inFlight' = inFlight \ {c}
    /\ elapsed' = FALSE
    /\ failures' = IF failures < FailureThreshold THEN failures + 1 ELSE failures
    /\ IF state = "half-open" \/ (state = "closed" /\ failures' >= FailureThreshold) THEN Open
       ELSE UNCHANGED <<state, successes, halfOpenCalls, probes, strays>>

TimeIsUp ==
    /\ ~elapsed
    /\ elapsed' = TRUE
    /\ UNCHANGED <<state, failures, successes, halfOpenCalls, inFlight, probes, strays>>

Reset ==
    /\ Close
    /\ elapsed' = TRUE
    /\ UNCHANGED inFlight

ForceOpen ==
    /\ Open
    /\ elapsed' = FALSE
    /\ UNCHANGED <<failures, inFlight>>

BreakerNext ==
    \/ \E c \in Calls : AdmitClosed(c) \/ AdmitProbe(c) \/ Succeed(c) \/ Fail(c)
    \/ TimeIsUp \/ Reset \/ ForceOpen

BreakerSpec == BreakerInit /\ [][BreakerNext]_breakerVars
-----------------------------------------------------------------------------
(* Properties *)

BreakerTypeOK ==
    /\ state \in {"closed", "open", "half-open"}
    /\ failures \in Nat /\ successes \in Nat /\ strays \in Nat
    /\ halfOpenCalls \in Int
    /\ elapsed \in BOOLEAN
    /\ inFlight \subseteq Calls /\ probes \subseteq inFlight

\* What halfOpenMaxCalls really bounds: every call of another period that
\* succeeds makes room for one more probe, and there is at most one fewer of
\* those than successThreshold, since the last of them closes the breaker.  And
\* no call is counted that is not there: a breaker without probes admits one.
ProbesBounded ==
    state = "half-open" =>
        /\ halfOpenCalls <= Cardinality(probes)
        /\ Cardinality(probes) <= HalfOpenMaxCalls + SuccessThreshold - 1

\* The inductive form: the counter lags behind by the strays.
ProbesCounted ==
    /\ state = "half-open" =>
          /\ halfOpenCalls = Cardinality(probes) - strays
          /\ halfOpenCalls <= HalfOpenMaxCalls
          /\ strays <= successes /\ successes < SuccessThreshold
    /\ state # "half-open" =>
          halfOpenCalls = 0 /\ successes = 0 /\ strays = 0 /\ probes = {}
=============================================================================
