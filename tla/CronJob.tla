------------------------------ MODULE CronJob ------------------------------
(***************************************************************************)
(* scheduler/cron/job.ts: the timer of one Cron, as operators on a record. *)
(* The calendar is left out here (see CronClock): a recurring Cron always  *)
(* has a next occurrence, one with a date has one until the date is past.  *)
(***************************************************************************)
EXTENDS Naturals

\* fire: 0 for an expression, else the number of the date it was created with.
\* max: maxRuns, 0 for none.  busy: ocupado.  runs: corridas, counted up to max.
CronType == [fire : Nat, max : Nat, stopped : BOOLEAN, paused : BOOLEAN, armed : BOOLEAN,
             busy : BOOLEAN, runs : Nat]

\* A Cron nothing refers to any more.
NoCron == [fire |-> 0, max |-> 0, stopped |-> TRUE, paused |-> FALSE, armed |-> FALSE,
           busy |-> FALSE, runs |-> 0]

\* nextRun(): is there one?  past: the dates that are over.
HasNext(c, past) ==
    /\ ~c.stopped
    /\ c.max = 0 \/ c.runs < c.max
    /\ c.fire \notin past

Arm(c, past) == [c EXCEPT !.armed = ~c.paused /\ HasNext(c, past)]

NewCron(fire, max, past) ==
    Arm([NoCron EXCEPT !.fire = fire, !.max = max, !.stopped = FALSE], past)

PauseCron(c) == IF c.stopped THEN c ELSE [c EXCEPT !.paused = TRUE, !.armed = FALSE]

StopCron(c) == [c EXCEPT !.stopped = TRUE, !.paused = FALSE, !.armed = FALSE]

\* The head of trigger() and disparar(): the run is counted as it starts.
Begin(c) == [c EXCEPT !.armed = FALSE, !.busy = TRUE,
                      !.runs = IF c.runs < c.max THEN c.runs + 1 ELSE c.runs]

\* trigger() leaves the timer alone.
BeginByHand(c) == [Begin(c) EXCEPT !.armed = c.armed]

\* Mutant of EndScheduled: a run that throws is not followed by another.
EndScheduled_unarmed(c, past) == [c EXCEPT !.busy = FALSE]

\* The finally blocks: of a scheduled run, and of one started by hand.
EndScheduled(c, past) == Arm([c EXCEPT !.busy = FALSE], past)
EndByHand(c) == [c EXCEPT !.busy = FALSE]
=============================================================================
