-------------------------- MODULE MCCronScheduler --------------------------
(* A recurring task, protected, and a one_shot; a missed one may be out of *)
(* grace.  Beside them, and never in the same behaviour, the calendar.     *)
EXTENDS CronScheduler, CronClock, TLC

CONSTANTS c1, k1, k2, e1, e2
OneCaller == {c1}
TwoCrons == {k1, k2}
TwoRuns == {e1, e2}
SomeTasks == {[kind |-> "recurring", policy |-> "fire_once", protect |-> TRUE, max |-> 0],
              [kind |-> "one_shot", policy |-> "fire_once", protect |-> FALSE, max |-> 1]}
SomeRoom == [recurring |-> 2, one_shot |-> 1]
Interchangeable == Permutations(TwoCrons) \cup Permutations(TwoRuns)

All == [kind |-> "all", a |-> 0, b |-> 0, step |-> 0]
One(n) == [kind |-> "one", a |-> n, b |-> n, step |-> 0]
From(a, b) == [kind |-> "range", a |-> a, b |-> b, step |-> 0]
Every(part, n) == [part EXCEPT !.step = n]
Job == [hour |-> {All}, minute |-> {One(0)}, dom |-> {All}, dow |-> {All}, domAndDow |-> FALSE,
        startAt |-> 0, stopAt |-> Never, interval |-> 0]
Days == {<<{All}, {All}, FALSE>>, <<{One(2)}, {One(2)}, TRUE>>, <<{One(2)}, {One(2)}, FALSE>>,
         <<{Every(From(1, 3), 2)}, {All}, FALSE>>}
SomeJobs ==
    {[Job EXCEPT !.minute = m, !.hour = h, !.dom = d[1], !.dow = d[2], !.domAndDow = d[3]] :
        m \in {{One(0)}, {Every(One(0), 1)}}, h \in {{All}, {One(2)}, {From(3, 1)}}, d \in Days}
    \cup {[Job EXCEPT !.interval = i, !.startAt = s, !.stopAt = e, !.minute = {All}] :
        i \in {0, 5}, s \in {0, 20}, e \in {Never, 31}}

NoClock == [Job EXCEPT !.hour = {}]
Off == [job |-> NoClock, now |-> 0, started |-> Never, busy |-> TRUE, armedAt |-> 0, next |-> Never]
EitherInit == (Init /\ clock = Off) \/ (Init /\ task.kind = "one_shot" /\ ClockInit)

\* Bounds: a one_shot gets its second date in the first process and if nothing throws
\* there; an await throws before the errors have passed MAX_ERRORS and, in the second
\* process, only with no error counted and no call beside it; a process is shut
\* down before anything has failed.
Small ==
    /\ throws + crashes > 0 => row.fire < 2
    /\ mode = "shut" => throws + failures = 0
    /\ throws > 0 => failures + rejected <= 2
    /\ throws > 0 /\ crashes > 0 => failures + rejected = 0 /\ Quiet

EitherNext == \/ clock = Off /\ Next /\ Small' /\ UNCHANGED clock
              \/ clock # Off /\ ClockNext /\ UNCHANGED cronVars
EitherSpec == EitherInit /\ [][EitherNext]_<<cronVars, clock>>
=============================================================================
