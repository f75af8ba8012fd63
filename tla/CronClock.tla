----------------------------- MODULE CronClock -----------------------------
(***************************************************************************)
(* scheduler/cron/expression.ts, zoned-time.ts, next-run.ts and nextRun()  *)
(* of job.ts: when a recurring Cron is due, read off the wall clock of a   *)
(* zone that goes forward once and back once, while runs of any length     *)
(* follow one another.                                                     *)
(*                                                                         *)
(* Time is counted in half hours, and the code's second is one of them; a  *)
(* day of the small calendar has DayLength of them, a month MonthLength    *)
(* days and a week WeekLength.  The month field (never restricted here)    *)
(* and the year are left out.  The text of an expression is a sequence of  *)
(* parts for each field.                                                   *)
(***************************************************************************)
EXTENDS Integers, FiniteSetsExt

CONSTANTS
    DayLength, MonthLength, WeekLength,
    Forward, Back,  \* the instants the zone's clock goes forward, and back again
    Shift,          \* by how much
    Last,           \* the end of time (a bound)
    ClockJobs       \* the jobs: fields by name, dom_and_dow, window, interval

Never == -1

\* DESFASES_POSIBLES: two hours, one, and a half one.
Shifts == {4, 2, 1}

ASSUME ClockAssumption ==
    /\ {DayLength, MonthLength, WeekLength} \subseteq Nat \ {0}
    /\ {Forward, Back, Last} \subseteq Nat
    /\ Shift \in Shifts /\ Forward + Shift <= Back
    /\ \A job \in ClockJobs :
          /\ {job.startAt, job.interval} \subseteq Nat
          /\ job.stopAt \in Nat \cup {Never}

VARIABLE
    clock  \* job, now; next: proxima; armedAt: when it was computed;
           \* started: ultimoArranque; busy: a run is at work

-----------------------------------------------------------------------------
\* expandirCampo for one part: "all" for *, "one" for a number, "range" for a-b,
\* step 0 for none.  A range may wrap around.
Values(part, min, max) ==
    LET step == IF part.step = 0 THEN 1 ELSE part.step
        from == IF part.kind = "all" THEN min ELSE part.a
        to == CASE part.kind = "range" -> part.b
                [] part.kind = "one" /\ part.step = 0 -> part.a
                [] OTHER -> max
        Steps(x, y) == {v \in x..y : (v - x) % step = 0}
    IN IF from > to THEN Steps(from, max) \cup Steps(min, to) ELSE Steps(from, to)

Expand(parts, min, max) == UNION {Values(p, min, max) : p \in parts}
Restricts(parts) == \E p \in parts : p.kind # "all"

\* parseCronExpression: the last day of the week is also its first.
Fields(job) ==
    [times |-> {2 * h + m : h \in Expand(job.hour, 0, (DayLength \div 2) - 1),
                            m \in Expand(job.minute, 0, 1)},
     dom |-> Expand(job.dom, 1, MonthLength),
     dow |-> {d % WeekLength : d \in Expand(job.dow, 0, WeekLength)},
     domRestricted |-> Restricts(job.dom),
     dowRestricted |-> Restricts(job.dow)]

\* diaCasa
DayMatches(job, f, day) ==
    LET byMonth == (day % MonthLength) + 1 \in f.dom
        byWeek == day % WeekLength \in f.dow
    IN CASE ~f.domRestricted /\ ~f.dowRestricted -> TRUE
         [] f.domRestricted /\ f.dowRestricted ->
                IF job.domAndDow THEN byMonth /\ byWeek ELSE byMonth \/ byWeek
         [] f.domRestricted /\ ~f.dowRestricted -> byMonth
         [] OTHER -> byWeek

Matches(job, w) ==
    LET f == Fields(job) IN
    DayMatches(job, f, w \div DayLength) /\ w % DayLength \in f.times

\* toWallClock
Wall(t) == t + (IF t >= Forward /\ t < Back THEN Shift ELSE 0)

\* Mutant of ToInstant: the first repetition is not looked for.
ToInstant_second(w) ==
    LET Correct(t) == t + (w - Wall(t))
        t == Correct(Correct(Correct(w)))
    IN IF Wall(t) # w THEN Never ELSE t

\* toInstant: three corrections, then back to the first of two such hours.
ToInstant(w) ==
    LET Correct(t) == t + (w - Wall(t))
        t == Correct(Correct(Correct(w)))
        earlier == {t - d : d \in {d \in Shifts : Wall(t - d) = w}}
    IN IF Wall(t) # w THEN Never ELSE Min(earlier \cup {t})

\* nextOccurrence: day by day on the wall clock, from a second after from.
NextOccurrence(job, from) ==
    LET hits == {w \in Wall(from + 1)..Last : Matches(job, w) /\ ToInstant(w) # Never}
    IN IF hits = {} THEN Never ELSE ToInstant(Min(hits))

\* nextRun(): the window and the least time between two starts.
NextRun(job, from, started) ==
    LET first == NextOccurrence(job, from)
        opened == IF first # Never /\ first < job.startAt
                  THEN NextOccurrence(job, job.startAt - 1) ELSE first
        floor == started + job.interval
        spaced == IF job.interval > 0 /\ started # Never /\ opened < floor
                  THEN NextOccurrence(job, floor - 1) ELSE opened
        closed(t) == job.stopAt # Never /\ t > job.stopAt
    IN CASE opened = Never \/ opened < job.startAt \/ closed(opened) -> Never
         [] spaced = Never \/ closed(spaced) -> Never
         [] OTHER -> spaced
-----------------------------------------------------------------------------
Armed(job, now, started, busy) ==
    [job |-> job, now |-> now, started |-> started, busy |-> busy, armedAt |-> now,
     next |-> NextRun(job, now, started)]

ClockInit ==
    \E job \in ClockJobs, now \in 0..Last : clock = Armed(job, now, Never, FALSE)

Tick == clock.now < Last /\ clock' = [clock EXCEPT !.now = @ + 1]

\* The timer, perhaps late.  The start is of interest to an interval only.
ClockFires ==
    /\ ~clock.busy /\ clock.next # Never /\ clock.now >= clock.next
    /\ clock' = [clock EXCEPT !.busy = TRUE, !.next = Never, !.armedAt = clock.now,
                              !.started = IF clock.job.interval > 0 THEN clock.now ELSE Never]

\* A run ends and arms the next.
ClockRunEnds ==
    /\ clock.busy
    /\ clock' = Armed(clock.job, clock.now, clock.started, FALSE)

ClockNext == Tick \/ ClockFires \/ ClockRunEnds
ClockSpec == ClockInit /\ [][ClockNext]_clock
-----------------------------------------------------------------------------
\* Is the wall clock at t one it has shown before?
Repeated(t) == \E s \in 0..(t - 1) : Wall(s) = Wall(t)

\* The first instant after armedAt, in the window and not too soon after the
\* last start, whose wall clock the expression names for the first time.
DueRef(c) ==
    LET ok == {t \in (c.armedAt + 1)..Last :
                  /\ Matches(c.job, Wall(t)) /\ ~Repeated(t)
                  /\ t >= c.job.startAt
                  /\ c.started # Never => t >= c.started + c.job.interval}
    IN IF ok = {} \/ (c.job.stopAt # Never /\ Min(ok) > c.job.stopAt) THEN Never ELSE Min(ok)

\* The search from a repeated hour is another matter: see StrictlyAfter.
InOrder(c) == \A t \in {c.armedAt + 1, c.job.startAt} \cup
                       (IF c.started = Never THEN {} ELSE {c.started + c.job.interval}) : ~Repeated(t)

\* No occurrence is missed, invented in the hour that does not exist or doubled
\* in the one that occurs twice, wherever the search starts and whatever the
\* window and the interval cut off.
DueIsRight ==
    ~clock.busy /\ InOrder(clock) /\ (clock.next <= Last - Shift \/ clock.next = Never)
        /\ DueRef(clock) <= Last - Shift =>
        clock.next = DueRef(clock)

\* next-run.ts:84: the next time the expression holds, "strictly after" from.
StrictlyAfter == ~clock.busy /\ clock.next # Never => clock.next > clock.armedAt
=============================================================================
