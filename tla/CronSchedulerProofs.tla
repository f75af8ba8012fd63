------------------------ MODULE CronSchedulerProofs ------------------------
(***************************************************************************)
(* Memory and row of one scheduled task agree, and its executions exclude  *)
(* each other, for any number of calls, Crons, executions, failures and    *)
(* restarts.                                                               *)
(*                                                                         *)
(* Each Cron by itself (OneCron): its timer and its scheduled runs exclude *)
(* each other, and one of the two is there as long as a recurring task is  *)
(* neither paused nor stopped.                                             *)
(*                                                                         *)
(* The row: what executions and handleError() counted is in it (Counted),  *)
(* and an execution on its way to pause, to deactivate or to handleError() *)
(* has reason to (Heavy). Until an await throws, a task with too many      *)
(* errors that is still active is about to be paused by an execution, a    *)
(* call or the boot (Exhausting).                                          *)
(*                                                                         *)
(* The calls: unless two overlapped or one broke off, one is under way at  *)
(* a time and every live Cron is the one in the map (NoneLost). What the   *)
(* row and the map                                                         *)
(* say of each other is then known at each await of that call (Underway),  *)
(* and when it returns they agree (Settled). An execution that stops a     *)
(* task somebody resumed does so only where a call has just read too many  *)
(* errors (Excused).                                                       *)
(*                                                                         *)
(* The calendar: outside the repeated hour the wall clock is increasing,   *)
(* and toInstant is its inverse (InstantFacts); so the least wall clock    *)
(* that matches is shown at the least instant that does (OccurrenceFacts), *)
(* and the three searches of nextRun() together find the first instant in  *)
(* the window and after the interval (RunFacts).                           *)
(***************************************************************************)
EXTENDS CronScheduler, CronClock, FiniteSetTheorems, WellFoundedInduction, TLAPS

RowType == [status : Statuses \cup {"none", "deleted"}, errors : Nat, fire : 0..MaxFire]
ExecutionPlaces ==
    {"idle", "read", "work", "complete", "retire", "count", "pause", "deactivate", "notify", "end"}

\* An execution; what handleError() leaves behind belongs to no Cron.
RunType ==
    {r \in [cron : Crons \cup {NoJob}, via : {"none", "timer", "hand", "boot"},
            at : ExecutionPlaces \cup {"error"}] : r.at = "error" => r.cron = NoJob}
CallType == [op : {"none", "activate", "catchup", "resume", "edit", "reschedule", "pause"},
             at : {"idle", "stop", "start", "write", "remove", "fail", "catchup"},
             doc : RowType]
FireType == [fire : 0..MaxFire, max : Nat, stopped : BOOLEAN, paused : BOOLEAN, armed : BOOLEAN,
             busy : BOOLEAN, runs : Nat]

\* What the variables may hold; a recurring task has no date.
Typed ==
    /\ task \in Tasks
    /\ row \in RowType
    /\ crons \in [Crons -> FireType] /\ jobs \in Crons \cup {NoJob}
    /\ run \in [Runs -> RunType]
    /\ call \in [Everyone -> CallType]
    /\ past \in SUBSET (1..MaxFire)
    /\ mode \in {"up", "shut", "down"}
    /\ upset \in BOOLEAN
    /\ Recurring => row.fire = 0 /\ \A c \in Everyone : call[c].doc.fire = 0

Of(e, k) == run[e].cron = k
Chained(e, k) == run[e].cron = k /\ run[e].via = "timer"

\* One Cron: its timer and its scheduled runs exclude each other, and one of them
\* is there as long as a recurring task without a limit is neither paused nor
\* stopped.
OneCron(k) ==
    /\ crons[k].armed => ~crons[k].stopped /\ ~crons[k].paused /\ \A e \in Runs : ~Chained(e, k)
    /\ \A e, f \in Runs : Chained(e, k) /\ Chained(f, k) => e = f
    /\ crons[k].busy => \E e \in Runs : Of(e, k)
    /\ ~crons[k].stopped => crons[k].max = task.max /\ (Recurring => crons[k].fire = 0)
    /\ Recurring /\ task.max = 0 /\ ~crons[k].stopped /\ ~crons[k].paused
       => crons[k].armed \/ \E e \in Runs : Chained(e, k)
    /\ k = jobs => ~crons[k].stopped

\* The row and what its executions have counted; before it is there, and between
\* two processes, nothing else is.
Nothing ==
    /\ crons = [k \in Crons |-> NoCron] /\ jobs = NoJob
    /\ run = [e \in Runs |-> NoRun]
    /\ call = [c \in Everyone |-> Idle]
Blank ==
    /\ row.status = "none" => failures = 0 /\ rejected = 0 /\ row = NoRow /\ Nothing
    /\ mode = "down" => Nothing /\ upset = FALSE
Reason(e) ==
    /\ run[e].at \in {"pause", "deactivate"} => ~Exists(row) \/ row.errors >= MaxErrors
    /\ run[e].at \in {"complete", "retire"} => ~Exists(row) \/ ~Recurring
    /\ run[e].at = "error" => throws # 0
Heavy == \A e \in Runs : Reason(e)
Tallies == failures \in Nat /\ rejected \in Nat /\ throws \in Nat
Counted == ErrorsCounted /\ Tallies /\ Blank /\ Heavy

\* A call that works with an active row which has too many errors.
Finds(c) ==
    call[c].at \in {"stop", "start"} /\ call[c].doc.status = "active" /\ call[c].doc.errors >= MaxErrors

\* A task with too many errors that is still active is about to be paused.
Noticed ==
    \/ \E e \in Runs : run[e].at = "pause"
    \/ \E c \in Everyone : Finds(c)
    \/ call[Boot].at = "fail"
Exhausting ==
    mode # "down" /\ throws = 0 /\ row.status = "active" /\ row.errors >= MaxErrors => Noticed

Ghost == jobs = NoJob \/ crons[jobs].paused

\* What holds when a call has done its work.
Settled ==
    /\ row.status = "active" /\ Recurring => ~Ghost
    /\ row.status \in {"paused", "cancelled"} /\ row.errors < MaxErrors => Ghost
    /\ ~Exists(row) => jobs = NoJob

\* The document of a call in activate() is the row but for what executions did.
Current(c) ==
    /\ Exists(row)
    /\ row.status = "active" => call[c].doc.status = "active"
    /\ row.status \in {"paused", "cancelled"} /\ row.errors < MaxErrors =>
          call[c].doc.status = row.status
    /\ call[c].doc.errors <= row.errors

\* And before that.
Underway(c) ==
    /\ call[c].at = "write" => (call[c].op = "pause" => Ghost) /\ (~Exists(row) => jobs = NoJob)
    /\ call[c].at = "remove" => jobs = NoJob
    /\ call[c].at \in {"stop", "start"} => Current(c)
    /\ call[c].at = "start" =>
          jobs = NoJob /\ call[c].doc.status \notin {"paused", "completed", "cancelled"}
    /\ call[c].at = "fail" => Exists(row)

OneCall == \A c, d \in Everyone : call[c].at # "idle" /\ call[d].at # "idle" => c = d
NoneLost == \A k \in Crons : ~crons[k].stopped => k = jobs
AllUnderway == \A c \in Everyone : Underway(c)
Returned == (\A c \in Everyone : call[c].at \in {"idle", "catchup"}) => Settled
Excused ==
    \A e \in Runs : run[e].at = "deactivate" /\ Recurring /\ row.status = "active" =>
        \E c \in Everyone : Finds(c)
Ordered == OneCall /\ NoneLost /\ AllUnderway /\ Returned /\ Excused

Serial == mode = "up" /\ ~upset => Ordered

Inv == Typed /\ (\A k \in Crons : OneCron(k)) /\ Counted /\ Exhausting /\ Serial

\* A Cron and what job.ts does to it.
LEMMA CronParts ==
    ASSUME NEW c \in FireType
    PROVE  /\ c.fire \in 0..MaxFire /\ c.max \in Nat /\ c.runs \in Nat
           /\ c.stopped \in BOOLEAN /\ c.paused \in BOOLEAN /\ c.armed \in BOOLEAN /\ c.busy \in BOOLEAN
BY DEF FireType

\* A slot that holds no Cron looks like a stopped one without a timer.
LEMMA NoCronFacts ==
    /\ NoCron \in FireType /\ NoCron.stopped = TRUE /\ NoCron.armed = FALSE
    /\ NoCron.busy = FALSE /\ NoCron.paused = FALSE /\ NoCron.max = 0 /\ NoCron.fire = 0
BY CronAssumption DEF NoCron, FireType, CronAssumption

\* Cron.stop() is final and clears the timer; a run in progress goes on.
LEMMA StopFacts ==
    ASSUME NEW c \in FireType
    PROVE  StopCron(c) \in FireType /\ StopCron(c).stopped = TRUE /\ StopCron(c).armed = FALSE /\ StopCron(c).busy = c.busy
BY DEF StopCron, FireType

\* Cron.pause() clears the timer of a live Cron and does nothing to a stopped
\* one.
LEMMA PauseFacts ==
    ASSUME NEW c \in FireType
    PROVE  /\ PauseCron(c) \in FireType /\ PauseCron(c).stopped = c.stopped /\ PauseCron(c).busy = c.busy
           /\ PauseCron(c).max = c.max /\ PauseCron(c).fire = c.fire
           /\ c.stopped = FALSE => PauseCron(c).armed = FALSE /\ PauseCron(c).paused = TRUE
           /\ c.stopped = TRUE => PauseCron(c) = c
BY DEF PauseCron, FireType

\* A timer is set only for a live, unpaused Cron, and always for one without a
\* limit whose next date is ahead.
LEMMA ArmFacts ==
    ASSUME NEW c \in FireType, NEW p
    PROVE  /\ Arm(c, p) \in FireType /\ Arm(c, p).stopped = c.stopped /\ Arm(c, p).busy = c.busy
           /\ Arm(c, p).max = c.max /\ Arm(c, p).fire = c.fire /\ Arm(c, p).paused = c.paused
           /\ Arm(c, p).armed = TRUE => c.paused = FALSE /\ c.stopped = FALSE
           /\ c.paused = FALSE /\ c.stopped = FALSE /\ c.max = 0 /\ c.fire \notin p => Arm(c, p).armed = TRUE
BY DEF Arm, HasNext, FireType

\* When its timer fires, a Cron becomes busy and has no timer.
LEMMA BeginFacts ==
    ASSUME NEW c \in FireType
    PROVE  /\ Begin(c) \in FireType /\ Begin(c).stopped = c.stopped /\ Begin(c).busy = TRUE
           /\ Begin(c).max = c.max /\ Begin(c).fire = c.fire /\ Begin(c).paused = c.paused /\ Begin(c).armed = FALSE
<1>1. PICK d : d = Begin(c)
  OBVIOUS
<1>2. PICK n : n = IF c.runs < c.max THEN c.runs + 1 ELSE c.runs
  OBVIOUS
<1>3. n \in Nat
  BY <1>2, CronParts
<1>4. d = [c EXCEPT !.armed = FALSE, !.busy = TRUE, !.runs = n]
  BY <1>1, <1>2 DEF Begin
<1> QED
  BY <1>1, <1>3, <1>4, ZenonT(30) DEF FireType

\* A triggered run makes the Cron busy and leaves its timer alone.
LEMMA BeginByHandFacts ==
    ASSUME NEW c \in FireType
    PROVE  /\ BeginByHand(c) \in FireType /\ BeginByHand(c).stopped = c.stopped /\ BeginByHand(c).busy = TRUE
           /\ BeginByHand(c).max = c.max /\ BeginByHand(c).fire = c.fire /\ BeginByHand(c).paused = c.paused /\ BeginByHand(c).armed = c.armed
<1>1. PICK d : d = BeginByHand(c)
  OBVIOUS
<1>2. PICK b : b = Begin(c)
  OBVIOUS
<1>3. /\ b \in FireType /\ b.stopped = c.stopped /\ b.busy = TRUE
      /\ b.max = c.max /\ b.fire = c.fire /\ b.paused = c.paused
  BY <1>2, BeginFacts
<1>4. d = [b EXCEPT !.armed = c.armed]
  BY <1>1, <1>2 DEF BeginByHand
<1> QED
  BY <1>1, <1>3, <1>4, CronParts DEF FireType

\* The end of a triggered run leaves the timer alone.
LEMMA EndByHandFacts ==
    ASSUME NEW c \in FireType
    PROVE  /\ EndByHand(c) \in FireType /\ EndByHand(c).stopped = c.stopped /\ EndByHand(c).busy = FALSE
           /\ EndByHand(c).max = c.max /\ EndByHand(c).fire = c.fire /\ EndByHand(c).paused = c.paused /\ EndByHand(c).armed = c.armed
BY DEF EndByHand, FireType

\* The end of a scheduled run sets the next timer, unless the Cron is paused,
\* stopped or done.
LEMMA EndScheduledFacts ==
    ASSUME NEW c \in FireType, NEW p
    PROVE  /\ EndScheduled(c, p) \in FireType /\ EndScheduled(c, p).stopped = c.stopped /\ EndScheduled(c, p).busy = FALSE
           /\ EndScheduled(c, p).max = c.max /\ EndScheduled(c, p).fire = c.fire /\ EndScheduled(c, p).paused = c.paused
           /\ EndScheduled(c, p).armed = TRUE => c.paused = FALSE /\ c.stopped = FALSE
           /\ c.paused = FALSE /\ c.stopped = FALSE /\ c.max = 0 /\ c.fire \notin p => EndScheduled(c, p).armed = TRUE
<1>1. PICK d : d = EndScheduled(c, p)
  OBVIOUS
<1>2. PICK b : b = EndByHand(c)
  OBVIOUS
<1>3. /\ b \in FireType /\ b.stopped = c.stopped /\ b.busy = FALSE
      /\ b.max = c.max /\ b.fire = c.fire /\ b.paused = c.paused
  BY <1>2, EndByHandFacts
<1>4. d = Arm(b, p)
  BY <1>1, <1>2 DEF EndScheduled, EndByHand
<1>5. /\ d \in FireType /\ d.stopped = b.stopped /\ d.busy = b.busy
      /\ d.max = b.max /\ d.fire = b.fire /\ d.paused = b.paused
      /\ d.armed = TRUE => b.paused = FALSE /\ b.stopped = FALSE
      /\ b.paused = FALSE /\ b.stopped = FALSE /\ b.max = 0 /\ b.fire \notin p => d.armed = TRUE
  BY <1>3, <1>4, ArmFacts
<1> QED
  BY <1>1, <1>3, <1>5

\* The parameters and the task.
LEMMA Basics ==
    /\ NoJob \notin Crons /\ MaxErrors \in Nat /\ MaxFire \in Nat /\ MaxFire >= 1
    /\ Boot \in Everyone /\ \A c \in Callers : c \in Everyone
    /\ \A t \in Tasks : t.kind \in {"recurring", "one_shot"} /\ t.max \in Nat
BY CronAssumption DEF CronAssumption, Everyone

\* Rows, executions and calls by their parts.
LEMMA RowParts ==
    ASSUME NEW r \in RowType
    PROVE  /\ r.status \in Statuses \cup {"none", "deleted"} /\ r.errors \in Nat
           /\ r.fire \in 0..MaxFire
BY DEF RowType

\* The fields of an execution.
LEMMA RunParts ==
    ASSUME NEW r \in RunType
    PROVE  /\ r.cron \in Crons \cup {NoJob} /\ r.via \in {"none", "timer", "hand", "boot"}
           /\ r.at \in ExecutionPlaces \cup {"error"} /\ (r.at = "error" => r.cron = NoJob)
BY DEF RunType

\* The fields of a scheduler call.
LEMMA CallParts ==
    ASSUME NEW r \in CallType
    PROVE  /\ r.op \in {"none", "activate", "catchup", "resume", "edit", "reschedule", "pause"}
           /\ r.at \in {"idle", "stop", "start", "write", "remove", "fail", "catchup"}
           /\ r.doc \in RowType
BY DEF CallType

\* The empty row, execution and call are well formed.
LEMMA EmptyFacts ==
    /\ NoRow \in RowType /\ NoRow.status = "none" /\ NoRow.errors = 0 /\ NoRow.fire = 0
    /\ NoRun \in RunType /\ NoRun.cron = NoJob /\ NoRun.via = "none" /\ NoRun.at = "idle"
    /\ Detached \in RunType /\ Detached.cron = NoJob /\ Detached.via = "none" /\ Detached.at = "error"
    /\ Idle \in CallType /\ Idle.at = "idle" /\ Idle.op = "none" /\ Idle.doc = NoRow
<1>1. NoRun = [cron |-> NoJob, via |-> "none", at |-> "idle"]
  BY DEF NoRun
<1>2. NoRun \in RunType /\ NoRun.cron = NoJob /\ NoRun.via = "none" /\ NoRun.at = "idle"
  BY <1>1 DEF RunType, ExecutionPlaces
<1>3. Detached = [cron |-> NoJob, via |-> "none", at |-> "error"]
  BY <1>1 DEF Detached
<1>4. Detached \in RunType /\ Detached.cron = NoJob /\ Detached.via = "none" /\ Detached.at = "error"
  BY <1>3 DEF RunType
<1>5. NoRow \in RowType /\ NoRow.status = "none" /\ NoRow.errors = 0 /\ NoRow.fire = 0
  BY Basics DEF NoRow, Row, RowType, Statuses
<1> QED
  BY <1>2, <1>4, <1>5 DEF Idle, CallType

\* The status is all updateJob changes here, and only in a row that is there.
LEMMA StatusFacts ==
    ASSUME row \in RowType, NEW s \in Statuses, SetStatus(s)
    PROVE  /\ row' \in RowType /\ row'.errors = row.errors /\ row'.fire = row.fire
           /\ Exists(row) => row'.status = s
           /\ ~Exists(row) => row' = row
<1>1. CASE Exists(row)
  <2>1. row' = [row EXCEPT !.status = s]
    BY <1>1 DEF SetStatus
  <2> QED
    BY <1>1, <2>1 DEF RowType
<1>2. CASE ~Exists(row)
  BY <1>2 DEF SetStatus
<1> QED
  BY <1>1, <1>2

\* The patch of a call.
LEMMA PatchFacts ==
    ASSUME Typed, NEW o, NEW s \in Statuses, NEW r, r = Patched(o, s)
    PROVE  /\ r \in RowType /\ r.errors = row.errors /\ (Recurring => r.fire = 0)
           /\ r.status = IF o = "pause" THEN "paused" ELSE IF o = "resume" THEN "active" ELSE s
<1>1. row \in RowType /\ row.fire \in 0..MaxFire /\ (Recurring => row.fire = 0)
  BY RowParts DEF Typed
<1>2. CASE o = "pause"
  <2>1. r = [row EXCEPT !.status = "paused"]
    BY <1>2 DEF Patched
  <2> QED
    BY <1>1, <1>2, <2>1 DEF RowType, Statuses
<1>3. CASE o = "resume"
  <2>1. r = [row EXCEPT !.status = "active"]
    BY <1>3 DEF Patched
  <2> QED
    BY <1>1, <1>3, <2>1 DEF RowType, Statuses
<1>4. CASE o = "reschedule" /\ ~Recurring /\ row.fire < MaxFire
  <2>1. PICK f : f = row.fire + 1
    OBVIOUS
  <2>2. f \in 0..MaxFire
    BY <1>1, <1>4, <2>1, Basics
  <2>3. r = [row EXCEPT !.status = s, !.fire = f]
    BY <1>4, <2>1 DEF Patched
  <2> QED
    BY <1>1, <1>4, <2>2, <2>3 DEF RowType, Statuses
<1>5. CASE o \notin {"pause", "resume"} /\ ~(o = "reschedule" /\ ~Recurring /\ row.fire < MaxFire)
  <2>1. r = [row EXCEPT !.status = s]
    BY <1>5 DEF Patched
  <2> QED
    BY <1>1, <1>5, <2>1 DEF RowType, Statuses
<1> QED
  BY <1>2, <1>3, <1>4, <1>5

\* deactivate() stops the Cron of the map and touches no other that anything
\* refers to.
LEMMA SilencedFacts ==
    ASSUME Typed, NEW cs, cs = [k \in Crons |-> IF k = jobs THEN StopCron(crons[k]) ELSE crons[k]],
           NEW ds, ds = Collected(cs, NoJob, run)
    PROVE  /\ ds \in [Crons -> FireType]
           /\ \A k \in Crons :
                 \/ ds[k] = crons[k] /\ k # jobs
                 \/ /\ ds[k].stopped = TRUE /\ ds[k].armed = FALSE
                    /\ ds[k].busy = TRUE => crons[k].busy = TRUE
                    /\ k = jobs \/ crons[k].stopped = TRUE
<1>1. ASSUME NEW k \in Crons
      PROVE  /\ cs[k] \in FireType /\ (k # jobs => cs[k] = crons[k])
             /\ k = jobs => cs[k].stopped = TRUE /\ cs[k].armed = FALSE /\ cs[k].busy = crons[k].busy
  <2>1. crons[k] \in FireType /\ cs[k] = IF k = jobs THEN StopCron(crons[k]) ELSE crons[k]
    BY DEF Typed
  <2>2. CASE k = jobs
    <3>1. cs[k] = StopCron(crons[k])
      BY <2>1, <2>2
    <3> QED
      BY <2>1, <2>2, <3>1, StopFacts
  <2>3. CASE k # jobs
    BY <2>1, <2>3
  <2> QED
    BY <2>2, <2>3
<1>2. cs \in [Crons -> FireType]
  BY <1>1
<1>3. /\ ds \in [Crons -> FireType]
      /\ \A k \in Crons :
            \/ ds[k] = cs[k]
            \/ ds[k] = NoCron /\ cs[k].stopped = TRUE /\ \A e \in Runs : run[e].cron # k
  <2>1. ds = [k \in Crons |-> IF cs[k].stopped /\ k # NoJob /\ \A e \in Runs : run[e].cron # k
                              THEN NoCron ELSE cs[k]]
    BY DEF Collected
  <2>2. \A k \in Crons : cs[k].stopped \in BOOLEAN
    BY <1>1, CronParts
  <2>3. ASSUME NEW k \in Crons
        PROVE  \/ ds[k] = cs[k]
               \/ ds[k] = NoCron /\ cs[k].stopped = TRUE /\ \A e \in Runs : run[e].cron # k
    BY <2>1, <2>2
  <2>4. \A k \in Crons : ds[k] \in FireType
    BY <1>1, <2>3, NoCronFacts
  <2>5. ds \in [Crons -> FireType]
    BY <2>1, <2>4
  <2> QED
    BY <2>3, <2>5
<1>4. ASSUME NEW k \in Crons
      PROVE  \/ ds[k] = crons[k] /\ k # jobs
             \/ /\ ds[k].stopped = TRUE /\ ds[k].armed = FALSE
                /\ ds[k].busy = TRUE => crons[k].busy = TRUE
                /\ k = jobs \/ crons[k].stopped = TRUE
  <2>1. CASE ds[k] = cs[k]
    BY <1>1, <2>1
  <2>2. CASE ds[k] = NoCron /\ cs[k].stopped = TRUE
    BY <1>1, <2>2, NoCronFacts
  <2> QED
    BY <1>3, <2>1, <2>2
<1> QED
  BY <1>3, <1>4

\* deactivate() stops the Cron in the map, if any, and touches no other live
\* one.
LEMMA DeactivatedFacts ==
    ASSUME Typed, NEW ds, ds = Deactivated
    PROVE  /\ ds \in [Crons -> FireType]
           /\ \A k \in Crons :
                 \/ ds[k] = crons[k] /\ k # jobs
                 \/ /\ ds[k].stopped = TRUE /\ ds[k].armed = FALSE
                    /\ ds[k].busy = TRUE => crons[k].busy = TRUE
                    /\ k = jobs \/ crons[k].stopped = TRUE
<1>1. PICK cs : cs = [k \in Crons |-> IF k = jobs THEN StopCron(crons[k]) ELSE crons[k]]
  OBVIOUS
<1>2. ds = Collected(cs, NoJob, run)
  BY <1>1 DEF Deactivated
<1> QED
  BY <1>1, <1>2, SilencedFacts DEF Deactivated

\* A Cron made for a row.
LEMMA NewCronFacts ==
    ASSUME NEW r \in RowType, NEW t \in Tasks, NEW p
    PROVE  /\ NewCron(r.fire, t.max, p) \in FireType
           /\ NewCron(r.fire, t.max, p).stopped = FALSE /\ NewCron(r.fire, t.max, p).busy = FALSE
           /\ NewCron(r.fire, t.max, p).max = t.max /\ NewCron(r.fire, t.max, p).fire = r.fire
           /\ NewCron(r.fire, t.max, p).paused = FALSE
<1>1. PICK d : d = NewCron(r.fire, t.max, p)
  OBVIOUS
<1>2. PICK f : f = r.fire
  OBVIOUS
<1>3. PICK m : m = t.max
  OBVIOUS
<1>4. f \in 0..MaxFire /\ m \in Nat
  BY <1>2, <1>3, RowParts, Basics
<1>a. PICK b : b = [NoCron EXCEPT !.fire = f, !.max = m, !.stopped = FALSE]
  OBVIOUS
<1>5. b = [fire |-> f, max |-> m, stopped |-> FALSE, paused |-> FALSE, armed |-> FALSE,
           busy |-> FALSE, runs |-> 0]
  BY <1>a DEF NoCron
<1>6. /\ b \in FireType /\ b.stopped = FALSE /\ b.busy = FALSE
      /\ b.max = m /\ b.fire = f /\ b.paused = FALSE
  BY <1>4, <1>5 DEF FireType
<1>7. d = Arm(b, p)
  BY <1>1, <1>2, <1>3, <1>a DEF NewCron
<1>8. /\ d \in FireType /\ d.stopped = b.stopped /\ d.busy = b.busy
      /\ d.max = b.max /\ d.fire = b.fire /\ d.paused = b.paused
  BY <1>6, <1>7, ArmFacts
<1> QED
  BY <1>1, <1>2, <1>3, <1>6, <1>8

\* A new Cron without a limit whose next date is ahead starts with its timer
\* set.
LEMMA NewCronArmed ==
    ASSUME NEW f, NEW p, f \notin p
    PROVE  NewCron(f, 0, p).armed = TRUE
BY DEF NewCron, NoCron, Arm, HasNext

\* A step of an execution changes where it is.
LEMMA AtFacts ==
    ASSUME Typed, NEW e \in Runs, NEW p, NEW q \in ExecutionPlaces, At(e, p, q)
    PROVE  /\ run' \in [Runs -> RunType] /\ run[e].at = p /\ run'[e].at = q
           /\ run'[e].cron = run[e].cron /\ run'[e].via = run[e].via
           /\ \A f \in Runs : f # e => run'[f] = run[f]
<1>1. run[e].at = p /\ run' = [run EXCEPT ![e].at = q] /\ run \in [Runs -> RunType]
  BY DEF At, Typed
<1>2. PICK r : r = [run[e] EXCEPT !.at = q]
  OBVIOUS
<1>3. r \in RunType /\ r.at = q /\ r.cron = run[e].cron /\ r.via = run[e].via
  BY <1>1, <1>2 DEF RunType, ExecutionPlaces
<1>4. run' = [run EXCEPT ![e] = r]
  BY <1>1, <1>2
<1> QED
  BY <1>1, <1>3, <1>4

\* An execution begins in a free place.
LEMMA StartFacts ==
    ASSUME Typed, NEW k \in Crons \cup {NoJob}, NEW v \in {"timer", "hand", "boot"}, Start(k, v)
    PROVE  /\ run' \in [Runs -> RunType]
           /\ \E e \in Runs :
                 /\ run[e] = NoRun /\ run'[e].cron = k /\ run'[e].via = v /\ run'[e].at = "read"
                 /\ \A f \in Runs : f # e => run'[f] = run[f]
<1>1. PICK e \in Runs : run[e] = NoRun /\ run' = [run EXCEPT ![e] = [cron |-> k, via |-> v, at |-> "read"]]
  BY DEF Start
<1>2. [cron |-> k, via |-> v, at |-> "read"] \in RunType
  BY DEF RunType, ExecutionPlaces
<1> QED
  BY <1>1, <1>2 DEF Typed

\* A Cron that a step does not touch stays in order.
LEMMA SameCron ==
    ASSUME NEW k \in Crons, OneCron(k), task' = task, crons'[k] = crons[k], k = jobs' => k = jobs,
           \A e \in Runs : (Of(e, k)' <=> Of(e, k)) /\ (Chained(e, k)' <=> Chained(e, k))
    PROVE  OneCron(k)'
BY DEF OneCron, Recurring

\* And one that is stopped.
LEMMA StoppedCron ==
    ASSUME NEW k \in Crons, OneCron(k), task' = task, k # jobs',
           crons'[k].stopped = TRUE, crons'[k].armed = FALSE,
           crons'[k].busy = TRUE => crons[k].busy = TRUE, crons' \in [Crons -> FireType],
           crons \in [Crons -> FireType],
           \A e \in Runs : (Of(e, k)' <=> Of(e, k)) /\ (Chained(e, k)' <=> Chained(e, k))
    PROVE  OneCron(k)'
<1>1. crons[k].busy \in BOOLEAN /\ crons'[k].busy \in BOOLEAN
  BY CronParts
<1> QED
  BY <1>1 DEF OneCron, Recurring

AllCrons == \A k \in Crons : OneCron(k)

\* deactivate() of whoever calls it.
LEMMA SilenceKeeps ==
    ASSUME Typed, AllCrons, jobs' = NoJob, crons' = Deactivated, task' = task,
           \A e \in Runs : run'[e].cron = run[e].cron /\ run'[e].via = run[e].via
    PROVE  AllCrons' /\ crons' \in [Crons -> FireType]
<1>1. PICK ds : ds = crons'
  OBVIOUS
<1>2. /\ ds \in [Crons -> FireType]
      /\ \A k \in Crons :
            \/ ds[k] = crons[k] /\ k # jobs
            \/ /\ ds[k].stopped = TRUE /\ ds[k].armed = FALSE
               /\ ds[k].busy = TRUE => crons[k].busy = TRUE
               /\ k = jobs \/ crons[k].stopped = TRUE
  BY <1>1, DeactivatedFacts
<1>3. ASSUME NEW k \in Crons PROVE OneCron(k)'
  <2>1. \A e \in Runs : (Of(e, k)' <=> Of(e, k)) /\ (Chained(e, k)' <=> Chained(e, k))
    BY DEF Of, Chained
  <2>2. k # jobs' /\ OneCron(k)
    BY Basics DEF AllCrons
  <2>3. CASE crons'[k] = crons[k]
    BY <2>1, <2>2, <2>3, SameCron
  <2>4. CASE /\ crons'[k].stopped = TRUE /\ crons'[k].armed = FALSE
             /\ crons'[k].busy = TRUE => crons[k].busy = TRUE
    BY <1>1, <1>2, <2>1, <2>2, <2>4, StoppedCron DEF Typed
  <2> QED
    BY <1>1, <1>2, <2>3, <2>4
<1> QED
  BY <1>1, <1>2, <1>3 DEF AllCrons

\* Steps that touch neither the Crons nor the map.
LEMMA UntouchedKeeps ==
    ASSUME Typed, AllCrons, jobs' = jobs, crons' = crons, task' = task,
           \A e \in Runs : \A k \in Crons :
              /\ run'[e].cron = k <=> run[e].cron = k
              /\ run[e].cron = k => run'[e].via = run[e].via
    PROVE  AllCrons'
<1> SUFFICES ASSUME NEW k \in Crons PROVE OneCron(k)'
  BY DEF AllCrons
<1>1. \A e \in Runs : (Of(e, k)' <=> Of(e, k)) /\ (Chained(e, k)' <=> Chained(e, k))
  BY DEF Of, Chained
<1> QED
  BY <1>1, SameCron DEF AllCrons

\* Before the first call and between two processes there is nothing to keep.
LEMMA NothingFacts ==
    ASSUME Nothing
    PROVE  /\ crons \in [Crons -> FireType] /\ jobs = NoJob /\ run \in [Runs -> RunType]
           /\ call \in [Everyone -> CallType]
           /\ \A k \in Crons : crons[k] = NoCron
           /\ \A e \in Runs : run[e] = NoRun
           /\ \A c \in Everyone : call[c] = Idle
           /\ AllCrons
<1>1. /\ jobs = NoJob /\ \A k \in Crons : crons[k] = NoCron
      /\ \A e \in Runs : run[e] = NoRun
      /\ \A c \in Everyone : call[c] = Idle
  BY DEF Nothing
<1>2. crons \in [Crons -> FireType] /\ run \in [Runs -> RunType] /\ call \in [Everyone -> CallType]
  BY NoCronFacts, EmptyFacts DEF Nothing
<1>3. ASSUME NEW k \in Crons PROVE OneCron(k)
  <2>1. \A e \in Runs : ~Of(e, k) /\ ~Chained(e, k)
    BY <1>1, EmptyFacts, Basics DEF Of, Chained
  <2>2. k # jobs
    BY <1>1, Basics
  <2> QED
    BY <1>1, <2>1, <2>2, NoCronFacts DEF OneCron
<1> QED
  BY <1>1, <1>2, <1>3 DEF AllCrons

\* A new Cron is armed from the start, unless it has no next occurrence.
LEMMA ActivateStartGood ==
    ASSUME Typed, AllCrons, NEW c \in Everyone, ActivateStart(c)
    PROVE  /\ AllCrons' /\ crons' \in [Crons -> FireType] /\ jobs' \in Crons
           /\ crons'[jobs'].paused = FALSE
           /\ \A k \in Crons : k # jobs' => crons'[k] = crons[k]
<1>1. PICK k \in Crons :
        /\ crons[k] = NoCron /\ jobs # k /\ RunsOf(k) = {}
        /\ crons' = [crons EXCEPT ![k] = NewCron(call[c].doc.fire, task.max, past)]
        /\ jobs' = k
  BY DEF ActivateStart
<1>2. PICK r : r = call[c].doc
  OBVIOUS
<1>3. r \in RowType /\ task \in Tasks /\ (Recurring => r.fire = 0) /\ past \in SUBSET (1..MaxFire)
  BY <1>2, CallParts DEF Typed
<1>4. PICK d : d = NewCron(r.fire, task.max, past)
  OBVIOUS
<1>5. /\ d \in FireType /\ d.stopped = FALSE /\ d.busy = FALSE
      /\ d.max = task.max /\ d.fire = r.fire /\ d.paused = FALSE
      /\ task.max = 0 /\ r.fire \notin past => d.armed = TRUE
  <2>1. /\ d \in FireType /\ d.stopped = FALSE /\ d.busy = FALSE
        /\ d.max = task.max /\ d.fire = r.fire /\ d.paused = FALSE
    BY <1>3, <1>4, NewCronFacts
  <2>2. CASE task.max = 0 /\ r.fire \notin past
    BY <1>4, <2>1, <2>2, NewCronArmed
  <2> QED
    BY <2>1, <2>2
<1>6. crons'[k] = d /\ \A j \in Crons : j # k => crons'[j] = crons[j]
  BY <1>1, <1>2, <1>4 DEF Typed
<1>7. crons' \in [Crons -> FireType] /\ task' = task /\ run' = run
  BY <1>1, <1>2, <1>4, <1>5 DEF Typed, ActivateStart, same
<1>8. \A e \in Runs : ~Of(e, k)' /\ ~Chained(e, k)'
  BY <1>1, <1>7 DEF RunsOf, Of, Chained
<1>9. OneCron(k)'
  <2>1. Recurring /\ task.max = 0 => d.armed = TRUE
    BY <1>3, <1>5
  <2> QED
    BY <1>3, <1>5, <1>6, <1>7, <1>8, <2>1 DEF OneCron, Recurring
<1>10. ASSUME NEW j \in Crons, j # k PROVE OneCron(j)'
  <2>1. \A e \in Runs : (Of(e, j)' <=> Of(e, j)) /\ (Chained(e, j)' <=> Chained(e, j))
    BY <1>7 DEF Of, Chained
  <2> QED
    BY <1>1, <1>6, <1>7, <1>10, <2>1, SameCron DEF AllCrons
<1> QED
  BY <1>1, <1>5, <1>6, <1>7, <1>9, <1>10 DEF AllCrons

\* pause() disarms the Cron of the map.
LEMMA PauseGood ==
    ASSUME Typed, AllCrons, NEW c \in Callers, CallPause(c)
    PROVE  /\ AllCrons' /\ crons' \in [Crons -> FireType] /\ jobs' = jobs
           /\ jobs = NoJob \/ crons'[jobs].paused = TRUE
           /\ \A k \in Crons : crons'[k].stopped = crons[k].stopped
<1>1. /\ crons' = [k \in Crons |-> IF k = jobs THEN PauseCron(crons[k]) ELSE crons[k]]
      /\ jobs' = jobs /\ run' = run /\ task' = task
  BY DEF CallPause, Ask, Begins
<1>2. ASSUME NEW k \in Crons, k # jobs PROVE crons'[k] = crons[k]
  BY <1>1, <1>2
<1>3. ASSUME NEW k \in Crons, k = jobs
      PROVE  /\ crons'[k] \in FireType /\ crons'[k].stopped = crons[k].stopped
             /\ crons'[k].busy = crons[k].busy /\ crons'[k].max = crons[k].max
             /\ crons'[k].fire = crons[k].fire /\ crons'[k].armed = FALSE /\ crons'[k].paused = TRUE
             /\ crons[k].stopped = FALSE
  <2>1. crons'[k] = PauseCron(crons[k]) /\ crons[k] \in FireType
    BY <1>1, <1>3 DEF Typed
  <2>2. crons[k].stopped = FALSE
    BY <1>3, <2>1, CronParts DEF AllCrons, OneCron
  <2> QED
    BY <2>1, <2>2, PauseFacts
<1>4. crons' \in [Crons -> FireType]
  BY <1>1, <1>2, <1>3 DEF Typed
<1>5. ASSUME NEW k \in Crons PROVE OneCron(k)'
  <2>1. \A e \in Runs : (Of(e, k)' <=> Of(e, k)) /\ (Chained(e, k)' <=> Chained(e, k))
    BY <1>1 DEF Of, Chained
  <2>2. CASE k # jobs
    BY <1>1, <1>2, <2>1, <2>2, SameCron DEF AllCrons
  <2>3. CASE k = jobs
    BY <1>1, <1>3, <2>1, <2>3 DEF AllCrons, OneCron, Recurring
  <2> QED
    BY <2>2, <2>3
<1> QED
  BY <1>1, <1>2, <1>3, <1>4, <1>5 DEF AllCrons, Typed

\* The timer of a Cron: a run of it begins, or the timer is set again.
LEMMA TimerGood ==
    ASSUME Typed, AllCrons, NEW k \in Crons, Timer(k)
    PROVE  /\ AllCrons' /\ crons' \in [Crons -> FireType] /\ run' \in [Runs -> RunType]
           /\ past' \in SUBSET (1..MaxFire)
           /\ \A j \in Crons : crons'[j].stopped = crons[j].stopped /\ crons'[j].paused = crons[j].paused
           /\ \A e \in Runs : run'[e] = run[e] \/ (run[e] = NoRun /\ run'[e].at = "read")
<1>1. /\ crons \in [Crons -> FireType] /\ run \in [Runs -> RunType] /\ past \in SUBSET (1..MaxFire)
      /\ crons[k] \in FireType
  BY DEF Typed
<1>2. PICK c : c = crons[k]
  OBVIOUS
<1>3. c \in FireType /\ c.fire \in 0..MaxFire /\ c.armed = TRUE
  BY <1>1, <1>2, CronParts DEF Timer
<1>4. /\ past' = IF c.fire = 0 THEN past ELSE past \cup {c.fire}
      /\ jobs' = jobs /\ task' = task
  BY <1>2 DEF Timer, same
<1>5. past' \in SUBSET (1..MaxFire)
  <2>1. CASE c.fire = 0
    BY <1>1, <1>4, <2>1
  <2>2. CASE c.fire # 0
    <3>1. PICK f : f = c.fire
      OBVIOUS
    <3>2. f \in 1..MaxFire
      BY <1>3, <2>2, <3>1, Basics
    <3>3. past' = past \cup {f}
      BY <1>4, <2>2, <3>1
    <3> QED
      BY <1>1, <3>2, <3>3
  <2> QED
    BY <2>1, <2>2
<1>6. /\ c.stopped = FALSE /\ c.paused = FALSE /\ \A e \in Runs : ~Chained(e, k)
      /\ c.max = task.max /\ (Recurring => c.fire = 0)
      /\ c.busy = TRUE => \E e \in Runs : Of(e, k)
  <2>1. OneCron(k)
    BY DEF AllCrons
  <2>2. c.armed = TRUE => ~c.stopped /\ ~c.paused /\ \A e \in Runs : ~Chained(e, k)
    BY <1>2, <2>1 DEF OneCron
  <2>3. c.stopped = FALSE /\ c.paused = FALSE /\ \A e \in Runs : ~Chained(e, k)
    BY <1>3, <2>2, CronParts
  <2> QED
    BY <1>2, <2>1, <2>3 DEF OneCron
<1>7. CASE task.protect /\ c.busy
  <2>1. crons' = [crons EXCEPT ![k] = Arm(c, past')] /\ run' = run
    BY <1>2, <1>7 DEF Timer
  <2>2. PICK d : d = Arm(c, past')
    OBVIOUS
  <2>3. PICK p : p = past'
    OBVIOUS
  <2>4. /\ d \in FireType /\ d.stopped = c.stopped /\ d.busy = c.busy
        /\ d.max = c.max /\ d.fire = c.fire /\ d.paused = c.paused
        /\ d.armed = TRUE => c.paused = FALSE /\ c.stopped = FALSE
        /\ c.paused = FALSE /\ c.stopped = FALSE /\ c.max = 0 /\ c.fire \notin p => d.armed = TRUE
    BY <1>3, <2>2, <2>3, ArmFacts
  <2>5. crons'[k] = d /\ \A j \in Crons : j # k => crons'[j] = crons[j]
    BY <1>1, <2>1, <2>2
  <2>6. \A e \in Runs, j \in Crons : (Of(e, j)' <=> Of(e, j)) /\ (Chained(e, j)' <=> Chained(e, j))
    BY <2>1 DEF Of, Chained
  <2>7. OneCron(k)'
    <3>1. OneCron(k)
      BY DEF AllCrons
    <3>2. Recurring /\ task.max = 0 => d.armed = TRUE
      BY <1>5, <1>6, <2>3, <2>4
    <3> QED
      BY <1>2, <1>4, <1>6, <2>4, <2>5, <2>6, <3>1, <3>2 DEF OneCron, Recurring
  <2>8. ASSUME NEW j \in Crons, j # k PROVE OneCron(j)'
    BY <1>4, <2>5, <2>6, <2>8, SameCron DEF AllCrons
  <2>9. crons' \in [Crons -> FireType]
    BY <1>1, <2>1, <2>2, <2>4
  <2>10. \A j \in Crons : crons'[j].stopped = crons[j].stopped /\ crons'[j].paused = crons[j].paused
    BY <1>2, <2>4, <2>5
  <2> QED
    BY <1>1, <1>5, <2>1, <2>7, <2>8, <2>9, <2>10 DEF AllCrons
<1>8. CASE ~(task.protect /\ c.busy)
  <2>1. crons' = [crons EXCEPT ![k] = Begin(c)] /\ Start(k, "timer")
    BY <1>2, <1>8 DEF Timer
  <2>2. PICK d : d = Begin(c)
    OBVIOUS
  <2>3. /\ d \in FireType /\ d.stopped = c.stopped /\ d.busy = TRUE
        /\ d.max = c.max /\ d.fire = c.fire /\ d.paused = c.paused /\ d.armed = FALSE
    BY <1>3, <2>2, BeginFacts
  <2>4. crons'[k] = d /\ \A j \in Crons : j # k => crons'[j] = crons[j]
    BY <1>1, <2>1, <2>2
  <2>5. run' \in [Runs -> RunType]
    BY <2>1, StartFacts
  <2>6. PICK e \in Runs :
          /\ run[e] = NoRun /\ run'[e].cron = k /\ run'[e].via = "timer" /\ run'[e].at = "read"
          /\ \A f \in Runs : f # e => run'[f] = run[f]
    BY <2>1, StartFacts
  <2>7. run[e].cron = NoJob
    BY <2>6, EmptyFacts
  <2>8. OneCron(k)'
    <3>1. Of(e, k)' /\ Chained(e, k)'
      BY <2>6 DEF Of, Chained
    <3>2. \A f \in Runs : Chained(f, k)' => f = e
      BY <1>6, <2>6 DEF Chained
    <3>3. OneCron(k)
      BY DEF AllCrons
    <3> QED
      BY <1>2, <1>4, <1>6, <2>3, <2>4, <3>1, <3>2, <3>3 DEF OneCron, Recurring
  <2>9. ASSUME NEW j \in Crons, j # k PROVE OneCron(j)'
    <3>1. \A f \in Runs : (Of(f, j)' <=> Of(f, j)) /\ (Chained(f, j)' <=> Chained(f, j))
      BY <2>6, <2>7, <2>9, Basics DEF Of, Chained
    <3> QED
      BY <1>4, <2>4, <2>9, <3>1, SameCron DEF AllCrons
  <2>10. crons' \in [Crons -> FireType]
    BY <1>1, <2>1, <2>2, <2>3
  <2>11. \A j \in Crons : crons'[j].stopped = crons[j].stopped /\ crons'[j].paused = crons[j].paused
    BY <1>2, <2>3, <2>4
  <2>12. \A f \in Runs : run'[f] = run[f] \/ (run[f] = NoRun /\ run'[f].at = "read")
    BY <2>6
  <2> QED
    BY <1>5, <2>5, <2>8, <2>9, <2>10, <2>11, <2>12 DEF AllCrons
<1> QED
  BY <1>7, <1>8

\* trigger(): a run beside the timer.
LEMMA TriggerGood ==
    ASSUME Typed, AllCrons, Trigger
    PROVE  /\ AllCrons' /\ crons' \in [Crons -> FireType] /\ run' \in [Runs -> RunType]
           /\ \A j \in Crons : crons'[j].stopped = crons[j].stopped /\ crons'[j].paused = crons[j].paused
           /\ \A e \in Runs : run'[e] = run[e] \/ (run[e] = NoRun /\ run'[e].at = "read")
<1>1. /\ crons \in [Crons -> FireType] /\ run \in [Runs -> RunType] /\ jobs \in Crons
      /\ crons[jobs] \in FireType /\ jobs' = jobs /\ task' = task
  BY DEF Typed, Trigger, same
<1>2. PICK k \in Crons : k = jobs
  BY <1>1
<1>3. PICK c : c = crons[k]
  OBVIOUS
<1>4. crons' = [crons EXCEPT ![k] = BeginByHand(c)] /\ Start(k, "hand")
  BY <1>2, <1>3 DEF Trigger
<1>5. PICK d : d = BeginByHand(c)
  OBVIOUS
<1>6. /\ d \in FireType /\ d.stopped = c.stopped /\ d.busy = TRUE
      /\ d.max = c.max /\ d.fire = c.fire /\ d.paused = c.paused /\ d.armed = c.armed
  BY <1>1, <1>2, <1>3, <1>5, BeginByHandFacts
<1>7. crons'[k] = d /\ \A j \in Crons : j # k => crons'[j] = crons[j]
  BY <1>1, <1>4, <1>5
<1>8. run' \in [Runs -> RunType]
  BY <1>4, StartFacts
<1>9. PICK e \in Runs :
        /\ run[e] = NoRun /\ run'[e].cron = k /\ run'[e].via = "hand" /\ run'[e].at = "read"
        /\ \A f \in Runs : f # e => run'[f] = run[f]
  BY <1>4, StartFacts
<1>10. run[e].cron = NoJob /\ run[e].via = "none"
  BY <1>9, EmptyFacts
<1>11. \A f \in Runs, j \in Crons : Chained(f, j)' <=> Chained(f, j)
  BY <1>9, <1>10 DEF Chained
<1>12. OneCron(k)'
  <2>1. Of(e, k)'
    BY <1>9 DEF Of
  <2>2. OneCron(k)
    BY DEF AllCrons
  <2> QED
    BY <1>1, <1>3, <1>6, <1>7, <1>11, <2>1, <2>2 DEF OneCron, Recurring
<1>13. ASSUME NEW j \in Crons, j # k PROVE OneCron(j)'
  <2>1. \A f \in Runs : (Of(f, j)' <=> Of(f, j)) /\ (Chained(f, j)' <=> Chained(f, j))
    BY <1>9, <1>10, <1>11, <1>13, Basics DEF Of
  <2> QED
    BY <1>1, <1>7, <1>13, <2>1, SameCron DEF AllCrons
<1>14. crons' \in [Crons -> FireType]
  BY <1>1, <1>4, <1>5, <1>6
<1>15. \A j \in Crons : crons'[j].stopped = crons[j].stopped /\ crons'[j].paused = crons[j].paused
  BY <1>3, <1>6, <1>7
<1>16. \A f \in Runs : run'[f] = run[f] \/ (run[f] = NoRun /\ run'[f].at = "read")
  BY <1>9
<1> QED
  BY <1>8, <1>12, <1>13, <1>14, <1>15, <1>16 DEF AllCrons

\* What nobody refers to is forgotten, and nothing else changes.
Unused(rs, k) == \A e \in Runs : rs[e].cron # k

\* Dropping Crons nobody refers to changes only stopped ones.
LEMMA CollectedAt ==
    ASSUME NEW cs \in [Crons -> FireType], NEW kept, NEW rs, NEW k \in Crons
    PROVE  \/ Collected(cs, kept, rs)[k] = cs[k]
           \/ Collected(cs, kept, rs)[k] = NoCron /\ cs[k].stopped = TRUE /\ k # kept
<1>1. \/ Collected(cs, kept, rs)[k] = cs[k]
      \/ Collected(cs, kept, rs)[k] = NoCron /\ cs[k].stopped /\ k # kept
  BY DEF Collected
<1>2. cs[k] \in FireType /\ cs[k].stopped \in BOOLEAN
  BY CronParts
<1> QED
  BY <1>1, <1>2

\* A Cron is dropped only when no execution refers to it.
LEMMA CollectedUnused ==
    ASSUME NEW cs \in [Crons -> FireType], NEW kept, NEW rs, NEW k \in Crons
    PROVE  Collected(cs, kept, rs)[k] # cs[k] => Unused(rs, k)
BY DEF Collected, Unused

\* Dropping Crons keeps the shape of the map.
LEMMA CollectedType ==
    ASSUME NEW cs \in [Crons -> FireType], NEW kept, NEW rs
    PROVE  Collected(cs, kept, rs) \in [Crons -> FireType]
<1>1. PICK ds : ds = Collected(cs, kept, rs)
  OBVIOUS
<1>2. ds = [k \in Crons |-> IF cs[k].stopped /\ k # kept /\ \A e \in Runs : rs[e].cron # k
                            THEN NoCron ELSE cs[k]]
  BY <1>1 DEF Collected
<1>3. \A k \in Crons : ds[k] \in FireType
  <2>1. \A k \in Crons : ds[k] = cs[k] \/ ds[k] = NoCron
    BY <1>2
  <2> QED
    BY <2>1, NoCronFacts
<1>4. ds \in [Crons -> FireType]
  BY <1>2, <1>3
<1> QED
  BY <1>1, <1>4

\* The run of a Cron is over, whether it ended or rejected: after a scheduled one
\* the timer is set again.
LEMMA SettlesGood ==
    ASSUME Typed, AllCrons, NEW e \in Runs, NEW next \in {NoRun, Detached}, Settles(e, next)
    PROVE  /\ AllCrons' /\ crons' \in [Crons -> FireType] /\ run' \in [Runs -> RunType]
           /\ \A j \in Crons : crons'[j].stopped = crons[j].stopped
           /\ \A j \in Crons : j = jobs => crons'[j].paused = crons[j].paused
           /\ run'[e] = next /\ \A f \in Runs : f # e => run'[f] = run[f]
<1>1. PICK after : after = [k \in Crons |-> IF k # run[e].cron THEN crons[k]
                                            ELSE IF run[e].via = "timer" THEN EndScheduled(crons[k], past)
                                            ELSE EndByHand(crons[k])]
  OBVIOUS
<1>2. /\ crons' = Collected(after, jobs, run') /\ jobs' = jobs /\ task' = task
      /\ run' = [run EXCEPT ![e] = next]
  BY <1>1 DEF Settles
<1>3. /\ crons \in [Crons -> FireType] /\ run \in [Runs -> RunType] /\ past \in SUBSET (1..MaxFire)
      /\ jobs \in Crons \cup {NoJob}
  BY DEF Typed
<1>4. /\ run' \in [Runs -> RunType] /\ run'[e] = next /\ next.cron = NoJob
      /\ \A f \in Runs : f # e => run'[f] = run[f]
  BY <1>2, <1>3, EmptyFacts
<1>5. \A k \in Crons : ~Of(e, k)' /\ ~Chained(e, k)'
  BY <1>4, EmptyFacts, Basics DEF Of, Chained
<1>6. \A k \in Crons, f \in Runs : f # e => (Of(f, k)' <=> Of(f, k)) /\ (Chained(f, k)' <=> Chained(f, k))
  BY <1>4 DEF Of, Chained
<1>7. ASSUME NEW k \in Crons, k # run[e].cron
      PROVE  after[k] = crons[k] /\ ~Of(e, k) /\ ~Chained(e, k)
  <2>1. after[k] = crons[k]
    BY <1>1, <1>7
  <2>2. ~Of(e, k) /\ ~Chained(e, k)
    BY <1>7 DEF Of, Chained
  <2> QED
    BY <2>1, <2>2
<1>8. ASSUME NEW k \in Crons, k = run[e].cron, run[e].via = "timer"
      PROVE  /\ Chained(e, k) /\ after[k] \in FireType /\ after[k].stopped = crons[k].stopped
             /\ after[k].busy = FALSE /\ after[k].max = crons[k].max /\ after[k].fire = crons[k].fire
             /\ after[k].paused = crons[k].paused
             /\ after[k].armed = TRUE => crons[k].paused = FALSE /\ crons[k].stopped = FALSE
             /\ crons[k].paused = FALSE /\ crons[k].stopped = FALSE /\ crons[k].max = 0 /\ crons[k].fire \notin past
                => after[k].armed = TRUE
  <2>1. PICK p : p = past
    OBVIOUS
  <2>2. PICK c : c = crons[k]
    OBVIOUS
  <2>3. c \in FireType
    BY <1>3, <2>2
  <2>4. after[k] = EndScheduled(c, p)
    BY <1>1, <1>8, <2>1, <2>2
  <2>5. PICK d : d = after[k]
    OBVIOUS
  <2>6. /\ d \in FireType /\ d.stopped = c.stopped /\ d.busy = FALSE
        /\ d.max = c.max /\ d.fire = c.fire /\ d.paused = c.paused
        /\ d.armed = TRUE => c.paused = FALSE /\ c.stopped = FALSE
        /\ c.paused = FALSE /\ c.stopped = FALSE /\ c.max = 0 /\ c.fire \notin p => d.armed = TRUE
    <3>1. EndScheduled(c, p) = d
      BY <2>4, <2>5
    <3> QED
      BY <2>3, <3>1, EndScheduledFacts
  <2>7. Chained(e, k)
    BY <1>8 DEF Chained
  <2> QED
    BY <2>1, <2>2, <2>5, <2>6, <2>7
<1>9. ASSUME NEW k \in Crons, k = run[e].cron, run[e].via # "timer"
      PROVE  /\ ~Chained(e, k) /\ after[k] \in FireType /\ after[k].stopped = crons[k].stopped
             /\ after[k].busy = FALSE /\ after[k].max = crons[k].max /\ after[k].fire = crons[k].fire
             /\ after[k].paused = crons[k].paused /\ after[k].armed = crons[k].armed
  <2>1. after[k] = EndByHand(crons[k])
    BY <1>1, <1>9
  <2>2. ~Chained(e, k)
    BY <1>9 DEF Chained
  <2> QED
    <3>1. PICK c : c = crons[k]
      OBVIOUS
    <3>2. PICK d : d = after[k]
      OBVIOUS
    <3>3. c \in FireType /\ d = EndByHand(c)
      BY <1>3, <2>1, <3>1, <3>2
    <3>4. /\ d \in FireType /\ d.stopped = c.stopped /\ d.busy = FALSE
          /\ d.max = c.max /\ d.fire = c.fire /\ d.paused = c.paused /\ d.armed = c.armed
      BY <3>3, EndByHandFacts
    <3> QED
      BY <2>2, <3>1, <3>2, <3>4
<1>10. \A k \in Crons : after[k] \in FireType /\ after[k].stopped = crons[k].stopped /\ after[k].paused = crons[k].paused
  BY <1>3, <1>7, <1>8, <1>9
<1>11. after \in [Crons -> FireType]
  BY <1>1, <1>10
<1>12. /\ crons' \in [Crons -> FireType]
       /\ \A k \in Crons :
             \/ crons'[k] = after[k]
             \/ /\ crons'[k] = NoCron /\ after[k].stopped = TRUE /\ k # jobs
                /\ \A f \in Runs : run'[f].cron # k
  <2>1. PICK cs : cs = crons'
    OBVIOUS
  <2>2. PICK rs : rs = run'
    OBVIOUS
  <2>3. cs = Collected(after, jobs, rs)
    BY <1>2, <2>1, <2>2
  <2>4. PICK kept : kept = jobs
    OBVIOUS
  <2>5. cs = Collected(after, kept, rs)
    BY <2>3, <2>4
  <2>6. cs \in [Crons -> FireType]
    BY <1>11, <2>5, CollectedType
  <2>7. ASSUME NEW k \in Crons
        PROVE  \/ cs[k] = after[k]
               \/ cs[k] = NoCron /\ after[k].stopped = TRUE /\ k # kept /\ Unused(rs, k)
    <3>1. cs[k] = after[k] \/ (cs[k] = NoCron /\ after[k].stopped = TRUE /\ k # kept)
      <4>1. \/ Collected(after, kept, rs)[k] = after[k]
            \/ Collected(after, kept, rs)[k] = NoCron /\ after[k].stopped = TRUE /\ k # kept
        BY <1>11, CollectedAt
      <4> QED
        BY <2>5, <4>1
    <3>2. cs[k] # after[k] => Unused(rs, k)
      BY <1>11, <2>5, CollectedUnused
    <3> QED
      BY <3>1, <3>2
  <2> QED
    BY <2>1, <2>2, <2>4, <2>6, <2>7 DEF Unused
<1>13. ASSUME NEW k \in Crons PROVE OneCron(k)'
  <2>1. OneCron(k)
    BY DEF AllCrons
  <2>2. CASE crons'[k] = NoCron /\ k # jobs /\ \A f \in Runs : run'[f].cron # k
    <3>1. \A f \in Runs : ~Of(f, k)' /\ ~Chained(f, k)'
      BY <2>2 DEF Of, Chained
    <3> QED
      BY <1>2, <2>2, <3>1, NoCronFacts DEF OneCron
  <2>3. CASE crons'[k] = after[k] /\ k # run[e].cron
    BY <1>2, <1>5, <1>6, <1>7, <2>1, <2>3, SameCron
  <2>4. CASE crons'[k] = after[k] /\ k = run[e].cron /\ run[e].via = "timer"
    <3>1. \A f \in Runs : ~Chained(f, k)'
      <4>1. \A f \in Runs : Chained(f, k) => f = e
        BY <1>8, <2>1, <2>4 DEF OneCron
      <4> QED
        BY <1>5, <1>6, <4>1
    <3>2. /\ crons[k] \in FireType /\ after[k] \in FireType
          /\ after[k].armed \in BOOLEAN /\ crons[k].paused \in BOOLEAN /\ crons[k].stopped \in BOOLEAN
      BY <1>3, <1>10, CronParts
    <3>3. Recurring /\ task.max = 0 /\ ~crons[k].stopped /\ ~crons[k].paused => after[k].armed = TRUE
      <4>1. ~crons[k].stopped => crons[k].max = task.max /\ (Recurring => crons[k].fire = 0)
        BY <2>1 DEF OneCron
      <4>2. 0 \notin past
        BY <1>3
      <4> QED
        BY <1>8, <2>4, <3>2, <4>1, <4>2
    <3> QED
      BY <1>2, <1>8, <2>1, <2>4, <3>1, <3>2, <3>3, ZenonT(30) DEF OneCron, Recurring
  <2>5. CASE crons'[k] = after[k] /\ k = run[e].cron /\ run[e].via # "timer"
    <3>1. \A f \in Runs : Chained(f, k)' <=> Chained(f, k)
      BY <1>5, <1>6, <1>9, <2>5
    <3> QED
      BY <1>2, <1>9, <2>1, <2>5, <3>1, ZenonT(30) DEF OneCron, Recurring
  <2> QED
    BY <1>12, <2>2, <2>3, <2>4, <2>5
<1>14. ASSUME NEW j \in Crons
       PROVE crons'[j].stopped = crons[j].stopped /\ (j = jobs => crons'[j].paused = crons[j].paused)
  BY <1>10, <1>12, NoCronFacts
<1> QED
  BY <1>4, <1>12, <1>13, <1>14 DEF AllCrons

\* An execution that is over leaves nothing or the work of handleError().
LEMMA LeavesFacts ==
    ASSUME Typed, AllCrons, NEW e \in Runs, End(e) \/ Rejects(e)
    PROVE  /\ AllCrons' /\ crons' \in [Crons -> FireType] /\ run' \in [Runs -> RunType]
           /\ \A j \in Crons : crons'[j].stopped = crons[j].stopped
           /\ \A j \in Crons : j = jobs => crons'[j].paused = crons[j].paused
           /\ run'[e] \in {NoRun, Detached} /\ \A f \in Runs : f # e => run'[f] = run[f]
           /\ row' = row /\ jobs' = jobs /\ call' = call /\ past' = past /\ task' = task
           /\ mode' = mode /\ upset' = upset /\ failures' = failures /\ rejected' = rejected
           /\ Rejects(e) => throws' = throws + 1
           /\ End(e) => throws' = throws /\ run[e].at \in {"notify", "end"} /\ run'[e] = NoRun
<1>1. PICK next \in {NoRun, Detached} : Settles(e, next) /\ (End(e) => next = NoRun)
  <2>1. CASE End(e)
    BY <2>1 DEF End
  <2>2. CASE Rejects(e) /\ ~End(e)
    BY <2>2 DEF Rejects
  <2> QED
    BY <2>1, <2>2
<1>2. /\ row' = row /\ jobs' = jobs /\ call' = call /\ past' = past /\ task' = task
      /\ mode' = mode /\ upset' = upset /\ failures' = failures /\ rejected' = rejected
  BY <1>1 DEF Settles
<1>3. /\ Rejects(e) => throws' = throws + 1
      /\ End(e) => throws' = throws /\ run[e].at \in {"notify", "end"}
  BY DEF End, Rejects, Throws
<1>4. /\ AllCrons' /\ crons' \in [Crons -> FireType] /\ run' \in [Runs -> RunType]
      /\ \A j \in Crons : crons'[j].stopped = crons[j].stopped
      /\ \A j \in Crons : j = jobs => crons'[j].paused = crons[j].paused
      /\ run'[e] = next /\ \A f \in Runs : f # e => run'[f] = run[f]
  BY <1>1, SettlesGood
<1> QED
  BY <1>1, <1>2, <1>3, <1>4

Sound == Typed /\ AllCrons

\* A step of a call changes that call.
LEMMA CallFacts ==
    ASSUME Typed, NEW c \in Everyone, NEW r, r \in CallType, Recurring => r.doc.fire = 0,
           call' = [call EXCEPT ![c] = r]
    PROVE  /\ call' \in [Everyone -> CallType] /\ call'[c] = r
           /\ \A d \in Everyone : d # c => call'[d] = call[d]
           /\ Recurring => \A d \in Everyone : call'[d].doc.fire = 0
<1>1. call \in [Everyone -> CallType] /\ (Recurring => \A d \in Everyone : call[d].doc.fire = 0)
  BY DEF Typed
<1>2. /\ call' \in [Everyone -> CallType] /\ call'[c] = r
      /\ \A d \in Everyone : d # c => call'[d] = call[d]
  BY <1>1
<1> QED
  BY <1>1, <1>2

\* What remains of a call once activate() has returned.
LEMMA ActivatedFacts ==
    ASSUME Typed, NEW c \in Everyone
    PROVE  /\ Activated(c) \in CallType /\ Activated(c).at \in {"idle", "catchup"}
           /\ Recurring => Activated(c).doc.fire = 0
<1>1. call[c] \in CallType /\ (Recurring => call[c].doc.fire = 0)
  BY DEF Typed
<1>2. CASE call[c].op = "catchup"
  <2>1. Activated(c) = [call[c] EXCEPT !.at = "catchup"]
    BY <1>2 DEF Activated
  <2> QED
    BY <1>1, <2>1 DEF CallType
<1>3. CASE call[c].op # "catchup"
  BY <1>3, EmptyFacts DEF Activated
<1> QED
  BY <1>2, <1>3

\* The calls of the API, up to their first await.
LEMMA BeginsFacts ==
    ASSUME Typed, NEW c \in Callers, Begins(c)
    PROVE  /\ mode = "up" /\ call[c].at = "idle" /\ c \in Everyone /\ upset' \in BOOLEAN
           /\ upset' = FALSE => upset = FALSE /\ \A d \in Everyone : call[d].at = "idle"
BY EmptyFacts DEF Begins, Quiet, Typed, Everyone

\* createTask() inserts an active row and goes on to activate it.
LEMMA CreateFacts ==
    ASSUME Typed, NEW c \in Callers, Create(c)
    PROVE  /\ row = NoRow /\ row' \in RowType /\ row'.status = "active" /\ row'.errors = 0
           /\ Recurring => row'.fire = 0
           /\ call' \in [Everyone -> CallType]
           /\ call'[c].op = "activate" /\ call'[c].at = "stop" /\ call'[c].doc = row'
           /\ \A d \in Everyone : d # c => call'[d] = call[d]
           /\ Recurring => \A d \in Everyone : call'[d].doc.fire = 0
<1>1. PICK f : f = IF Recurring THEN 0 ELSE 1
  OBVIOUS
<1>2. f \in 0..MaxFire /\ (Recurring => f = 0) /\ c \in Everyone
  BY <1>1, Basics
<1>3. PICK r : r = [op |-> "activate", at |-> "stop", doc |-> Row("active", f)]
  OBVIOUS
<1>4. row = NoRow /\ row' = Row("active", f) /\ call' = [call EXCEPT ![c] = r]
  BY <1>1, <1>3 DEF Create
<1>5. row' \in RowType /\ row'.status = "active" /\ row'.errors = 0 /\ row'.fire = f
  BY <1>2, <1>4 DEF Row, RowType, Statuses
<1>6. r.op = "activate" /\ r.at = "stop" /\ r.doc = row'
  BY <1>3, <1>4
<1>7. r \in CallType
  BY <1>3, <1>4, <1>5 DEF CallType
<1>8. Recurring => r.doc.fire = 0
  BY <1>2, <1>5, <1>6
<1>9. /\ call' \in [Everyone -> CallType] /\ call'[c] = r
      /\ \A d \in Everyone : d # c => call'[d] = call[d]
      /\ Recurring => \A d \in Everyone : call'[d].doc.fire = 0
  BY <1>2, <1>4, <1>7, <1>8, CallFacts
<1> QED
  BY <1>2, <1>4, <1>5, <1>6, <1>9

\* The other calls find a row before they write it.
LEMMA AskFacts ==
    ASSUME Typed, NEW c \in Callers, NEW o \in {"resume", "edit", "reschedule", "pause"}, Ask(c, o)
    PROVE  /\ row # NoRow /\ call' \in [Everyone -> CallType]
           /\ call'[c].op = o /\ call'[c].at = "write"
           /\ \A d \in Everyone : d # c => call'[d] = call[d]
           /\ Recurring => \A d \in Everyone : call'[d].doc.fire = 0
<1>1. PICK r : r = [op |-> o, at |-> "write", doc |-> NoRow]
  OBVIOUS
<1>2. row # NoRow /\ call' = [call EXCEPT ![c] = r] /\ c \in Everyone
  BY <1>1, Basics DEF Ask
<1>3. r \in CallType /\ r.op = o /\ r.at = "write" /\ r.doc.fire = 0
  BY <1>1, EmptyFacts DEF CallType
<1> QED
  BY <1>2, <1>3, CallFacts

\* deleteTask() finds a row before it removes it.
LEMMA DeleteFacts ==
    ASSUME Typed, NEW c \in Callers, CallDelete(c)
    PROVE  /\ row # NoRow /\ call' \in [Everyone -> CallType]
           /\ call'[c].at = "remove" /\ call'[c].op = "none"
           /\ \A d \in Everyone : d # c => call'[d] = call[d]
           /\ Recurring => \A d \in Everyone : call'[d].doc.fire = 0
<1>1. PICK r : r = [Idle EXCEPT !.at = "remove"]
  OBVIOUS
<1>2. row # NoRow /\ call' = [call EXCEPT ![c] = r] /\ c \in Everyone
  BY <1>1, Basics DEF CallDelete
<1>3. r \in CallType /\ r.op = "none" /\ r.at = "remove" /\ r.doc.fire = 0
  <2>1. r = [op |-> "none", at |-> "remove", doc |-> NoRow]
    BY <1>1 DEF Idle
  <2> QED
    BY <2>1, EmptyFacts DEF CallType
<1> QED
  BY <1>2, <1>3, CallFacts

\* activate().
LEMMA StopStepFacts ==
    ASSUME Typed, NEW c \in Everyone, ActivateStop(c)
    PROVE  /\ call[c].at = "stop" /\ call' \in [Everyone -> CallType]
           /\ \A d \in Everyone : d # c => call'[d] = call[d]
           /\ Recurring => \A d \in Everyone : call'[d].doc.fire = 0
           /\ call[c].doc.status \in {"paused", "completed", "cancelled"} => call'[c].at \in {"idle", "catchup"}
           /\ call[c].doc.status \notin {"paused", "completed", "cancelled"} =>
                 call'[c].at = "start" /\ call'[c].doc = call[c].doc
<1>1. PICK r : r = IF call[c].doc.status \in {"paused", "completed", "cancelled"} THEN Activated(c)
                   ELSE [call[c] EXCEPT !.at = "start"]
  OBVIOUS
<1>2. call[c].at = "stop" /\ call' = [call EXCEPT ![c] = r] /\ call[c] \in CallType
      /\ (Recurring => call[c].doc.fire = 0)
  BY <1>1 DEF ActivateStop, Typed
<1>3. CASE call[c].doc.status \in {"paused", "completed", "cancelled"}
  <2>1. r = Activated(c)
    BY <1>1, <1>3
  <2>2. r \in CallType /\ r.at \in {"idle", "catchup"} /\ (Recurring => r.doc.fire = 0)
    BY <2>1, ActivatedFacts
  <2>3. /\ call' \in [Everyone -> CallType] /\ call'[c] = r
        /\ \A d \in Everyone : d # c => call'[d] = call[d]
        /\ Recurring => \A d \in Everyone : call'[d].doc.fire = 0
    BY <1>2, <2>2, CallFacts
  <2> QED
    BY <1>2, <1>3, <2>2, <2>3
<1>4. CASE call[c].doc.status \notin {"paused", "completed", "cancelled"}
  <2>1. r = [call[c] EXCEPT !.at = "start"]
    BY <1>1, <1>4
  <2>2. r \in CallType /\ r.at = "start" /\ r.doc = call[c].doc
    BY <1>2, <2>1 DEF CallType
  <2>3. /\ call' \in [Everyone -> CallType] /\ call'[c] = r
        /\ \A d \in Everyone : d # c => call'[d] = call[d]
        /\ Recurring => \A d \in Everyone : call'[d].doc.fire = 0
    BY <1>2, <2>2, CallFacts
  <2> QED
    BY <1>2, <1>4, <2>2, <2>3
<1> QED
  BY <1>3, <1>4

\* When activate() ends, only that call moves.
LEMMA ReturnFacts ==
    ASSUME Typed, NEW c \in Everyone, call' = [call EXCEPT ![c] = Activated(c)]
    PROVE  /\ call' \in [Everyone -> CallType] /\ call'[c].at \in {"idle", "catchup"}
           /\ \A d \in Everyone : d # c => call'[d] = call[d]
           /\ Recurring => \A d \in Everyone : call'[d].doc.fire = 0
<1>1. PICK r : r = Activated(c)
  OBVIOUS
<1>2. r \in CallType /\ r.at \in {"idle", "catchup"} /\ (Recurring => r.doc.fire = 0)
  BY <1>1, ActivatedFacts
<1>3. /\ call' \in [Everyone -> CallType] /\ call'[c] = r
      /\ \A d \in Everyone : d # c => call'[d] = call[d]
      /\ Recurring => \A d \in Everyone : call'[d].doc.fire = 0
  BY <1>1, <1>2, CallFacts
<1> QED
  BY <1>2, <1>3

\* A call is over.
LEMMA IdleFacts ==
    ASSUME Typed, NEW c \in Everyone, call' = [call EXCEPT ![c] = Idle]
    PROVE  /\ call' \in [Everyone -> CallType] /\ call'[c].at = "idle"
           /\ \A d \in Everyone : d # c => call'[d] = call[d]
           /\ Recurring => \A d \in Everyone : call'[d].doc.fire = 0
<1>1. PICK r : r = Idle
  OBVIOUS
<1>2. r \in CallType /\ r.at = "idle" /\ (Recurring => r.doc.fire = 0)
  BY <1>1, EmptyFacts
<1>3. /\ call' \in [Everyone -> CallType] /\ call'[c] = r
      /\ \A d \in Everyone : d # c => call'[d] = call[d]
      /\ Recurring => \A d \in Everyone : call'[d].doc.fire = 0
  BY <1>1, <1>2, CallFacts
<1> QED
  BY <1>2, <1>3

\* The write of a call keeps the error count; pauseTask() is then done, the
\* others go on to activate().
LEMMA WriteFacts ==
    ASSUME Typed, NEW c \in Everyone, Write(c)
    PROVE  /\ call[c].at = "write" /\ call' \in [Everyone -> CallType]
           /\ \A d \in Everyone : d # c => call'[d] = call[d]
           /\ Recurring => row'.fire = 0 /\ \A d \in Everyone : call'[d].doc.fire = 0
           /\ row' \in RowType /\ row'.errors = row.errors
           /\ ~Exists(row) => row' = row /\ call'[c].at = "idle"
           /\ Exists(row) => Exists(row)'
           /\ Exists(row) /\ call[c].op = "pause" => row'.status = "paused" /\ call'[c].at = "idle"
           /\ Exists(row) /\ call[c].op # "pause" =>
                 call'[c].op = "activate" /\ call'[c].at = "stop" /\ call'[c].doc = row'
<1>1. call[c].at = "write" /\ row \in RowType /\ (Recurring => row.fire = 0)
  BY DEF Write, Typed
<1>2. CASE ~Exists(row)
  <2>1. row' = row /\ call' = [call EXCEPT ![c] = Idle]
    BY <1>2 DEF Write
  <2>2. /\ call' \in [Everyone -> CallType] /\ call'[c].at = "idle"
        /\ \A d \in Everyone : d # c => call'[d] = call[d]
        /\ Recurring => \A d \in Everyone : call'[d].doc.fire = 0
    BY <2>1, IdleFacts
  <2> QED
    BY <1>1, <1>2, <2>1, <2>2
<1>3. CASE Exists(row)
  <2>1. PICK s \in {row.status, "active", "cancelled"} :
          /\ row' = Patched(call[c].op, s)
          /\ call' = [call EXCEPT ![c] = IF call[c].op = "pause" THEN Idle
                                         ELSE [op |-> "activate", at |-> "stop", doc |-> row']]
    BY <1>3 DEF Write
  <2>2. s \in Statuses
    BY <1>3 DEF Exists, Statuses
  <2>3. PICK o : o = call[c].op
    OBVIOUS
  <2>4. PICK n : n = row'
    OBVIOUS
  <2>5. /\ n \in RowType /\ n.errors = row.errors /\ (Recurring => n.fire = 0)
        /\ n.status = IF o = "pause" THEN "paused" ELSE IF o = "resume" THEN "active" ELSE s
    BY <2>1, <2>2, <2>3, <2>4, PatchFacts
  <2>6. Exists(row)'
    BY <2>2, <2>4, <2>5 DEF Exists, Statuses
  <2>7. PICK r : r = IF o = "pause" THEN Idle ELSE [op |-> "activate", at |-> "stop", doc |-> n]
    OBVIOUS
  <2>8. /\ r \in CallType /\ (Recurring => r.doc.fire = 0)
        /\ o = "pause" => r.at = "idle"
        /\ o # "pause" => r.op = "activate" /\ r.at = "stop" /\ r.doc = n
    <3>1. CASE o = "pause"
      BY <2>7, <3>1, EmptyFacts
    <3>2. CASE o # "pause"
      <4>1. r = [op |-> "activate", at |-> "stop", doc |-> n]
        BY <2>7, <3>2
      <4> QED
        BY <2>5, <3>2, <4>1 DEF CallType
    <3> QED
      BY <3>1, <3>2
  <2>9. call' = [call EXCEPT ![c] = r]
    BY <2>1, <2>3, <2>4, <2>7
  <2>10. /\ call' \in [Everyone -> CallType] /\ call'[c] = r
         /\ \A d \in Everyone : d # c => call'[d] = call[d]
         /\ Recurring => \A d \in Everyone : call'[d].doc.fire = 0
    BY <2>8, <2>9, CallFacts
  <2> QED
    BY <1>1, <1>3, <2>3, <2>4, <2>5, <2>6, <2>8, <2>10
<1> QED
  BY <1>2, <1>3

\* boot().
LEMMA BootFacts ==
    ASSUME Typed, CallBoot
    PROVE  /\ mode = "down" /\ mode' = "up" /\ call' \in [Everyone -> CallType]
           /\ \A d \in Everyone : d # Boot => call'[d] = call[d]
           /\ row.status # "active" => call' = call
           /\ row.status = "active" =>
                 /\ call'[Boot].op \in {"activate", "catchup"} /\ call'[Boot].doc = row
                 /\ call'[Boot].at \in {"stop", "fail"}
                 /\ call'[Boot].at = "fail" => ~Recurring
           /\ Recurring => \A d \in Everyone : call'[d].doc.fire = 0
<1>1. mode = "down" /\ mode' = "up" /\ row \in RowType /\ Boot \in Everyone
      /\ (Recurring => row.fire = 0) /\ (Recurring => \A d \in Everyone : call[d].doc.fire = 0)
      /\ call \in [Everyone -> CallType]
  BY Basics DEF CallBoot, Typed
<1>2. CASE row.status # "active"
  BY <1>1, <1>2 DEF CallBoot
<1>3. CASE row.status = "active"
  <2>1. PICK p \in BootPlan : call' = [call EXCEPT ![Boot] = [op |-> p[1], at |-> p[2], doc |-> row]]
    BY <1>3 DEF CallBoot
  <2>2. /\ p[1] \in {"activate", "catchup"} /\ p[2] \in {"stop", "fail"}
        /\ p[2] = "fail" => ~Recurring
    BY DEF BootPlan
  <2>3. PICK r : r = [op |-> p[1], at |-> p[2], doc |-> row]
    OBVIOUS
  <2>4. r \in CallType
    BY <1>1, <2>2, <2>3 DEF CallType
  <2>5. r.op \in {"activate", "catchup"} /\ r.doc = row /\ r.at = p[2] /\ (Recurring => r.doc.fire = 0)
    BY <1>1, <2>2, <2>3
  <2>6. /\ call' \in [Everyone -> CallType] /\ call'[Boot] = r
        /\ \A d \in Everyone : d # Boot => call'[d] = call[d]
        /\ Recurring => \A d \in Everyone : call'[d].doc.fire = 0
    BY <1>1, <2>1, <2>3, <2>4, <2>5, CallFacts
  <2> QED
    BY <1>1, <1>3, <2>2, <2>5, <2>6
<1> QED
  BY <1>2, <1>3

\* What a step has to leave behind for the types to hold.
LEMMA TypedKept ==
    ASSUME Typed, task' = task, row' \in RowType, crons' \in [Crons -> FireType],
           jobs' \in Crons \cup {NoJob}, run' \in [Runs -> RunType], call' \in [Everyone -> CallType],
           past' \in SUBSET (1..MaxFire), mode' \in {"up", "shut", "down"}, upset' \in BOOLEAN,
           Recurring => row'.fire = 0, Recurring => \A d \in Everyone : call'[d].doc.fire = 0
    PROVE  Typed'
BY DEF Typed, Recurring

\* The conjuncts of Typed, one by one.
LEMMA TypedNow ==
    ASSUME Typed
    PROVE  /\ row \in RowType /\ crons \in [Crons -> FireType] /\ jobs \in Crons \cup {NoJob}
           /\ run \in [Runs -> RunType] /\ call \in [Everyone -> CallType]
           /\ past \in SUBSET (1..MaxFire) /\ mode \in {"up", "shut", "down"} /\ upset \in BOOLEAN
           /\ (Recurring => row.fire = 0) /\ (Recurring => \A d \in Everyone : call[d].doc.fire = 0)
           /\ NoJob \in Crons \cup {NoJob}
BY DEF Typed

\* The start of a call keeps the shape of the state and of every Cron.
LEMMA CallStepSound ==
    ASSUME Sound, NEW c \in Callers, Create(c) \/ CallResumeOrUpdate(c) \/ CallPause(c) \/ CallDelete(c)
    PROVE  Sound'
<1>1. /\ row \in RowType /\ crons \in [Crons -> FireType] /\ jobs \in Crons \cup {NoJob}
      /\ run \in [Runs -> RunType] /\ call \in [Everyone -> CallType]
      /\ past \in SUBSET (1..MaxFire) /\ mode \in {"up", "shut", "down"} /\ upset \in BOOLEAN
      /\ (Recurring => row.fire = 0) /\ (Recurring => \A d \in Everyone : call[d].doc.fire = 0)
      /\ Typed /\ AllCrons
  BY TypedNow DEF Sound
<1>2. CASE Create(c)
  <2>1. /\ crons' = crons /\ jobs' = jobs /\ run' = run /\ past' = past /\ task' = task /\ mode' = mode
        /\ Begins(c)
    BY <1>2 DEF Create, mem
  <2>2. upset' \in BOOLEAN
    BY <1>1, <2>1, BeginsFacts
  <2>3. /\ row' \in RowType /\ call' \in [Everyone -> CallType]
        /\ Recurring => row'.fire = 0
        /\ Recurring => \A d \in Everyone : call'[d].doc.fire = 0
    BY <1>1, <1>2, CreateFacts
  <2>4. AllCrons'
    BY <1>1, <2>1, UntouchedKeeps
  <2>5. Typed'
    BY <1>1, <2>1, <2>2, <2>3, TypedKept
  <2> QED
    BY <2>4, <2>5 DEF Sound
<1>3. CASE CallResumeOrUpdate(c)
  <2>1. /\ crons' = crons /\ jobs' = jobs /\ run' = run /\ past' = past /\ task' = task /\ mode' = mode
        /\ row' = row
    BY <1>3 DEF CallResumeOrUpdate, mem
  <2>2. PICK o \in {"resume", "edit", "reschedule"} : Ask(c, o)
    BY <1>3 DEF CallResumeOrUpdate
  <2>3. upset' \in BOOLEAN
    BY <1>1, <2>2, BeginsFacts DEF Ask
  <2>4. call' \in [Everyone -> CallType] /\ (Recurring => \A d \in Everyone : call'[d].doc.fire = 0)
    BY <1>1, <2>2, AskFacts
  <2>5. AllCrons'
    BY <1>1, <2>1, UntouchedKeeps
  <2>6. Typed'
    BY <1>1, <2>1, <2>3, <2>4, TypedKept
  <2> QED
    BY <2>5, <2>6 DEF Sound
<1>4. CASE CallPause(c)
  <2>1. /\ jobs' = jobs /\ run' = run /\ past' = past /\ task' = task /\ mode' = mode
        /\ row' = row /\ Ask(c, "pause")
    BY <1>4 DEF CallPause
  <2>2. upset' \in BOOLEAN
    BY <1>1, <2>1, BeginsFacts DEF Ask
  <2>3. call' \in [Everyone -> CallType] /\ (Recurring => \A d \in Everyone : call'[d].doc.fire = 0)
    BY <1>1, <2>1, AskFacts
  <2>4. AllCrons' /\ crons' \in [Crons -> FireType]
    BY <1>1, <1>4, PauseGood
  <2>5. Typed'
    BY <1>1, <2>1, <2>2, <2>3, <2>4, TypedKept
  <2> QED
    BY <2>4, <2>5 DEF Sound
<1>5. CASE CallDelete(c)
  <2>1. /\ jobs' = NoJob /\ crons' = Deactivated /\ run' = run /\ past' = past /\ task' = task
        /\ mode' = mode /\ row' = row /\ Begins(c)
    BY <1>5 DEF CallDelete
  <2>2. upset' \in BOOLEAN
    BY <1>1, <2>1, BeginsFacts
  <2>3. call' \in [Everyone -> CallType] /\ (Recurring => \A d \in Everyone : call'[d].doc.fire = 0)
    BY <1>1, <1>5, DeleteFacts
  <2>4. AllCrons' /\ crons' \in [Crons -> FireType]
    BY <1>1, <2>1, SilenceKeeps
  <2>5. jobs' \in Crons \cup {NoJob}
    BY <2>1
  <2>6. Typed'
    BY <1>1, <2>1, <2>2, <2>3, <2>4, <2>5, TypedKept
  <2> QED
    BY <2>4, <2>6 DEF Sound
<1> QED
  BY <1>2, <1>3, <1>4, <1>5

\* So does every later step of a call.
LEMMA CallsSound ==
    ASSUME Sound, NEW c \in Everyone, Calls(c)
    PROVE  Sound'
<1>1. /\ row \in RowType /\ crons \in [Crons -> FireType] /\ jobs \in Crons \cup {NoJob}
      /\ run \in [Runs -> RunType] /\ call \in [Everyone -> CallType]
      /\ past \in SUBSET (1..MaxFire) /\ mode \in {"up", "shut", "down"} /\ upset \in BOOLEAN
      /\ (Recurring => row.fire = 0) /\ (Recurring => \A d \in Everyone : call[d].doc.fire = 0)
      /\ Typed /\ AllCrons
  BY TypedNow DEF Sound
<1>2. CASE ActivateStop(c)
  <2>1. /\ jobs' = NoJob /\ crons' = Deactivated /\ run' = run /\ past' = past /\ task' = task
        /\ mode' = mode /\ row' = row /\ upset' = upset
    BY <1>2 DEF ActivateStop, same
  <2>2. call' \in [Everyone -> CallType] /\ (Recurring => \A d \in Everyone : call'[d].doc.fire = 0)
    BY <1>1, <1>2, StopStepFacts
  <2>3. AllCrons' /\ crons' \in [Crons -> FireType]
    BY <1>1, <2>1, SilenceKeeps
  <2>4. jobs' \in Crons \cup {NoJob}
    BY <2>1
  <2>5. Typed'
    BY <1>1, <2>1, <2>2, <2>3, <2>4, TypedKept
  <2> QED
    BY <2>3, <2>5 DEF Sound
<1>3. CASE TooManyErrors(c)
  <2>1. /\ jobs' = jobs /\ crons' = crons /\ run' = run /\ past' = past /\ task' = task
        /\ mode' = mode /\ upset' = upset
        /\ SetStatus("paused") /\ call' = [call EXCEPT ![c] = Activated(c)]
    BY <1>3 DEF TooManyErrors, same, mem
  <2>2. call' \in [Everyone -> CallType] /\ (Recurring => \A d \in Everyone : call'[d].doc.fire = 0)
    BY <1>1, <2>1, ReturnFacts
  <2>3. row' \in RowType /\ (Recurring => row'.fire = 0)
    BY <1>1, <2>1, StatusFacts DEF Statuses
  <2>4. AllCrons'
    BY <1>1, <2>1, UntouchedKeeps
  <2>5. Typed'
    BY <1>1, <2>1, <2>2, <2>3, TypedKept
  <2> QED
    BY <2>4, <2>5 DEF Sound
<1>4. CASE ActivateStart(c)
  <2>1. /\ run' = run /\ past' = past /\ task' = task
        /\ mode' = mode /\ upset' = upset /\ row' = row
        /\ call' = [call EXCEPT ![c] = Activated(c)]
    BY <1>4 DEF ActivateStart, same
  <2>2. call' \in [Everyone -> CallType] /\ (Recurring => \A d \in Everyone : call'[d].doc.fire = 0)
    BY <1>1, <2>1, ReturnFacts
  <2>3. AllCrons' /\ crons' \in [Crons -> FireType] /\ jobs' \in Crons
    BY <1>1, <1>4, ActivateStartGood
  <2>4. jobs' \in Crons \cup {NoJob}
    BY <2>3
  <2>5. Typed'
    BY <1>1, <2>1, <2>2, <2>3, <2>4, TypedKept
  <2> QED
    BY <2>3, <2>5 DEF Sound
<1>5. CASE Write(c)
  <2>1. /\ jobs' = jobs /\ crons' = crons /\ run' = run /\ past' = past /\ task' = task
        /\ mode' = mode /\ upset' = upset
    BY <1>5 DEF Write, same, mem
  <2>2. /\ call' \in [Everyone -> CallType] /\ (Recurring => \A d \in Everyone : call'[d].doc.fire = 0)
        /\ row' \in RowType /\ (Recurring => row'.fire = 0)
    BY <1>1, <1>5, WriteFacts
  <2>3. AllCrons'
    BY <1>1, <2>1, UntouchedKeeps
  <2>4. Typed'
    BY <1>1, <2>1, <2>2, TypedKept
  <2> QED
    BY <2>3, <2>4 DEF Sound
<1>6. CASE Remove(c)
  <2>1. /\ jobs' = jobs /\ crons' = crons /\ run' = run /\ past' = past /\ task' = task
        /\ mode' = mode /\ upset' = upset
        /\ row' = [NoRow EXCEPT !.status = "deleted"] /\ call' = [call EXCEPT ![c] = Idle]
    BY <1>6 DEF Remove, same, mem
  <2>2. call' \in [Everyone -> CallType] /\ (Recurring => \A d \in Everyone : call'[d].doc.fire = 0)
    BY <1>1, <2>1, IdleFacts
  <2>3. row' \in RowType /\ row'.fire = 0
    BY <2>1, EmptyFacts DEF RowType
  <2>4. AllCrons'
    BY <1>1, <2>1, UntouchedKeeps
  <2>5. Typed'
    BY <1>1, <2>1, <2>2, <2>3, TypedKept
  <2> QED
    BY <2>4, <2>5 DEF Sound
<1>7. CASE BreakOff(c)
  <2>1. /\ jobs' = jobs /\ crons' = crons /\ run' = run /\ past' = past /\ task' = task
        /\ mode' = mode /\ upset' = TRUE /\ row' = row /\ call' = [call EXCEPT ![c] = Idle]
    BY <1>7 DEF BreakOff, mem
  <2>2. call' \in [Everyone -> CallType] /\ (Recurring => \A d \in Everyone : call'[d].doc.fire = 0)
    BY <1>1, <2>1, IdleFacts
  <2>3. AllCrons'
    BY <1>1, <2>1, UntouchedKeeps
  <2>4. Typed'
    BY <1>1, <2>1, <2>2, TypedKept
  <2> QED
    BY <2>3, <2>4 DEF Sound
<1> QED
  BY <1>2, <1>3, <1>4, <1>5, <1>6, <1>7 DEF Calls

\* A step of an execution is one of these.
Moves(e) ==
    \/ Read(e) \/ Succeeds(e) \/ Fails(e) \/ Complete(e) \/ CompleteThrows(e)
    \/ Count(e) \/ PauseFailing(e) \/ Deactivate(e) \/ End(e)
    \/ Rejects(e) \/ HandleError(e)

\* The steps of an execution that leave the Crons alone.
LEMMA MovesSound ==
    ASSUME Sound, NEW e \in Runs, NEW p, NEW q \in ExecutionPlaces, At(e, p, q),
           crons' = crons, jobs' = jobs, past' = past, task' = task, mode' = mode, upset' = upset,
           call' = call, row' \in RowType, row'.fire = row.fire
    PROVE  Sound'
<1>1. /\ row \in RowType /\ crons \in [Crons -> FireType] /\ jobs \in Crons \cup {NoJob}
      /\ run \in [Runs -> RunType] /\ call \in [Everyone -> CallType]
      /\ past \in SUBSET (1..MaxFire) /\ mode \in {"up", "shut", "down"} /\ upset \in BOOLEAN
      /\ (Recurring => row.fire = 0) /\ (Recurring => \A d \in Everyone : call[d].doc.fire = 0)
      /\ Typed /\ AllCrons
  BY TypedNow DEF Sound
<1>2. /\ run' \in [Runs -> RunType]
      /\ run'[e].cron = run[e].cron /\ run'[e].via = run[e].via
      /\ \A f \in Runs : f # e => run'[f] = run[f]
  BY <1>1, AtFacts
<1>3. AllCrons'
  BY <1>1, <1>2, UntouchedKeeps
<1>4. Typed'
  BY <1>1, <1>2, TypedKept
<1> QED
  BY <1>3, <1>4 DEF Sound

\* incrementErrorCount counts one error, in the row and in the ghost, if the
\* row is there.
LEMMA CountRow ==
    ASSUME Typed, NEW e \in Runs, Count(e)
    PROVE  /\ row' \in RowType /\ row'.fire = row.fire /\ row'.status = row.status
           /\ Exists(row) => row'.errors = row.errors + 1 /\ failures' = failures + 1
           /\ ~Exists(row) => row' = row /\ failures' = failures
<1>1. row \in RowType /\ row.errors \in Nat
  BY RowParts DEF Typed
<1>2. CASE Exists(row)
  <2>1. PICK n : n = row.errors + 1
    OBVIOUS
  <2>2. row' = [row EXCEPT !.errors = n] /\ n \in Nat
    BY <1>1, <1>2, <2>1 DEF Count
  <2>3. row' \in RowType /\ row'.fire = row.fire /\ row'.status = row.status /\ row'.errors = n
    BY <1>1, <2>2 DEF RowType
  <2>4. failures' = failures + 1
    BY <1>2 DEF Count
  <2> QED
    BY <1>2, <2>1, <2>3, <2>4
<1>3. CASE ~Exists(row)
  BY <1>1, <1>3 DEF Count
<1> QED
  BY <1>2, <1>3

\* handleError() adds one error or none, in the row and in its own history.
LEMMA HandleErrorRow ==
    ASSUME Typed, NEW e \in Runs, HandleError(e)
    PROVE  /\ row' \in RowType /\ row'.fire = row.fire /\ row'.status = row.status
           /\ \/ row' = row /\ rejected' = rejected
              \/ Exists(row) /\ row'.errors = row.errors + 1 /\ rejected' = rejected + 1
           /\ run[e].at = "error" /\ run' \in [Runs -> RunType] /\ run'[e] = NoRun
           /\ \A f \in Runs : f # e => run'[f] = run[f]
           /\ run[e].cron = NoJob
<1>1. row \in RowType /\ row.errors \in Nat /\ run \in [Runs -> RunType]
  BY RowParts DEF Typed
<1>2. run[e].at = "error" /\ run' = [run EXCEPT ![e] = NoRun]
  BY DEF HandleError
<1>3. /\ run' \in [Runs -> RunType] /\ run'[e] = NoRun
      /\ \A f \in Runs : f # e => run'[f] = run[f]
  BY <1>1, <1>2, EmptyFacts
<1>4. run[e].cron = NoJob
  BY <1>1, <1>2, RunParts
<1>5. CASE row' = row /\ rejected' = rejected
  BY <1>1, <1>2, <1>3, <1>4, <1>5
<1>6. CASE Exists(row) /\ row' = [row EXCEPT !.errors = row.errors + 1] /\ rejected' = rejected + 1
  <2>1. PICK n : n = row.errors + 1
    OBVIOUS
  <2>2. row' = [row EXCEPT !.errors = n] /\ n \in Nat
    BY <1>1, <1>6, <2>1
  <2>3. row' \in RowType /\ row'.fire = row.fire /\ row'.status = row.status /\ row'.errors = n
    BY <1>1, <2>2 DEF RowType
  <2> QED
    BY <1>2, <1>3, <1>4, <1>6, <2>1, <2>3
<1> QED
  BY <1>5, <1>6 DEF HandleError

\* Every step of an execution keeps the shape of the state and of every Cron.
LEMMA RunsSoundStep ==
    ASSUME Sound, NEW e \in Runs, Moves(e)
    PROVE  Sound'
<1>1. /\ row \in RowType /\ crons \in [Crons -> FireType] /\ jobs \in Crons \cup {NoJob}
      /\ run \in [Runs -> RunType] /\ call \in [Everyone -> CallType]
      /\ past \in SUBSET (1..MaxFire) /\ mode \in {"up", "shut", "down"} /\ upset \in BOOLEAN
      /\ (Recurring => row.fire = 0) /\ (Recurring => \A d \in Everyone : call[d].doc.fire = 0)
      /\ Typed /\ AllCrons
  BY TypedNow DEF Sound
<1>2. CASE Read(e) \/ Succeeds(e) \/ Fails(e) \/ CompleteThrows(e)
  <2>1. /\ jobs' = jobs /\ crons' = crons /\ past' = past /\ task' = task
        /\ mode' = mode /\ upset' = upset /\ row' = row /\ call' = call
    BY <1>2 DEF Read, Succeeds, Fails, CompleteThrows, same, mem
  <2>2. PICK p \in ExecutionPlaces, q \in ExecutionPlaces : At(e, p, q)
    BY <1>2 DEF Read, Succeeds, Fails, CompleteThrows, ExecutionPlaces
  <2> QED
    BY <1>1, <2>1, <2>2, MovesSound
<1>3. CASE Complete(e) \/ PauseFailing(e)
  <2>1. /\ jobs' = jobs /\ crons' = crons /\ past' = past /\ task' = task
        /\ mode' = mode /\ upset' = upset /\ call' = call
    BY <1>3 DEF Complete, PauseFailing, same, mem
  <2>2. PICK s \in Statuses : SetStatus(s)
    BY <1>3 DEF Complete, PauseFailing, Statuses
  <2>3. row' \in RowType /\ row'.fire = row.fire
    BY <1>1, <2>2, StatusFacts
  <2>4. PICK p \in ExecutionPlaces, q \in ExecutionPlaces : At(e, p, q)
    BY <1>3 DEF Complete, PauseFailing, ExecutionPlaces
  <2> QED
    BY <2>1, <2>3, <2>4, MovesSound
<1>4. CASE Count(e)
  <2>1. /\ jobs' = jobs /\ crons' = crons /\ past' = past /\ task' = task
        /\ mode' = mode /\ upset' = upset /\ call' = call
    BY <1>4 DEF Count, same, mem
  <2>2. row' \in RowType /\ row'.fire = row.fire
    BY <1>1, <1>4, CountRow
  <2>3. PICK p \in ExecutionPlaces, q \in ExecutionPlaces : At(e, p, q)
    BY <1>4 DEF Count, ExecutionPlaces
  <2> QED
    BY <2>1, <2>2, <2>3, MovesSound
<1>5. CASE Deactivate(e)
  <2>1. /\ jobs' = NoJob /\ crons' = Deactivated /\ past' = past /\ task' = task
        /\ mode' = mode /\ row' = row /\ upset' = upset /\ call' = call
    BY <1>5 DEF Deactivate, same
  <2>a. PICK p \in ExecutionPlaces, q \in ExecutionPlaces : At(e, p, q)
    BY <1>5 DEF Deactivate, ExecutionPlaces
  <2>2. /\ run' \in [Runs -> RunType]
        /\ run'[e].cron = run[e].cron /\ run'[e].via = run[e].via
        /\ \A f \in Runs : f # e => run'[f] = run[f]
    BY <1>1, <2>a, AtFacts
  <2>3. AllCrons' /\ crons' \in [Crons -> FireType]
    BY <1>1, <2>1, <2>2, SilenceKeeps
  <2>4. jobs' \in Crons \cup {NoJob}
    BY <2>1
  <2>5. Typed'
    BY <1>1, <2>1, <2>2, <2>3, <2>4, TypedKept
  <2> QED
    BY <2>3, <2>5 DEF Sound
<1>6. CASE End(e) \/ Rejects(e)
  <2>1. /\ AllCrons' /\ crons' \in [Crons -> FireType] /\ run' \in [Runs -> RunType]
        /\ row' = row /\ jobs' = jobs /\ call' = call /\ past' = past /\ task' = task
        /\ mode' = mode /\ upset' = upset
    BY <1>1, <1>6, LeavesFacts
  <2>2. Typed'
    BY <1>1, <2>1, TypedKept
  <2> QED
    BY <2>1, <2>2 DEF Sound
<1>7. CASE HandleError(e)
  <2>1. /\ jobs' = jobs /\ crons' = crons /\ past' = past /\ task' = task
        /\ mode' = mode /\ upset' = upset /\ call' = call
    BY <1>7 DEF HandleError, same, mem
  <2>2. /\ row' \in RowType /\ row'.fire = row.fire /\ run' \in [Runs -> RunType]
        /\ run'[e] = NoRun /\ run[e].cron = NoJob
        /\ \A f \in Runs : f # e => run'[f] = run[f]
    BY <1>1, <1>7, HandleErrorRow
  <2>3. AllCrons'
    BY <1>1, <2>1, <2>2, EmptyFacts, Basics, UntouchedKeeps
  <2>4. Typed'
    BY <1>1, <2>1, <2>2, TypedKept
  <2> QED
    BY <2>3, <2>4 DEF Sound
<1> QED
  BY <1>2, <1>3, <1>4, <1>5, <1>6, <1>7 DEF Moves

Cleared ==
    /\ crons \in [Crons -> FireType] /\ jobs = NoJob /\ run \in [Runs -> RunType]
    /\ call \in [Everyone -> CallType]
    /\ \A d \in Everyone : call[d] = Idle
    /\ \A k \in Crons : crons[k] = NoCron
    /\ \A e \in Runs : run[e] = NoRun
    /\ AllCrons

\* When nothing is left of a process, the shape of its Crons is trivial.
LEMMA ClearedNext == Nothing' => Cleared'
<1>1. Nothing => Cleared
  BY NothingFacts DEF Cleared
<1> QED
  BY <1>1, PTL

\* The timers, the clock, the shutdown, the crash and the boot keep the shape
\* too.
LEMMA ProcessSound ==
    ASSUME Sound, \/ FailMissed \/ CatchUp \/ Trigger \/ TimePasses \/ Shutdown \/ Crash \/ CallBoot
                  \/ \E k \in Crons : Timer(k)
    PROVE  Sound'
<1>1. /\ row \in RowType /\ crons \in [Crons -> FireType] /\ jobs \in Crons \cup {NoJob}
      /\ run \in [Runs -> RunType] /\ call \in [Everyone -> CallType]
      /\ past \in SUBSET (1..MaxFire) /\ mode \in {"up", "shut", "down"} /\ upset \in BOOLEAN
      /\ (Recurring => row.fire = 0) /\ (Recurring => \A d \in Everyone : call[d].doc.fire = 0)
      /\ Typed /\ AllCrons
  BY TypedNow DEF Sound
<1>2. CASE FailMissed
  <2>1. /\ jobs' = jobs /\ crons' = crons /\ run' = run /\ past' = past /\ task' = task
        /\ mode' = mode /\ upset' = upset
        /\ SetStatus("failed") /\ call' = [call EXCEPT ![Boot] = Idle] /\ Boot \in Everyone
    BY <1>2, Basics DEF FailMissed, same, mem
  <2>2. call' \in [Everyone -> CallType] /\ (Recurring => \A d \in Everyone : call'[d].doc.fire = 0)
    BY <1>1, <2>1, IdleFacts
  <2>3. row' \in RowType /\ (Recurring => row'.fire = 0)
    BY <1>1, <2>1, StatusFacts DEF Statuses
  <2>4. AllCrons'
    BY <1>1, <2>1, UntouchedKeeps
  <2>5. Typed'
    BY <1>1, <2>1, <2>2, <2>3, TypedKept
  <2> QED
    BY <2>4, <2>5 DEF Sound
<1>3. CASE CatchUp
  <2>1. /\ jobs' = jobs /\ crons' = crons /\ past' = past /\ task' = task
        /\ mode' = mode /\ upset' = upset /\ row' = row
        /\ Start(NoJob, "boot") /\ call' = [call EXCEPT ![Boot] = Idle] /\ Boot \in Everyone
    BY <1>3, Basics DEF CatchUp, same, mem
  <2>2. call' \in [Everyone -> CallType] /\ (Recurring => \A d \in Everyone : call'[d].doc.fire = 0)
    BY <1>1, <2>1, IdleFacts
  <2>3. run' \in [Runs -> RunType]
    BY <1>1, <2>1, StartFacts
  <2>4. PICK e \in Runs :
          /\ run[e] = NoRun /\ run'[e].cron = NoJob /\ run'[e].via = "boot" /\ run'[e].at = "read"
          /\ \A f \in Runs : f # e => run'[f] = run[f]
    BY <1>1, <2>1, StartFacts
  <2>5. run[e].cron = NoJob
    BY <2>4, EmptyFacts
  <2>6. AllCrons'
    BY <1>1, <2>1, <2>4, <2>5, Basics, UntouchedKeeps
  <2>7. Typed'
    BY <1>1, <2>1, <2>2, <2>3, TypedKept
  <2> QED
    BY <2>6, <2>7 DEF Sound
<1>4. CASE Trigger
  <2>1. /\ jobs' = jobs /\ past' = past /\ task' = task
        /\ mode' = mode /\ row' = row /\ upset' = upset /\ call' = call
    BY <1>4 DEF Trigger, same
  <2>2. AllCrons' /\ crons' \in [Crons -> FireType] /\ run' \in [Runs -> RunType]
    BY <1>1, <1>4, TriggerGood
  <2>3. Typed'
    BY <1>1, <2>1, <2>2, TypedKept
  <2> QED
    BY <2>2, <2>3 DEF Sound
<1>5. CASE TimePasses
  <2>1. /\ jobs' = jobs /\ crons' = crons /\ run' = run /\ task' = task
        /\ mode' = mode /\ row' = row /\ upset' = upset /\ call' = call
        /\ row.fire # 0 /\ past' = past \cup {row.fire}
    BY <1>5 DEF TimePasses, same, mem
  <2>2. past' \in SUBSET (1..MaxFire)
    <3>1. PICK f : f = row.fire
      OBVIOUS
    <3>2. f \in 0..MaxFire /\ f # 0
      BY <1>1, <2>1, <3>1, RowParts
    <3>3. f \in 1..MaxFire
      BY <3>2, Basics
    <3> QED
      BY <1>1, <2>1, <3>1, <3>3
  <2>3. AllCrons'
    BY <1>1, <2>1, UntouchedKeeps
  <2>4. Typed'
    BY <1>1, <2>1, <2>2, TypedKept
  <2> QED
    BY <2>3, <2>4 DEF Sound
<1>6. CASE Shutdown
  <2>1. /\ jobs' = NoJob /\ crons' = Deactivated /\ run' = run /\ past' = past /\ task' = task
        /\ mode' = "shut" /\ row' = row /\ upset' = upset /\ call' = call
    BY <1>6 DEF Shutdown
  <2>2. AllCrons' /\ crons' \in [Crons -> FireType]
    BY <1>1, <2>1, SilenceKeeps
  <2>3. jobs' \in Crons \cup {NoJob} /\ mode' \in {"up", "shut", "down"}
    BY <2>1
  <2>4. Typed'
    BY <1>1, <2>1, <2>2, <2>3, TypedKept
  <2> QED
    BY <2>2, <2>4 DEF Sound
<1>7. CASE Crash
  <2>1. /\ past' = past /\ task' = task /\ mode' = "down" /\ row' = row /\ upset' = FALSE
        /\ Nothing'
    BY <1>7 DEF Crash, Nothing
  <2>2. /\ crons' \in [Crons -> FireType] /\ jobs' = NoJob /\ run' \in [Runs -> RunType]
        /\ call' \in [Everyone -> CallType]
        /\ \A d \in Everyone : call'[d] = Idle
        /\ AllCrons'
    BY <2>1, ClearedNext DEF Cleared
  <2>3. /\ jobs' \in Crons \cup {NoJob} /\ mode' \in {"up", "shut", "down"} /\ upset' \in BOOLEAN
        /\ \A d \in Everyone : call'[d].doc.fire = 0
    BY <2>1, <2>2, EmptyFacts
  <2>4. Typed'
    BY <1>1, <2>1, <2>2, <2>3, TypedKept
  <2> QED
    BY <2>2, <2>4 DEF Sound
<1>8. CASE CallBoot
  <2>1. /\ jobs' = jobs /\ crons' = crons /\ run' = run /\ past' = past /\ task' = task
        /\ row' = row /\ upset' = upset
    BY <1>8 DEF CallBoot, mem
  <2>2. /\ call' \in [Everyone -> CallType] /\ (Recurring => \A d \in Everyone : call'[d].doc.fire = 0)
        /\ mode' = "up"
    BY <1>1, <1>8, BootFacts
  <2>3. mode' \in {"up", "shut", "down"}
    BY <2>2
  <2>4. AllCrons'
    BY <1>1, <2>1, UntouchedKeeps
  <2>5. Typed'
    BY <1>1, <2>1, <2>2, <2>3, TypedKept
  <2> QED
    BY <2>4, <2>5 DEF Sound
<1>9. CASE \E k \in Crons : Timer(k)
  <2>1. PICK k \in Crons : Timer(k)
    BY <1>9
  <2>2. /\ jobs' = jobs /\ task' = task
        /\ mode' = mode /\ row' = row /\ upset' = upset /\ call' = call
    BY <2>1 DEF Timer, same
  <2>3. /\ AllCrons' /\ crons' \in [Crons -> FireType] /\ run' \in [Runs -> RunType]
        /\ past' \in SUBSET (1..MaxFire)
    BY <1>1, <2>1, TimerGood
  <2>4. Typed'
    BY <1>1, <2>2, <2>3, TypedKept
  <2> QED
    BY <2>3, <2>4 DEF Sound
<1> QED
  BY <1>2, <1>3, <1>4, <1>5, <1>6, <1>7, <1>8, <1>9

\* However calls, executions, timers and restarts interleave, every Cron keeps a
\* single chain of scheduled runs.
LEMMA SoundStep ==
    ASSUME Sound, [Next]_cronVars
    PROVE  Sound'
<1>1. CASE \E c \in Callers : Create(c) \/ CallResumeOrUpdate(c) \/ CallPause(c) \/ CallDelete(c)
  BY <1>1, CallStepSound
<1>2. CASE \E c \in Everyone : Calls(c)
  BY <1>2, CallsSound
<1>3. CASE \/ FailMissed \/ CatchUp \/ Trigger \/ TimePasses \/ Shutdown \/ Crash \/ CallBoot
           \/ \E k \in Crons : Timer(k)
  BY <1>3, ProcessSound
<1>4. CASE \E e \in Runs : Moves(e)
  BY <1>4, RunsSoundStep
<1>5. CASE UNCHANGED cronVars
  <2>1. /\ jobs' = jobs /\ crons' = crons /\ run' = run /\ past' = past /\ task' = task
        /\ row' = row /\ upset' = upset /\ mode' = mode /\ call' = call
    BY <1>5 DEF cronVars
  <2>2. Typed'
    BY <2>1 DEF Sound, Typed, Recurring
  <2>3. AllCrons'
    BY <2>1, UntouchedKeeps DEF Sound
  <2> QED
    BY <2>2, <2>3 DEF Sound
<1> QED
  BY <1>1, <1>2, <1>3, <1>4, <1>5 DEF Next, Moves

\* Steps that need something in memory.
Working ==
    \/ \E c \in Everyone : Calls(c)
    \/ FailMissed \/ CatchUp \/ Trigger
    \/ \E k \in Crons : Timer(k)
    \/ \E e \in Runs : Moves(e)

\* Only an execution that was started moves.
LEMMA MovesFrom ==
    ASSUME NEW e \in Runs, Moves(e)
    PROVE  run[e].at # "idle"
BY DEF Moves, Read, Succeeds, Fails, Complete, CompleteThrows, Count, PauseFailing, Deactivate,
       End, Rejects, HandleError, At

\* Only a call that was started moves.
LEMMA CallsFrom ==
    ASSUME NEW c \in Everyone, Calls(c)
    PROVE  call[c].at # "idle"
BY DEF Calls, ActivateStop, TooManyErrors, ActivateStart, Write, Remove, BreakOff

\* When nothing is left of a process, none of its steps is possible.
LEMMA WorkingMeans ==
    ASSUME Working, Nothing
    PROVE  FALSE
<1>1. /\ jobs = NoJob /\ \A k \in Crons : crons[k] = NoCron
      /\ \A e \in Runs : run[e].at = "idle"
      /\ \A c \in Everyone : call[c].at = "idle"
  BY NothingFacts, EmptyFacts
<1>2. CASE \E c \in Everyone : Calls(c)
  BY <1>1, <1>2, CallsFrom
<1>3. CASE FailMissed \/ CatchUp
  BY <1>1, <1>3, Basics DEF FailMissed, CatchUp
<1>4. CASE Trigger
  BY <1>1, <1>4 DEF Trigger
<1>5. CASE \E k \in Crons : Timer(k)
  BY <1>1, <1>5, NoCronFacts DEF Timer
<1>6. CASE \E e \in Runs : Moves(e)
  BY <1>1, <1>6, MovesFrom
<1> QED
  BY <1>2, <1>3, <1>4, <1>5, <1>6 DEF Working

\* The row does not come back once it is deleted, and its errors do not decrease.
Grows == ~Exists(row)' \/ (Exists(row) /\ row'.errors >= row.errors)

\* A status write keeps the error count and neither creates nor removes a row.
LEMMA StatusGrows ==
    ASSUME Typed, NEW s \in Statuses, SetStatus(s)
    PROVE  /\ Grows /\ row'.errors = row.errors
           /\ Exists(row)' <=> Exists(row)
           /\ row'.status = "none" => row.status = "none"
<1>1. row \in RowType /\ row.errors \in Nat
  BY RowParts DEF Typed
<1>2. /\ row' \in RowType /\ row'.errors = row.errors
      /\ Exists(row) => row'.status = s
      /\ ~Exists(row) => row' = row
  BY <1>1, StatusFacts
<1>3. Exists(row)' <=> Exists(row)
  BY <1>2 DEF Exists
<1>4. row'.errors >= row.errors
  BY <1>1, <1>2
<1> QED
  BY <1>2, <1>3, <1>4 DEF Grows, Exists, Statuses

\* A step that leaves the row alone counts no error and loses none.
LEMMA SameRow ==
    ASSUME Typed, row' = row
    PROVE  Grows
<1>1. row.errors \in Nat
  BY RowParts DEF Typed
<1> QED
  BY <1>1 DEF Grows, Exists

\* What the steps that need something in memory do to the row.
LEMMA WorkingRow ==
    ASSUME Typed, Working
    PROVE  /\ Grows /\ mode' = mode /\ task' = task /\ (upset' = upset \/ upset' = TRUE)
           /\ row'.status = "none" => row.status = "none"
           /\ Exists(row)' => Exists(row)
           /\ \/ row'.errors = row.errors /\ failures' = failures /\ rejected' = rejected
              \/ ~Exists(row)' /\ failures' = 0 /\ rejected' = 0
              \/ /\ Exists(row) /\ row'.errors = row.errors + 1
                 /\ \/ failures' = failures + 1 /\ rejected' = rejected
                    \/ failures' = failures /\ rejected' = rejected + 1
           /\ throws' = throws \/ throws' = throws + 1
<1>1. row \in RowType /\ row.errors \in Nat
  BY RowParts DEF Typed
<1>2. CASE /\ row' = row /\ failures' = failures /\ rejected' = rejected /\ mode' = mode /\ task' = task
           /\ upset' = upset \/ upset' = TRUE
           /\ throws' = throws \/ throws' = throws + 1
  BY <1>2, SameRow DEF Exists
<1>3. CASE /\ \E s \in Statuses : SetStatus(s)
           /\ failures' = failures /\ rejected' = rejected /\ mode' = mode /\ task' = task
           /\ upset' = upset /\ throws' = throws
  BY <1>3, StatusGrows
<1>4. ASSUME NEW c \in Everyone, Write(c)
      PROVE  /\ Grows /\ mode' = mode /\ task' = task /\ upset' = upset
             /\ row'.status = "none" => row.status = "none"
             /\ Exists(row)' => Exists(row)
             /\ row'.errors = row.errors /\ failures' = failures /\ rejected' = rejected
             /\ throws' = throws
  <2>1. /\ row'.errors = row.errors
        /\ ~Exists(row) => row' = row
        /\ Exists(row) => Exists(row)'
    BY <1>4, WriteFacts
  <2>2. /\ failures' = failures /\ rejected' = rejected /\ mode' = mode /\ task' = task
        /\ upset' = upset /\ throws' = throws
    BY <1>4 DEF Write, same
  <2>3. Exists(row)' => Exists(row)
    BY <2>1 DEF Exists
  <2>4. row'.status = "none" => row.status = "none"
    BY <2>1 DEF Exists, Statuses
  <2>5. row'.errors >= row.errors
    BY <1>1, <2>1
  <2> QED
    BY <2>1, <2>2, <2>3, <2>4, <2>5 DEF Grows
<1>5. ASSUME NEW c \in Everyone, Remove(c)
      PROVE  /\ ~Exists(row)' /\ row'.status = "deleted" /\ failures' = 0 /\ rejected' = 0
             /\ mode' = mode /\ task' = task /\ upset' = upset /\ throws' = throws
  <2>1. row' = [NoRow EXCEPT !.status = "deleted"]
    BY <1>5 DEF Remove
  <2>2. row'.status = "deleted"
    BY <2>1 DEF NoRow, Row
  <2> QED
    BY <1>5, <2>2 DEF Remove, same, Exists, Statuses
<1>6. ASSUME NEW e \in Runs, Count(e)
      PROVE  /\ Grows /\ mode' = mode /\ task' = task /\ upset' = upset
             /\ row'.status = row.status /\ (Exists(row)' => Exists(row))
             /\ \/ row'.errors = row.errors /\ failures' = failures
                \/ Exists(row) /\ row'.errors = row.errors + 1 /\ failures' = failures + 1
             /\ rejected' = rejected /\ throws' = throws
  <2>1. /\ row'.status = row.status
        /\ Exists(row) => row'.errors = row.errors + 1 /\ failures' = failures + 1
        /\ ~Exists(row) => row' = row /\ failures' = failures
    BY <1>6, CountRow
  <2>2. mode' = mode /\ task' = task /\ upset' = upset /\ rejected' = rejected /\ throws' = throws
    BY <1>6 DEF Count, same
  <2>3. Exists(row)' <=> Exists(row)
    BY <2>1 DEF Exists
  <2>4. Exists(row) => row'.errors >= row.errors
    BY <1>1, <2>1
  <2> QED
    BY <2>1, <2>2, <2>3, <2>4 DEF Grows
<1>a. ASSUME NEW e \in Runs, HandleError(e)
      PROVE  /\ Grows /\ mode' = mode /\ task' = task /\ upset' = upset
             /\ row'.status = row.status /\ (Exists(row)' => Exists(row))
             /\ \/ row'.errors = row.errors /\ rejected' = rejected
                \/ Exists(row) /\ row'.errors = row.errors + 1 /\ rejected' = rejected + 1
             /\ failures' = failures /\ throws' = throws
  <2>1. /\ row'.status = row.status
        /\ \/ row' = row /\ rejected' = rejected
           \/ Exists(row) /\ row'.errors = row.errors + 1 /\ rejected' = rejected + 1
    BY <1>a, HandleErrorRow
  <2>2. mode' = mode /\ task' = task /\ upset' = upset /\ failures' = failures /\ throws' = throws
    BY <1>a DEF HandleError, same
  <2>3. Exists(row)' <=> Exists(row)
    BY <2>1 DEF Exists
  <2>4. row'.errors >= row.errors
    BY <1>1, <2>1
  <2> QED
    BY <2>1, <2>2, <2>3, <2>4 DEF Grows
<1>7. CASE \E c \in Everyone : Calls(c)
  <2>1. PICK c \in Everyone : Calls(c)
    BY <1>7
  <2>2. CASE ActivateStop(c) \/ ActivateStart(c)
    BY <1>2, <2>2 DEF ActivateStop, ActivateStart, same
  <2>3. CASE TooManyErrors(c)
    <3>1. "paused" \in Statuses
      BY DEF Statuses
    <3> QED
      BY <1>3, <2>3, <3>1 DEF TooManyErrors, same
  <2>4. CASE Write(c)
    BY <1>4, <2>4
  <2>5. CASE Remove(c)
    BY <1>5, <2>5 DEF Grows
  <2>6. CASE BreakOff(c)
    BY <1>2, <2>6 DEF BreakOff, Throws
  <2> QED
    BY <2>1, <2>2, <2>3, <2>4, <2>5, <2>6 DEF Calls
<1>8. CASE FailMissed
  <2>1. "failed" \in Statuses
    BY DEF Statuses
  <2> QED
    BY <1>3, <1>8, <2>1 DEF FailMissed, same
<1>9. CASE CatchUp \/ Trigger
  BY <1>2, <1>9 DEF CatchUp, Trigger, same
<1>10. CASE \E k \in Crons : Timer(k)
  BY <1>2, <1>10 DEF Timer, same
<1>11. CASE \E e \in Runs : Moves(e)
  <2>1. PICK e \in Runs : Moves(e)
    BY <1>11
  <2>2. CASE Read(e) \/ Succeeds(e) \/ Fails(e) \/ Deactivate(e)
    BY <1>2, <2>2 DEF Read, Succeeds, Fails, Deactivate, same
  <2>3. CASE CompleteThrows(e) \/ End(e) \/ Rejects(e)
    BY <1>2, <2>3 DEF CompleteThrows, End, Rejects, Settles, Throws
  <2>4. CASE Complete(e) \/ PauseFailing(e)
    <3>1. "paused" \in Statuses /\ "completed" \in Statuses
      BY DEF Statuses
    <3> QED
      BY <1>3, <2>4, <3>1 DEF Complete, PauseFailing, same
  <2>5. CASE Count(e)
    BY <1>6, <2>5
  <2>6. CASE HandleError(e)
    BY <1>a, <2>6
  <2> QED
    BY <2>1, <2>2, <2>3, <2>4, <2>5, <2>6 DEF Moves
<1> QED
  BY <1>7, <1>8, <1>9, <1>10, <1>11 DEF Working

\* What an execution on its way out has found stays true: the errors do not
\* become fewer, nor the throws.
LEMMA ReasonKept ==
    ASSUME Typed, Typed', Grows, task' = task, throws # 0 => throws' # 0,
           NEW e \in Runs, Reason(e), run'[e].at = run[e].at
    PROVE  Reason(e)'
<1>1. row.errors \in Nat /\ row'.errors \in Nat /\ MaxErrors \in Nat
  BY RowParts, Basics DEF Typed
<1>2. ~Exists(row) => ~Exists(row)'
  BY DEF Grows
<1>3. row.errors >= MaxErrors => ~Exists(row)' \/ row'.errors >= MaxErrors
  BY <1>1 DEF Grows
<1>4. Recurring' <=> Recurring
  BY DEF Recurring
<1> QED
  BY <1>2, <1>3, <1>4 DEF Reason

\* Everywhere else an execution needs none.
Grave == {"pause", "complete", "retire", "deactivate", "error"}

\* A step that brings no execution to such a place.
LEMMA HeavyKept ==
    ASSUME Typed, Typed', Heavy, Grows, task' = task, throws # 0 => throws' # 0,
           \A e \in Runs : run'[e].at = run[e].at \/ run'[e].at \notin Grave
    PROVE  Heavy'
<1> SUFFICES ASSUME NEW e \in Runs PROVE Reason(e)'
  BY DEF Heavy
<1>1. CASE run'[e].at \notin Grave
  BY <1>1 DEF Reason, Grave
<1>2. CASE run'[e].at = run[e].at
  BY <1>2, ReasonKept DEF Heavy
<1> QED
  BY <1>1, <1>2

\* Where the executions are after a step of the calls, of the timers and of the
\* process.
LEMMA OthersKeepRuns ==
    ASSUME Typed, AllCrons,
           \/ \E c \in Callers : Create(c) \/ CallResumeOrUpdate(c) \/ CallPause(c) \/ CallDelete(c)
           \/ \E c \in Everyone : Calls(c)
           \/ FailMissed \/ CatchUp \/ Trigger \/ TimePasses \/ Shutdown \/ Crash \/ CallBoot
           \/ \E k \in Crons : Timer(k)
    PROVE  \A e \in Runs : run'[e].at = run[e].at \/ run'[e].at \in {"idle", "read"}
<1>1. CASE run' = run
  BY <1>1
<1>2. CASE CatchUp
  <2>1. PICK e \in Runs :
          /\ run[e] = NoRun /\ run'[e].cron = NoJob /\ run'[e].via = "boot" /\ run'[e].at = "read"
          /\ \A f \in Runs : f # e => run'[f] = run[f]
    BY <1>2, StartFacts DEF CatchUp
  <2> QED
    BY <2>1
<1>3. CASE Trigger
  BY <1>3, TriggerGood
<1>4. CASE \E k \in Crons : Timer(k)
  BY <1>4, TimerGood
<1>5. CASE Crash
  <2>1. run' = [e \in Runs |-> NoRun]
    BY <1>5 DEF Crash
  <2> QED
    BY <2>1, EmptyFacts
<1>6. CASE \E c \in Callers : Create(c) \/ CallResumeOrUpdate(c) \/ CallPause(c) \/ CallDelete(c)
  BY <1>1, <1>6 DEF Create, CallResumeOrUpdate, CallPause, CallDelete
<1>7. CASE \E c \in Everyone : Calls(c)
  BY <1>1, <1>7 DEF Calls, ActivateStop, TooManyErrors, ActivateStart, Write, Remove, BreakOff
<1>8. CASE FailMissed \/ TimePasses \/ Shutdown \/ CallBoot
  BY <1>1, <1>8 DEF FailMissed, TimePasses, Shutdown, CallBoot
<1> QED
  BY <1>2, <1>3, <1>4, <1>5, <1>6, <1>7, <1>8

\* An execution goes from one place to another.
LEMMA MovesAt ==
    ASSUME NEW e \in Runs, Moves(e), ~End(e), ~Rejects(e), ~HandleError(e)
    PROVE  \E p \in ExecutionPlaces, q \in ExecutionPlaces : At(e, p, q)
<1>1. CASE Read(e)
  BY <1>1 DEF Read, ExecutionPlaces
<1>2. CASE Succeeds(e) \/ Fails(e)
  BY <1>2 DEF Succeeds, Fails, ExecutionPlaces
<1>3. CASE Complete(e) \/ CompleteThrows(e) \/ PauseFailing(e)
  BY <1>3 DEF Complete, CompleteThrows, PauseFailing, ExecutionPlaces
<1>4. CASE Count(e) \/ Deactivate(e)
  BY <1>4 DEF Count, Deactivate, ExecutionPlaces
<1> QED
  BY <1>1, <1>2, <1>3, <1>4 DEF Moves

\* And the others stay where they are.
LEMMA MovesAlone ==
    ASSUME Typed, AllCrons, NEW e \in Runs, Moves(e)
    PROVE  \A f \in Runs : f # e => run'[f] = run[f]
<1>1. CASE End(e) \/ Rejects(e)
  BY <1>1, LeavesFacts
<1>2. CASE HandleError(e)
  BY <1>2, HandleErrorRow
<1>3. CASE ~End(e) /\ ~Rejects(e) /\ ~HandleError(e)
  <2>1. PICK p \in ExecutionPlaces, q \in ExecutionPlaces : At(e, p, q)
    BY <1>3, MovesAt
  <2> QED
    BY <2>1, AtFacts
<1> QED
  BY <1>1, <1>2, <1>3

\* The steps by what they need.
LEMMA StepKinds ==
    ASSUME [Next]_cronVars
    PROVE  \/ Working
           \/ \E c \in Callers : Create(c) \/ CallResumeOrUpdate(c) \/ CallPause(c) \/ CallDelete(c)
           \/ TimePasses \/ Shutdown \/ Crash \/ CallBoot \/ UNCHANGED cronVars
BY DEF Next, Working, Moves

\* Before the row is there, and between two processes, nothing runs.
LEMMA BlankStep ==
    ASSUME Sound, Counted, [Next]_cronVars
    PROVE  Blank'
<1>1. /\ Typed /\ Blank
      /\ row.status = "none" => failures = 0 /\ rejected = 0 /\ row = NoRow /\ Nothing
      /\ mode = "down" => Nothing /\ upset = FALSE
  BY DEF Sound, Counted, Blank
<1>2. CASE Working
  <2>1. row.status # "none" /\ mode # "down"
    BY <1>1, <1>2, WorkingMeans
  <2>2. row'.status # "none" /\ mode' # "down"
    BY <1>1, <1>2, <2>1, WorkingRow
  <2> QED
    BY <2>2 DEF Blank
<1>3. CASE \E c \in Callers : Create(c) \/ CallResumeOrUpdate(c) \/ CallPause(c) \/ CallDelete(c)
  <2>1. PICK c \in Callers : Create(c) \/ CallResumeOrUpdate(c) \/ CallPause(c) \/ CallDelete(c)
    BY <1>3
  <2>2. mode = "up" /\ mode' = mode
    BY <2>1 DEF Create, CallResumeOrUpdate, CallPause, CallDelete, Ask, Begins
  <2>3. CASE Create(c)
    <3>1. row'.status = "active"
      BY <1>1, <2>3, CreateFacts
    <3> QED
      BY <2>2, <3>1 DEF Blank
  <2>4. CASE CallResumeOrUpdate(c) \/ CallPause(c) \/ CallDelete(c)
    <3>1. row # NoRow /\ row' = row
      BY <2>4 DEF CallResumeOrUpdate, CallPause, CallDelete, Ask
    <3>2. row'.status # "none"
      BY <1>1, <3>1
    <3> QED
      BY <2>2, <3>2 DEF Blank
  <2> QED
    BY <2>1, <2>3, <2>4
<1>4. CASE TimePasses \/ UNCHANGED cronVars
  <2>1. /\ row' = row /\ failures' = failures /\ rejected' = rejected /\ mode' = mode /\ upset' = upset
        /\ crons' = crons /\ jobs' = jobs /\ run' = run /\ call' = call
    BY <1>4 DEF TimePasses, cronVars, same, mem
  <2>2. Nothing' <=> Nothing
    BY <2>1 DEF Nothing
  <2> QED
    BY <1>1, <2>1, <2>2 DEF Blank
<1>5. CASE Shutdown
  <2>1. /\ row' = row /\ failures' = failures /\ rejected' = rejected /\ mode' = "shut" /\ jobs' = NoJob
        /\ run' = run /\ call' = call /\ crons' = Deactivated
    BY <1>5 DEF Shutdown
  <2>2. ASSUME Nothing PROVE Nothing'
    <3>1. jobs = NoJob /\ \A k \in Crons : crons[k] = NoCron
      BY <2>2 DEF Nothing
    <3>2. PICK cs : cs = [k \in Crons |-> IF k = jobs THEN StopCron(crons[k]) ELSE crons[k]]
      OBVIOUS
    <3>3. \A k \in Crons : cs[k] = NoCron
      BY <3>1, <3>2, Basics
    <3>4. crons' = Collected(cs, NoJob, run)
      BY <2>1, <3>2 DEF Deactivated
    <3>5. crons' = [k \in Crons |-> NoCron]
      BY <3>3, <3>4 DEF Collected
    <3> QED
      BY <2>1, <2>2, <3>5 DEF Nothing
  <2> QED
    BY <1>1, <2>1, <2>2 DEF Blank
<1>6. CASE Crash
  <2>1. row' = row /\ failures' = failures /\ rejected' = rejected /\ upset' = FALSE /\ Nothing'
    BY <1>6 DEF Crash, Nothing
  <2> QED
    BY <1>1, <2>1 DEF Blank
<1>7. CASE CallBoot
  <2>1. /\ row' = row /\ failures' = failures /\ rejected' = rejected /\ mode' = "up"
        /\ crons' = crons /\ jobs' = jobs /\ run' = run
    BY <1>7 DEF CallBoot, mem
  <2>2. row.status = "none" => call' = call
    BY <1>1, <1>7, BootFacts
  <2>3. row.status = "none" => (Nothing' <=> Nothing)
    BY <2>1, <2>2 DEF Nothing
  <2> QED
    BY <1>1, <2>1, <2>3 DEF Blank
<1> QED
  BY <1>2, <1>3, <1>4, <1>5, <1>6, <1>7, StepKinds

\* The error count of the row and the history.
LEMMA TallyStep ==
    ASSUME Sound, Counted, [Next]_cronVars
    PROVE  ErrorsCounted' /\ Tallies'
<1>1. /\ Typed /\ Tallies /\ (Exists(row) => row.errors = failures + rejected)
      /\ failures \in Nat /\ rejected \in Nat /\ throws \in Nat
      /\ (row.status = "none" => failures = 0 /\ rejected = 0)
  BY DEF Sound, Counted, Blank, ErrorsCounted, Tallies
<1>2. CASE Working
  <2>1. /\ Exists(row)' => Exists(row)
        /\ \/ row'.errors = row.errors /\ failures' = failures /\ rejected' = rejected
           \/ ~Exists(row)' /\ failures' = 0 /\ rejected' = 0
           \/ /\ Exists(row) /\ row'.errors = row.errors + 1
              /\ \/ failures' = failures + 1 /\ rejected' = rejected
                 \/ failures' = failures /\ rejected' = rejected + 1
        /\ throws' = throws \/ throws' = throws + 1
    BY <1>1, <1>2, WorkingRow
  <2>2. Tallies'
    BY <1>1, <2>1 DEF Tallies
  <2>3. Exists(row)' => row'.errors = failures' + rejected'
    BY <1>1, <2>1
  <2> QED
    BY <2>2, <2>3 DEF ErrorsCounted
<1>3. CASE \E c \in Callers : Create(c)
  <2>1. PICK c \in Callers : Create(c)
    BY <1>3
  <2>2. row = NoRow /\ row'.errors = 0
    BY <1>1, <2>1, CreateFacts
  <2>3. failures' = failures /\ rejected' = rejected /\ throws' = throws
    BY <2>1 DEF Create
  <2>4. failures = 0 /\ rejected = 0
    BY <1>1, <2>2, EmptyFacts
  <2> QED
    BY <1>1, <2>2, <2>3, <2>4 DEF ErrorsCounted, Tallies
<1>4. CASE row' = row /\ failures' = failures /\ rejected' = rejected /\ (throws' = throws \/ throws' = 0)
  BY <1>1, <1>4 DEF ErrorsCounted, Exists, Tallies
<1>5. CASE \E c \in Callers : CallResumeOrUpdate(c) \/ CallPause(c) \/ CallDelete(c)
  BY <1>4, <1>5 DEF CallResumeOrUpdate, CallPause, CallDelete
<1>6. CASE TimePasses \/ Shutdown \/ Crash \/ CallBoot \/ UNCHANGED cronVars
  BY <1>4, <1>6 DEF TimePasses, Shutdown, Crash, CallBoot, cronVars, same
<1> QED
  BY <1>2, <1>3, <1>5, <1>6, StepKinds

\* An execution is about to pause, to deactivate or to report to handleError()
\* only with reason; the row may only get worse.
LEMMA HeavyStep ==
    ASSUME Sound, Counted, [Next]_cronVars
    PROVE  Heavy'
<1>1. /\ Typed /\ AllCrons /\ Heavy /\ Typed' /\ (row.status = "none" => Nothing)
      /\ throws \in Nat
  BY SoundStep DEF Sound, Counted, Blank, Tallies
<1>2. \A a \in {"idle", "read"} : a \notin Grave
  BY DEF Grave
<1>3. CASE \E c \in Callers : Create(c)
  <2>1. PICK c \in Callers : Create(c)
    BY <1>3
  <2>2. row = NoRow /\ run' = run
    BY <2>1 DEF Create
  <2>3. \A e \in Runs : run'[e].at = "idle"
    BY <1>1, <2>2, EmptyFacts, NothingFacts
  <2> QED
    BY <2>3 DEF Heavy, Reason
<1>4. CASE \E c \in Callers : CallResumeOrUpdate(c) \/ CallPause(c) \/ CallDelete(c)
  <2>1. row' = row /\ task' = task /\ throws' = throws
    BY <1>4 DEF CallResumeOrUpdate, CallPause, CallDelete
  <2>2. Grows
    BY <1>1, <2>1, SameRow
  <2>3. \A e \in Runs : run'[e].at = run[e].at \/ run'[e].at \in {"idle", "read"}
    BY <1>1, <1>4, OthersKeepRuns
  <2> QED
    BY <1>1, <1>2, <2>1, <2>2, <2>3, HeavyKept
<1>5. CASE TimePasses \/ Shutdown \/ CallBoot
  <2>1. row' = row /\ task' = task /\ throws' = throws
    BY <1>5 DEF TimePasses, Shutdown, CallBoot, same
  <2>2. Grows
    BY <1>1, <2>1, SameRow
  <2>3. \A e \in Runs : run'[e].at = run[e].at \/ run'[e].at \in {"idle", "read"}
    BY <1>1, <1>5, OthersKeepRuns
  <2> QED
    BY <1>1, <1>2, <2>1, <2>2, <2>3, HeavyKept
<1>6. CASE UNCHANGED cronVars
  <2>1. row' = row /\ task' = task /\ run' = run /\ throws' = throws
    BY <1>6 DEF cronVars
  <2> QED
    BY <1>1, <2>1 DEF Heavy, Reason, Exists, Recurring
<1>a. CASE Crash
  <2>1. run' = [e \in Runs |-> NoRun]
    BY <1>a DEF Crash
  <2> QED
    BY <2>1, EmptyFacts DEF Heavy, Reason
<1>b. ASSUME Working
      PROVE  Grows /\ task' = task /\ (throws # 0 => throws' # 0)
  BY <1>1, <1>b, WorkingRow
<1>7. CASE \/ \E c \in Everyone : Calls(c)
           \/ FailMissed \/ CatchUp \/ Trigger
           \/ \E k \in Crons : Timer(k)
  <2>1. Grows /\ task' = task /\ (throws # 0 => throws' # 0)
    BY <1>7, <1>b DEF Working
  <2>2. \A e \in Runs : run'[e].at = run[e].at \/ run'[e].at \in {"idle", "read"}
    BY <1>1, <1>7, OthersKeepRuns
  <2> QED
    BY <1>1, <1>2, <2>1, <2>2, HeavyKept
<1>8. ASSUME NEW e \in Runs, Moves(e)
      PROVE  Heavy'
  <2>1. Grows /\ task' = task /\ (throws # 0 => throws' # 0)
    BY <1>8, <1>b DEF Working
  <2>2. ASSUME NEW f \in Runs, f # e PROVE Reason(f)'
    <3>1. run'[f] = run[f]
      BY <1>1, <1>8, <2>2, MovesAlone
    <3> QED
      BY <1>1, <2>1, <3>1, ReasonKept DEF Heavy
  <2>3. Reason(e)
    BY <1>1 DEF Heavy
  <2>4. /\ Recurring' <=> Recurring
        /\ ~Exists(row) => ~Exists(row)'
    BY <2>1 DEF Recurring, Grows
  <2>5. Reason(e)'
    <3>1. CASE Read(e) \/ Fails(e) \/ CompleteThrows(e) \/ Deactivate(e)
      <4>1. PICK q \in {"work", "end", "count", "notify"} : \E p \in ExecutionPlaces : At(e, p, q)
        BY <3>1 DEF Read, Fails, CompleteThrows, Deactivate, ExecutionPlaces
      <4>2. run'[e].at = q
        BY <1>1, <4>1, AtFacts DEF ExecutionPlaces
      <4> QED
        BY <4>1, <4>2 DEF Reason
    <3>2. CASE End(e) \/ Rejects(e)
      <4>1. /\ run'[e] \in {NoRun, Detached}
            /\ Rejects(e) => throws' = throws + 1
            /\ End(e) => run'[e] = NoRun
        BY <1>1, <3>2, LeavesFacts
      <4>2. run'[e].at = "idle" \/ (run'[e].at = "error" /\ throws' # 0)
        BY <1>1, <3>2, <4>1, EmptyFacts
      <4> QED
        BY <4>2 DEF Reason
    <3>3. CASE HandleError(e)
      <4>1. run'[e].at = "idle"
        BY <1>1, <3>3, HandleErrorRow, EmptyFacts
      <4> QED
        BY <4>1 DEF Reason
    <3>4. CASE Succeeds(e)
      <4>1. run'[e].at = "end" \/ (run'[e].at = "complete" /\ ~Recurring)
        BY <1>1, <3>4 DEF Succeeds, At, Typed
      <4> QED
        BY <2>4, <4>1 DEF Reason
    <3>5. CASE Complete(e)
      <4>1. run[e].at = "complete" /\ run'[e].at = "retire"
        BY <1>1, <3>5 DEF Complete, At, Typed
      <4> QED
        BY <2>3, <2>4, <4>1 DEF Reason
    <3>6. CASE PauseFailing(e)
      <4>1. run[e].at = "pause" /\ run'[e].at = "deactivate" /\ SetStatus("paused")
        BY <1>1, <3>6 DEF PauseFailing, At, Typed
      <4>2. row'.errors = row.errors
        BY <1>1, <4>1, StatusGrows DEF Statuses
      <4> QED
        BY <2>3, <2>4, <4>1, <4>2 DEF Reason
    <3>7. CASE Count(e)
      <4>1. run'[e].at = "notify" \/ (run'[e].at = "pause" /\ row'.errors >= MaxErrors)
        BY <1>1, <3>7 DEF Count, At, Typed
      <4> QED
        BY <4>1 DEF Reason
    <3> QED
      BY <1>8, <3>1, <3>2, <3>3, <3>4, <3>5, <3>6, <3>7 DEF Moves
  <2> QED
    BY <2>2, <2>5 DEF Heavy
<1> QED
  BY <1>3, <1>4, <1>5, <1>6, <1>7, <1>8, <1>a, StepKinds DEF Working

\* Together: the counted errors survive every step.
LEMMA CountedStep ==
    ASSUME Sound, Counted, [Next]_cronVars
    PROVE  Counted'
BY BlankStep, TallyStep, HeavyStep DEF Counted

\* What has noticed the errors is still there after a step.
LEMMA NoticedKept ==
    ASSUME Noticed, \A e \in Runs : run[e].at = "pause" => run'[e].at = "pause",
           \A c \in Everyone : Finds(c) => Finds(c)',
           call[Boot].at = "fail" => call'[Boot].at = "fail"
    PROVE  Noticed'
<1>1. CASE \E e \in Runs : run[e].at = "pause"
  BY <1>1 DEF Noticed
<1>2. CASE \E c \in Everyone : Finds(c)
  BY <1>2 DEF Noticed
<1>3. CASE call[Boot].at = "fail"
  BY <1>3 DEF Noticed
<1> QED
  BY <1>1, <1>2, <1>3 DEF Noticed

\* And so it is when the step touches neither the row nor what has noticed.
LEMMA ExhaustingKept ==
    ASSUME Exhausting, row' = row, mode # "down", throws' = throws,
           \A e \in Runs : run[e].at = "pause" => run'[e].at = "pause",
           \A c \in Everyone : Finds(c) => Finds(c)',
           call[Boot].at = "fail" => call'[Boot].at = "fail"
    PROVE  Exhausting'
<1>1. CASE throws = 0 /\ row.status = "active" /\ row.errors >= MaxErrors
  <2>1. Noticed
    BY <1>1 DEF Exhausting
  <2>2. Noticed'
    BY <2>1, NoticedKept
  <2> QED
    BY <2>2 DEF Exhausting
<1>2. CASE ~(throws = 0 /\ row.status = "active" /\ row.errors >= MaxErrors)
  BY <1>2 DEF Exhausting
<1> QED
  BY <1>1, <1>2

\* A call that has nothing to do with the errors.
LEMMA OtherCalls ==
    ASSUME NEW c \in Everyone, call[c].at \notin {"stop", "start", "fail"},
           \A d \in Everyone : d # c => call'[d] = call[d]
    PROVE  /\ \A d \in Everyone : Finds(d) => Finds(d)'
           /\ call[Boot].at = "fail" => call'[Boot].at = "fail"
<1>1. \A d \in Everyone : Finds(d) => Finds(d)'
  BY DEF Finds
<1>2. Boot \in Everyone
  BY Basics
<1> QED
  BY <1>1, <1>2

\* A call that finds too many errors pauses the task or hands over to one that
\* does.
LEMMA ExhaustingCalls ==
    ASSUME Inv, NEW c \in Everyone, Calls(c)
    PROVE  Exhausting'
<1>1. /\ Typed /\ Exhausting /\ Blank /\ call[c] \in CallType /\ row \in RowType
      /\ MaxErrors \in Nat
  BY Basics DEF Inv, Typed, Counted
<1>2. mode # "down" /\ row.status # "none"
  <2>1. Working
    BY DEF Working
  <2> QED
    BY <1>1, <2>1, WorkingMeans DEF Blank
<1>3. CASE ActivateStop(c)
  <2>1. row' = row /\ run' = run /\ throws' = throws
    BY <1>3 DEF ActivateStop, same
  <2>2. /\ call[c].at = "stop"
        /\ \A d \in Everyone : d # c => call'[d] = call[d]
        /\ call[c].doc.status \notin {"paused", "completed", "cancelled"} =>
              call'[c].at = "start" /\ call'[c].doc = call[c].doc
    BY <1>1, <1>3, StopStepFacts
  <2>3. Finds(c) => Finds(c)'
    BY <2>2 DEF Finds
  <2>4. \A d \in Everyone : Finds(d) => Finds(d)'
    BY <2>2, <2>3 DEF Finds
  <2>5. call[Boot].at = "fail" => call'[Boot].at = "fail"
    BY <2>2, Basics
  <2> QED
    BY <1>1, <1>2, <2>1, <2>4, <2>5, ExhaustingKept
<1>4. CASE TooManyErrors(c)
  <2>1. SetStatus("paused") /\ "paused" \in Statuses
    BY <1>4 DEF TooManyErrors, Statuses
  <2>2. row'.status # "active"
    BY <1>1, <2>1, StatusFacts DEF Exists, Statuses
  <2> QED
    BY <2>2 DEF Exhausting
<1>5. CASE ActivateStart(c)
  <2>1. /\ row' = row /\ run' = run /\ call[c].at = "start" /\ call[c].doc.errors < MaxErrors
        /\ call' = [call EXCEPT ![c] = Activated(c)] /\ throws' = throws
    BY <1>5 DEF ActivateStart, same
  <2>2. \A d \in Everyone : d # c => call'[d] = call[d]
    BY <1>1, <2>1, ReturnFacts
  <2>3. ~Finds(c)
    <3>1. call[c].doc.errors \in Nat
      BY <1>1, CallParts, RowParts
    <3> QED
      BY <1>1, <2>1, <3>1 DEF Finds
  <2>4. \A d \in Everyone : Finds(d) => Finds(d)'
    BY <2>2, <2>3 DEF Finds
  <2>5. call[Boot].at = "fail" => call'[Boot].at = "fail"
    BY <2>1, <2>2, Basics
  <2> QED
    BY <1>1, <1>2, <2>1, <2>4, <2>5, ExhaustingKept
<1>6. CASE Write(c)
  <2>1. /\ call[c].at = "write"
        /\ \A d \in Everyone : d # c => call'[d] = call[d]
        /\ ~Exists(row) => row' = row /\ call'[c].at = "idle"
        /\ Exists(row) /\ call[c].op = "pause" => row'.status = "paused" /\ call'[c].at = "idle"
        /\ Exists(row) /\ call[c].op # "pause" =>
              call'[c].op = "activate" /\ call'[c].at = "stop" /\ call'[c].doc = row'
    BY <1>1, <1>6, WriteFacts
  <2>2. CASE ~Exists(row)
    BY <2>1, <2>2 DEF Exhausting, Exists, Statuses
  <2>3. CASE Exists(row) /\ call[c].op = "pause"
    BY <2>1, <2>3 DEF Exhausting
  <2>4. CASE Exists(row) /\ call[c].op # "pause"
    <3>1. row'.status = "active" /\ row'.errors >= MaxErrors => Finds(c)'
      BY <2>1, <2>4 DEF Finds
    <3> QED
      BY <3>1 DEF Exhausting, Noticed
  <2> QED
    BY <2>2, <2>3, <2>4
<1>7. CASE Remove(c)
  <2>1. row' = [NoRow EXCEPT !.status = "deleted"]
    BY <1>7 DEF Remove
  <2>2. row'.status = "deleted"
    BY <2>1 DEF NoRow, Row
  <2> QED
    BY <2>2 DEF Exhausting
<1>8. CASE BreakOff(c)
  <2>1. throws' = throws + 1 /\ throws \in Nat
    BY <1>8 DEF BreakOff, Throws, Inv, Counted, Tallies
  <2> QED
    BY <2>1 DEF Exhausting
<1> QED
  BY <1>3, <1>4, <1>5, <1>6, <1>7, <1>8 DEF Calls

\* So a task with too many errors is never active without somebody about to
\* notice it, until an await throws.
LEMMA ExhaustingStep ==
    ASSUME Inv, [Next]_cronVars
    PROVE  Exhausting'
<1>1. /\ Typed /\ AllCrons /\ Sound /\ Exhausting /\ Blank /\ row \in RowType
      /\ mode = "down" => Nothing
      /\ throws \in Nat /\ Heavy
  BY DEF Inv, Typed, Counted, Sound, AllCrons, Blank, Tallies
<1>2. ASSUME Working PROVE mode # "down"
  BY <1>1, <1>2, WorkingMeans
<1>3. CASE \E c \in Callers : Create(c)
  <2>1. PICK c \in Callers : Create(c)
    BY <1>3
  <2>2. call'[c].at = "stop" /\ call'[c].doc = row'
    BY <1>1, <2>1, CreateFacts
  <2>3. row'.status = "active" /\ row'.errors >= MaxErrors => Finds(c)'
    BY <2>2 DEF Finds
  <2> QED
    BY <2>3, Basics DEF Exhausting, Noticed
<1>4. CASE \E c \in Callers : CallResumeOrUpdate(c) \/ CallPause(c) \/ CallDelete(c)
  <2>1. PICK c \in Callers : CallResumeOrUpdate(c) \/ CallPause(c) \/ CallDelete(c)
    BY <1>4
  <2>2. Begins(c) /\ row' = row /\ run' = run /\ throws' = throws
    BY <2>1 DEF CallResumeOrUpdate, CallPause, CallDelete, Ask
  <2>3. mode = "up" /\ call[c].at = "idle" /\ c \in Everyone
    BY <1>1, <2>2, BeginsFacts
  <2>4. \A d \in Everyone : d # c => call'[d] = call[d]
    <3>1. CASE CallDelete(c)
      BY <1>1, <3>1, DeleteFacts
    <3>2. CASE CallResumeOrUpdate(c) \/ CallPause(c)
      <4>1. PICK o \in {"resume", "edit", "reschedule", "pause"} : Ask(c, o)
        BY <3>2 DEF CallResumeOrUpdate, CallPause
      <4> QED
        BY <1>1, <4>1, AskFacts
    <3> QED
      BY <2>1, <3>1, <3>2
  <2>5. /\ \A d \in Everyone : Finds(d) => Finds(d)'
        /\ call[Boot].at = "fail" => call'[Boot].at = "fail"
    BY <2>3, <2>4, OtherCalls
  <2> QED
    BY <1>1, <2>2, <2>3, <2>5, ExhaustingKept
<1>5. CASE Crash
  BY <1>5 DEF Crash, Exhausting
<1>6. CASE CallBoot
  <2>1. row' = row
    BY <1>6 DEF CallBoot
  <2>2. row.status = "active" =>
          call'[Boot].doc = row /\ (call'[Boot].at = "stop" \/ call'[Boot].at = "fail")
    BY <1>1, <1>6, BootFacts
  <2>3. CASE row'.status = "active" /\ row'.errors >= MaxErrors
    <3>1. CASE call'[Boot].at = "fail"
      BY <3>1 DEF Exhausting, Noticed
    <3>2. CASE call'[Boot].at = "stop"
      <4>1. Finds(Boot)'
        BY <2>1, <2>2, <2>3, <3>2 DEF Finds
      <4> QED
        BY <4>1, Basics DEF Exhausting, Noticed
    <3> QED
      BY <2>1, <2>2, <2>3, <3>1, <3>2
  <2>4. CASE ~(row'.status = "active" /\ row'.errors >= MaxErrors)
    BY <2>4 DEF Exhausting
  <2> QED
    BY <2>3, <2>4
<1>7. CASE UNCHANGED cronVars
  <2>1. row' = row /\ mode' = mode /\ run' = run /\ call' = call /\ throws' = throws
    BY <1>7 DEF cronVars
  <2> QED
    BY <1>1, <2>1 DEF Exhausting, Noticed, Finds
<1>8. CASE TimePasses \/ Shutdown
  <2>1. row' = row /\ run' = run /\ call' = call /\ throws' = throws
    BY <1>8 DEF TimePasses, Shutdown, same
  <2>2. CASE mode # "down"
    BY <1>1, <2>1, <2>2, ExhaustingKept DEF Finds
  <2>3. CASE mode = "down"
    <3>1. mode' = mode
      BY <1>8, <2>3 DEF TimePasses, Shutdown, same
    <3> QED
      BY <2>3, <3>1 DEF Exhausting
  <2> QED
    BY <2>2, <2>3
<1>9. CASE \E c \in Everyone : Calls(c)
  BY <1>9, ExhaustingCalls
<1>10. CASE FailMissed
  <2>1. SetStatus("failed") /\ "failed" \in Statuses
    BY <1>10 DEF FailMissed, Statuses
  <2>2. row'.status # "active"
    BY <1>1, <2>1, StatusFacts DEF Exists, Statuses
  <2> QED
    BY <2>2 DEF Exhausting
<1>11. CASE CatchUp
  <2>1. /\ row' = row /\ call[Boot].at = "catchup" /\ call' = [call EXCEPT ![Boot] = Idle]
        /\ Boot \in Everyone /\ Start(NoJob, "boot") /\ throws' = throws
    BY <1>11, Basics DEF CatchUp, same
  <2>2. \A d \in Everyone : d # Boot => call'[d] = call[d]
    BY <1>1, <2>1, IdleFacts
  <2>3. \A d \in Everyone : Finds(d) => Finds(d)'
    BY <2>1, <2>2, OtherCalls
  <2>4. \A e \in Runs : run[e].at = "pause" => run'[e].at = "pause"
    <3>1. PICK e \in Runs :
          /\ run[e] = NoRun /\ run'[e].cron = NoJob /\ run'[e].via = "boot" /\ run'[e].at = "read"
          /\ \A f \in Runs : f # e => run'[f] = run[f]
      BY <1>1, <2>1, StartFacts
    <3> QED
      BY <3>1, EmptyFacts
  <2> QED
    BY <1>1, <1>2, <1>11, <2>1, <2>3, <2>4, ExhaustingKept DEF Working
<1>12. CASE Trigger \/ \E k \in Crons : Timer(k)
  <2>1. row' = row /\ call' = call /\ Working /\ throws' = throws
    BY <1>12 DEF Trigger, Timer, Working, same
  <2>2. \A e \in Runs : run'[e] = run[e] \/ (run[e] = NoRun /\ run'[e].at = "read")
    BY <1>1, <1>12, TriggerGood, TimerGood
  <2>3. \A e \in Runs : run[e].at = "pause" => run'[e].at = "pause"
    BY <2>2, EmptyFacts
  <2> QED
    BY <1>1, <1>2, <2>1, <2>3, ExhaustingKept DEF Finds
<1>13. ASSUME NEW e \in Runs, Moves(e)
       PROVE  Exhausting'
  <2>1. mode # "down" /\ call' = call
    <3>1. call' = call
      BY <1>13 DEF Moves, Read, Succeeds, Fails, Complete, CompleteThrows, Count, PauseFailing,
                   Deactivate, End, Rejects, Settles, HandleError
    <3> QED
      BY <1>2, <1>13, <3>1 DEF Working
  <2>2. CASE Complete(e) \/ PauseFailing(e)
    <3>1. PICK s \in {"paused", "completed"} : SetStatus(s)
      BY <2>2 DEF Complete, PauseFailing
    <3>2. row'.status # "active"
      BY <1>1, <3>1, StatusFacts DEF Exists, Statuses
    <3> QED
      BY <3>2 DEF Exhausting
  <2>3. CASE Count(e)
    <3>1. At(e, "count", IF Exists(row) /\ row'.errors >= MaxErrors THEN "pause" ELSE "notify")
      BY <2>3 DEF Count
    <3>2. row'.status = row.status
      BY <1>1, <2>3, CountRow
    <3>3. row'.status = "active" /\ row'.errors >= MaxErrors => run'[e].at = "pause"
      BY <1>1, <3>1, <3>2 DEF At, Typed, Exists, Statuses
    <3> QED
      BY <3>3 DEF Exhausting, Noticed
  <2>4. CASE Read(e) \/ Succeeds(e) \/ Fails(e) \/ Deactivate(e) \/ End(e)
    <3>1. row' = row /\ run[e].at # "pause" /\ throws' = throws
      BY <2>4 DEF Read, Succeeds, Fails, Deactivate, End, Settles, At, same
    <3>2. \A f \in Runs : f # e => run'[f] = run[f]
      BY <1>1, <1>13, MovesAlone
    <3>3. \A f \in Runs : run[f].at = "pause" => run'[f].at = "pause"
      BY <3>1, <3>2
    <3> QED
      BY <1>1, <2>1, <3>1, <3>3, ExhaustingKept DEF Finds
  <2>5. CASE CompleteThrows(e) \/ Rejects(e)
    <3>1. throws' # 0
      BY <1>1, <2>5 DEF CompleteThrows, Rejects, Throws
    <3> QED
      BY <3>1 DEF Exhausting
  <2>6. CASE HandleError(e)
    <3>1. throws' = throws /\ run[e].at = "error"
      BY <2>6 DEF HandleError, same
    <3>2. throws # 0
      BY <1>1, <3>1 DEF Heavy, Reason
    <3> QED
      BY <3>1, <3>2 DEF Exhausting
  <2> QED
    BY <1>13, <2>2, <2>3, <2>4, <2>5, <2>6 DEF Moves
<1> QED
  BY <1>3, <1>4, <1>5, <1>6, <1>7, <1>8, <1>9, <1>10, <1>11, <1>12, <1>13, StepKinds DEF Working

\* The others are idle.
Alone(c) == \A d \in Everyone : d # c => call[d].at = "idle"

\* Unless calls overlapped or broke off, a call in progress is the only one.
LEMMA AloneFacts ==
    ASSUME OneCall, NEW c \in Everyone, call[c].at # "idle"
    PROVE  Alone(c)
BY DEF OneCall, Alone

\* And stays the only one when it moves.
LEMMA AloneKept ==
    ASSUME NEW c \in Everyone, Alone(c), \A d \in Everyone : d # c => call'[d] = call[d], Underway(c)'
    PROVE  OneCall' /\ AllUnderway' /\ (call'[c].at \in {"stop", "start", "write", "remove", "fail"} => Returned')
<1>1. \A d \in Everyone : d # c => call'[d].at = "idle"
  BY DEF Alone
<1>2. OneCall'
  BY <1>1 DEF OneCall
<1>3. \A d \in Everyone : Underway(d)'
  BY <1>1 DEF Underway
<1>4. call'[c].at \in {"stop", "start", "write", "remove", "fail"} => Returned'
  BY DEF Returned
<1> QED
  BY <1>2, <1>3, <1>4 DEF AllUnderway

\* deactivate() leaves no Cron that is not stopped.
LEMMA SilencedNoneLost ==
    ASSUME Typed, NoneLost, crons' = Deactivated, jobs' = NoJob
    PROVE  NoneLost' /\ Ghost'
<1>1. PICK ds : ds = crons'
  OBVIOUS
<1>2. /\ ds \in [Crons -> FireType]
      /\ \A k \in Crons :
            \/ ds[k] = crons[k] /\ k # jobs
            \/ /\ ds[k].stopped = TRUE /\ ds[k].armed = FALSE
               /\ ds[k].busy = TRUE => crons[k].busy = TRUE
               /\ k = jobs \/ crons[k].stopped = TRUE
  BY <1>1, DeactivatedFacts
<1>3. ASSUME NEW k \in Crons PROVE crons'[k].stopped
  <2>1. CASE ds[k] = crons[k] /\ k # jobs
    BY <1>1, <2>1 DEF NoneLost
  <2>2. CASE ds[k].stopped = TRUE
    BY <1>1, <2>2
  <2> QED
    BY <1>2, <2>1, <2>2
<1> QED
  BY <1>3 DEF NoneLost, Ghost

\* An execution about to stop an active recurring task stays explained when
\* neither row nor call changes.
LEMMA ExcusedKept ==
    ASSUME Excused, row' = row, task' = task,
           \A e \in Runs : run'[e].at = "deactivate" => run[e].at = "deactivate",
           \A c \in Everyone : Finds(c) => Finds(c)'
    PROVE  Excused'
BY DEF Excused, Recurring

\* Nothing needs explaining once the row is not active.
LEMMA ExcusedPaused ==
    ASSUME row'.status # "active"
    PROVE  Excused'
BY DEF Excused

\* Nothing is underway when a call begins, and the memory follows the row.
LEMMA BeginsSerial ==
    ASSUME Inv, NEW c \in Callers, Begins(c), upset' = FALSE
    PROVE  /\ Ordered /\ Settled /\ Alone(c) /\ c \in Everyone
           /\ \A d \in Everyone : ~Finds(d)
<1>1. /\ mode = "up" /\ upset = FALSE /\ c \in Everyone /\ \A d \in Everyone : call[d].at = "idle"
  BY BeginsFacts DEF Inv
<1>2. Ordered
  BY <1>1 DEF Inv, Serial
<1>3. Settled
  BY <1>1, <1>2 DEF Ordered, Returned
<1> QED
  BY <1>1, <1>2, <1>3 DEF Alone, Finds

\* A call that starts alone finds the order settled and keeps it.
LEMMA CallSerial ==
    ASSUME Inv, NEW c \in Callers, upset' = FALSE,
           Create(c) \/ CallResumeOrUpdate(c) \/ CallPause(c) \/ CallDelete(c)
    PROVE  Ordered'
<1>1. Typed /\ AllCrons /\ Blank /\ Begins(c)
  BY DEF Inv, Counted, AllCrons, Create, CallResumeOrUpdate, CallPause, CallDelete, Ask
<1>2. /\ OneCall /\ NoneLost /\ AllUnderway /\ Returned /\ Excused /\ Settled /\ Alone(c) /\ c \in Everyone
      /\ \A d \in Everyone : ~Finds(d)
  BY <1>1, BeginsSerial DEF Ordered
<1>3. CASE Create(c)
  <2>1. /\ row = NoRow /\ row' \in RowType /\ row'.status = "active"
        /\ call'[c].op = "activate" /\ call'[c].at = "stop" /\ call'[c].doc = row'
        /\ \A d \in Everyone : d # c => call'[d] = call[d]
    BY <1>1, <1>3, CreateFacts
  <2>2. crons' = crons /\ jobs' = jobs /\ run' = run
    BY <1>3 DEF Create, mem
  <2>3. \A e \in Runs : run[e].at = "idle"
    <3>1. Nothing
      BY <1>1, <2>1, EmptyFacts DEF Blank
    <3> QED
      BY <3>1, NothingFacts, EmptyFacts
  <2>4. Underway(c)'
    <3>1. row'.errors \in Nat
      BY <2>1, RowParts
    <3>2. Current(c)'
      BY <2>1, <3>1 DEF Current, Exists, Statuses
    <3> QED
      BY <2>1, <3>2 DEF Underway
  <2>5. NoneLost'
    BY <1>2, <2>2 DEF NoneLost
  <2>6. Excused'
    BY <2>2, <2>3 DEF Excused
  <2> QED
    BY <1>2, <2>1, <2>4, <2>5, <2>6, AloneKept DEF Ordered
<1>4. CASE CallResumeOrUpdate(c)
  <2>1. PICK o \in {"resume", "edit", "reschedule"} : Ask(c, o)
    BY <1>4 DEF CallResumeOrUpdate
  <2>2. /\ call'[c].op # "pause" /\ call'[c].at = "write"
        /\ \A d \in Everyone : d # c => call'[d] = call[d]
    BY <1>1, <2>1, AskFacts
  <2>3. crons' = crons /\ jobs' = jobs /\ run' = run /\ row' = row /\ task' = task
    BY <1>4 DEF CallResumeOrUpdate, mem
  <2>4. Underway(c)'
    BY <1>2, <2>2, <2>3 DEF Underway, Settled, Exists
  <2>5. NoneLost'
    BY <1>2, <2>3 DEF NoneLost
  <2>6. Excused'
    BY <1>2, <2>3, ExcusedKept
  <2> QED
    BY <1>2, <2>2, <2>4, <2>5, <2>6, AloneKept DEF Ordered
<1>5. CASE CallPause(c)
  <2>1. Ask(c, "pause") /\ jobs' = jobs /\ run' = run /\ row' = row /\ task' = task
    BY <1>5 DEF CallPause
  <2>2. call'[c].at = "write" /\ \A d \in Everyone : d # c => call'[d] = call[d]
    BY <1>1, <2>1, AskFacts
  <2>3. /\ jobs = NoJob \/ crons'[jobs].paused = TRUE
        /\ \A k \in Crons : crons'[k].stopped = crons[k].stopped
    BY <1>1, <1>5, PauseGood
  <2>4. Ghost'
    BY <2>1, <2>3 DEF Ghost
  <2>5. Underway(c)'
    BY <1>2, <2>1, <2>2, <2>4 DEF Underway, Settled, Exists
  <2>6. NoneLost'
    BY <1>2, <2>1, <2>3 DEF NoneLost
  <2>7. Excused'
    BY <1>2, <2>1, ExcusedKept
  <2> QED
    BY <1>2, <2>2, <2>5, <2>6, <2>7, AloneKept DEF Ordered
<1>6. CASE CallDelete(c)
  <2>1. jobs' = NoJob /\ crons' = Deactivated /\ run' = run /\ row' = row /\ task' = task
    BY <1>6 DEF CallDelete
  <2>2. call'[c].at = "remove" /\ \A d \in Everyone : d # c => call'[d] = call[d]
    BY <1>1, <1>6, DeleteFacts
  <2>3. NoneLost'
    BY <1>1, <1>2, <2>1, SilencedNoneLost
  <2>4. Underway(c)'
    BY <2>1, <2>2 DEF Underway
  <2>5. Excused'
    BY <1>2, <2>1, ExcusedKept
  <2> QED
    BY <1>2, <2>2, <2>3, <2>4, <2>5, AloneKept DEF Ordered
<1> QED
  BY <1>3, <1>4, <1>5, <1>6

\* A call that has done its work has left the memory in line with the row.
LEMMA AloneReturns ==
    ASSUME NEW c \in Everyone, Alone(c), \A d \in Everyone : d # c => call'[d] = call[d],
           call'[c].at \in {"idle", "catchup"}, Settled'
    PROVE  OneCall' /\ AllUnderway' /\ Returned'
<1>1. Underway(c)'
  BY DEF Underway
<1>2. OneCall' /\ AllUnderway'
  BY <1>1, AloneKept
<1> QED
  BY <1>2 DEF Returned

\* A call that goes on alone keeps the order, and leaves it settled.
LEMMA CallsSerial ==
    ASSUME Inv, mode = "up", upset = FALSE, upset' = FALSE, NEW c \in Everyone, Calls(c)
    PROVE  Ordered'
<1>1. /\ Typed /\ AllCrons /\ Heavy /\ row \in RowType /\ call[c] \in CallType
      /\ MaxErrors \in Nat
  BY Basics DEF Inv, Counted, AllCrons, Typed
<1>2. /\ OneCall /\ NoneLost /\ AllUnderway /\ Returned /\ Excused /\ Alone(c) /\ Underway(c)
  <2>1. Ordered
    BY DEF Inv, Serial
  <2>2. call[c].at # "idle"
    BY CallsFrom
  <2> QED
    BY <2>1, <2>2, AloneFacts DEF Ordered, AllUnderway
<1>3. CASE ActivateStop(c)
  <2>1. /\ jobs' = NoJob /\ crons' = Deactivated /\ row' = row /\ run' = run /\ task' = task
    BY <1>3 DEF ActivateStop, same
  <2>2. /\ call[c].at = "stop"
        /\ \A d \in Everyone : d # c => call'[d] = call[d]
        /\ call[c].doc.status \in {"paused", "completed", "cancelled"} => call'[c].at \in {"idle", "catchup"}
        /\ call[c].doc.status \notin {"paused", "completed", "cancelled"} =>
              call'[c].at = "start" /\ call'[c].doc = call[c].doc
    BY <1>1, <1>3, StopStepFacts
  <2>3. NoneLost' /\ Ghost'
    BY <1>1, <1>2, <2>1, SilencedNoneLost
  <2>4. Current(c)
    BY <1>2, <2>2 DEF Underway
  <2>5. \A d \in Everyone : Finds(d) => Finds(d)'
    BY <2>2 DEF Finds
  <2>6. Excused'
    BY <1>2, <2>1, <2>5, ExcusedKept
  <2>7. CASE call[c].doc.status \in {"paused", "completed", "cancelled"}
    <3>1. Settled'
      BY <2>1, <2>3, <2>4, <2>7 DEF Settled, Current, Exists, Recurring
    <3> QED
      BY <1>2, <2>2, <2>3, <2>6, <2>7, <3>1, AloneReturns DEF Ordered
  <2>8. CASE call[c].doc.status \notin {"paused", "completed", "cancelled"}
    <3>1. Current(c)'
      BY <2>1, <2>2, <2>4, <2>8 DEF Current, Exists
    <3>2. Underway(c)'
      BY <2>1, <2>2, <2>8, <3>1 DEF Underway
    <3> QED
      BY <1>2, <2>2, <2>3, <2>6, <2>8, <3>2, AloneKept DEF Ordered
  <2> QED
    BY <2>7, <2>8
<1>4. CASE TooManyErrors(c)
  <2>1. /\ SetStatus("paused") /\ "paused" \in Statuses /\ call[c].at = "start"
        /\ call' = [call EXCEPT ![c] = Activated(c)]
        /\ crons' = crons /\ jobs' = jobs /\ run' = run
    BY <1>4 DEF TooManyErrors, Statuses, mem
  <2>2. call'[c].at \in {"idle", "catchup"} /\ \A d \in Everyone : d # c => call'[d] = call[d]
    BY <1>1, <2>1, ReturnFacts
  <2>3. Exists(row) /\ jobs = NoJob
    BY <1>2, <2>1 DEF Underway, Current
  <2>4. row'.status = "paused"
    BY <1>1, <2>1, <2>3, StatusFacts
  <2>5. Settled'
    BY <2>1, <2>3, <2>4 DEF Settled, Ghost, Exists
  <2>6. Excused'
    BY <2>4, ExcusedPaused
  <2>7. NoneLost'
    BY <1>2, <2>1 DEF NoneLost
  <2> QED
    BY <1>2, <2>2, <2>5, <2>6, <2>7, AloneReturns DEF Ordered
<1>5. CASE ActivateStart(c)
  <2>1. /\ row' = row /\ run' = run /\ task' = task /\ call[c].at = "start" /\ call[c].doc.errors < MaxErrors
        /\ call' = [call EXCEPT ![c] = Activated(c)]
    BY <1>5 DEF ActivateStart, same
  <2>2. call'[c].at \in {"idle", "catchup"} /\ \A d \in Everyone : d # c => call'[d] = call[d]
    BY <1>1, <2>1, ReturnFacts
  <2>3. /\ jobs' \in Crons /\ crons'[jobs'].paused = FALSE
        /\ \A k \in Crons : k # jobs' => crons'[k] = crons[k]
    BY <1>1, <1>5, ActivateStartGood
  <2>4. /\ Current(c) /\ jobs = NoJob
        /\ call[c].doc.status \notin {"paused", "completed", "cancelled"}
    BY <1>2, <2>1 DEF Underway
  <2>5. NoneLost'
    BY <1>2, <2>3, <2>4, Basics DEF NoneLost
  <2>6. ~Ghost'
    BY <2>3, Basics DEF Ghost
  <2>7. Settled'
    BY <2>1, <2>4, <2>6 DEF Settled, Current, Exists
  <2>8. ~Finds(c)
    <3>1. call[c].doc.errors \in Nat
      BY <1>1, CallParts, RowParts
    <3> QED
      BY <1>1, <2>1, <3>1 DEF Finds
  <2>9. Excused'
    <3>1. \A d \in Everyone : ~Finds(d)
      BY <1>2, <2>8 DEF Alone, Finds
    <3> QED
      BY <1>2, <2>1, <3>1, ExcusedKept
  <2> QED
    BY <1>2, <2>2, <2>5, <2>7, <2>9, AloneReturns DEF Ordered
<1>6. CASE Write(c)
  <2>1. /\ call[c].at = "write"
        /\ \A d \in Everyone : d # c => call'[d] = call[d]
        /\ row' \in RowType /\ row'.errors = row.errors
        /\ ~Exists(row) => row' = row /\ call'[c].at = "idle"
        /\ Exists(row) => Exists(row)'
        /\ Exists(row) /\ call[c].op = "pause" => row'.status = "paused" /\ call'[c].at = "idle"
        /\ Exists(row) /\ call[c].op # "pause" =>
              call'[c].op = "activate" /\ call'[c].at = "stop" /\ call'[c].doc = row'
    BY <1>1, <1>6, WriteFacts
  <2>2. crons' = crons /\ jobs' = jobs /\ run' = run /\ task' = task
    BY <1>6 DEF Write, same, mem
  <2>3. NoneLost'
    BY <1>2, <2>2 DEF NoneLost
  <2>4. CASE ~Exists(row)
    <3>1. jobs = NoJob
      BY <1>2, <2>1, <2>4 DEF Underway
    <3>2. Settled'
      BY <2>1, <2>2, <2>4, <3>1 DEF Settled, Exists, Statuses, Ghost
    <3>3. Excused'
      BY <2>1, <2>4, ExcusedPaused DEF Exists, Statuses
    <3> QED
      BY <1>2, <2>1, <2>3, <2>4, <3>2, <3>3, AloneReturns DEF Ordered
  <2>5. CASE Exists(row) /\ call[c].op = "pause"
    <3>1. Ghost
      BY <1>2, <2>1, <2>5 DEF Underway
    <3>2. Settled'
      BY <2>1, <2>2, <2>5, <3>1 DEF Settled, Ghost
    <3>3. Excused'
      BY <2>1, <2>5, ExcusedPaused
    <3> QED
      BY <1>2, <2>1, <2>3, <2>5, <3>2, <3>3, AloneReturns DEF Ordered
  <2>6. CASE Exists(row) /\ call[c].op # "pause"
    <3>1. row'.errors \in Nat
      BY <2>1, RowParts
    <3>2. Current(c)'
      BY <2>1, <2>6, <3>1 DEF Current
    <3>3. Underway(c)'
      BY <2>1, <2>6, <3>2 DEF Underway
    <3>4. ASSUME NEW e \in Runs, run'[e].at = "deactivate", Recurring', row'.status = "active"
          PROVE  Finds(c)'
      <4>1. row.errors >= MaxErrors
        BY <1>1, <2>2, <2>6, <3>4 DEF Heavy, Reason
      <4> QED
        BY <2>1, <2>6, <3>4, <4>1 DEF Finds
    <3>5. Excused'
      BY <3>4 DEF Excused
    <3> QED
      BY <1>2, <2>1, <2>3, <2>6, <3>3, <3>5, AloneKept DEF Ordered
  <2> QED
    BY <2>4, <2>5, <2>6
<1>7. CASE Remove(c)
  <2>1. /\ row' = [NoRow EXCEPT !.status = "deleted"] /\ call[c].at = "remove"
        /\ call' = [call EXCEPT ![c] = Idle] /\ crons' = crons /\ jobs' = jobs
    BY <1>7 DEF Remove, mem
  <2>2. row'.status = "deleted"
    BY <2>1 DEF NoRow, Row
  <2>3. call'[c].at = "idle" /\ \A d \in Everyone : d # c => call'[d] = call[d]
    BY <1>1, <2>1, IdleFacts
  <2>4. Settled'
    BY <1>2, <2>1, <2>2 DEF Underway, Settled
  <2>5. NoneLost'
    BY <1>2, <2>1 DEF NoneLost
  <2>6. Excused'
    BY <2>2, ExcusedPaused
  <2> QED
    BY <1>2, <2>3, <2>4, <2>5, <2>6, AloneReturns DEF Ordered
<1>8. CASE BreakOff(c)
  BY <1>8 DEF BreakOff
<1> QED
  BY <1>3, <1>4, <1>5, <1>6, <1>7, <1>8 DEF Calls

\* Timers and the clock disturb no call's order.
LEMMA ProcessSerial ==
    ASSUME Inv, mode = "up", upset = FALSE,
           FailMissed \/ CatchUp \/ Trigger \/ TimePasses \/ (\E k \in Crons : Timer(k)) \/ UNCHANGED cronVars
    PROVE  Ordered'
<1>1. Typed /\ AllCrons /\ row \in RowType /\ Boot \in Everyone
  BY Basics DEF Inv, AllCrons, Typed
<1>2. OneCall /\ NoneLost /\ AllUnderway /\ Returned /\ Excused /\ Ordered
  BY DEF Inv, Serial, Ordered
<1>3. CASE FailMissed
  <2>1. /\ SetStatus("failed") /\ "failed" \in Statuses /\ call[Boot].at = "fail"
        /\ call' = [call EXCEPT ![Boot] = Idle]
        /\ crons' = crons /\ jobs' = jobs /\ run' = run
    BY <1>3 DEF FailMissed, Statuses, mem
  <2>2. call'[Boot].at = "idle" /\ \A d \in Everyone : d # Boot => call'[d] = call[d]
    BY <1>1, <2>1, IdleFacts
  <2>3. Alone(Boot)
    BY <1>1, <1>2, <2>1, AloneFacts
  <2>4. Exists(row)
    BY <1>1, <1>2, <2>1 DEF AllUnderway, Underway
  <2>5. row'.status = "failed"
    BY <1>1, <2>1, <2>4, StatusFacts
  <2>6. Settled'
    BY <2>5 DEF Settled, Exists, Statuses
  <2>7. Excused'
    BY <2>5, ExcusedPaused
  <2>8. NoneLost'
    BY <1>2, <2>1 DEF NoneLost
  <2> QED
    BY <1>1, <2>2, <2>3, <2>6, <2>7, <2>8, AloneReturns DEF Ordered
<1>4. CASE CatchUp
  <2>1. /\ row' = row /\ call[Boot].at = "catchup" /\ call' = [call EXCEPT ![Boot] = Idle]
        /\ Start(NoJob, "boot") /\ crons' = crons /\ jobs' = jobs /\ task' = task
    BY <1>4 DEF CatchUp, mem, same
  <2>2. call'[Boot].at = "idle" /\ \A d \in Everyone : d # Boot => call'[d] = call[d]
    BY <1>1, <2>1, IdleFacts
  <2>3. Alone(Boot)
    BY <1>1, <1>2, <2>1, AloneFacts
  <2>4. Settled
    BY <1>2, <2>1, <2>3 DEF Returned, Alone
  <2>5. Settled'
    BY <2>1, <2>4 DEF Settled, Ghost, Exists, Recurring
  <2>6. \A e \in Runs : run'[e].at = "deactivate" => run[e].at = "deactivate"
    <3>1. PICK e \in Runs :
          /\ run[e] = NoRun /\ run'[e].cron = NoJob /\ run'[e].via = "boot" /\ run'[e].at = "read"
          /\ \A f \in Runs : f # e => run'[f] = run[f]
      BY <1>1, <2>1, StartFacts
    <3> QED
      BY <3>1
  <2>7. \A d \in Everyone : Finds(d) => Finds(d)'
    BY <1>1, <2>1, <2>2, OtherCalls
  <2>8. Excused'
    BY <1>2, <2>1, <2>6, <2>7, ExcusedKept
  <2>9. NoneLost'
    BY <1>2, <2>1 DEF NoneLost
  <2> QED
    BY <1>1, <2>2, <2>3, <2>5, <2>8, <2>9, AloneReturns DEF Ordered
<1>5. CASE Trigger \/ \E k \in Crons : Timer(k)
  <2>1. row' = row /\ call' = call /\ jobs' = jobs /\ task' = task
    BY <1>5 DEF Trigger, Timer, same
  <2>2. /\ \A k \in Crons : crons'[k].stopped = crons[k].stopped /\ crons'[k].paused = crons[k].paused
        /\ \A e \in Runs : run'[e] = run[e] \/ (run[e] = NoRun /\ run'[e].at = "read")
    BY <1>1, <1>5, TriggerGood, TimerGood
  <2>3. Ghost' <=> Ghost
    BY <1>1, <2>1, <2>2 DEF Ghost, Typed
  <2>4. NoneLost'
    BY <1>2, <2>1, <2>2 DEF NoneLost
  <2>5. Excused'
    BY <1>2, <2>1, <2>2, ExcusedKept DEF Finds
  <2>6. OneCall'
    BY <1>2, <2>1 DEF OneCall
  <2>7. AllUnderway'
    BY <1>2, <2>1, <2>3 DEF AllUnderway, Underway, Current, Exists
  <2>8. Returned'
    BY <1>2, <2>1, <2>3 DEF Returned, Settled, Exists, Recurring
  <2> QED
    BY <2>4, <2>5, <2>6, <2>7, <2>8 DEF Ordered
<1>6. CASE TimePasses \/ UNCHANGED cronVars
  <2>1. row' = row /\ call' = call /\ jobs' = jobs /\ crons' = crons /\ run' = run /\ task' = task
    BY <1>6 DEF TimePasses, cronVars, mem, same
  <2>2. Ghost' <=> Ghost
    BY <2>1 DEF Ghost
  <2>3. NoneLost'
    BY <1>2, <2>1 DEF NoneLost
  <2>4. Excused'
    BY <1>2, <2>1, ExcusedKept DEF Finds
  <2>5. OneCall'
    BY <1>2, <2>1 DEF OneCall
  <2>6. AllUnderway'
    BY <1>2, <2>1, <2>2 DEF AllUnderway, Underway, Current, Exists
  <2>7. Returned'
    BY <1>2, <2>1, <2>2 DEF Returned, Settled, Exists, Recurring
  <2> QED
    BY <2>3, <2>4, <2>5, <2>6, <2>7 DEF Ordered
<1> QED
  BY <1>3, <1>4, <1>5, <1>6

\* boot() begins where nothing is underway.
LEMMA BootSerial ==
    ASSUME Inv, CallBoot
    PROVE  Ordered'
<1>1. Typed /\ Blank /\ row \in RowType /\ Boot \in Everyone /\ mode = "down"
  BY Basics DEF Inv, Counted, Typed, CallBoot
<1>2. /\ jobs = NoJob /\ \A k \in Crons : crons[k] = NoCron
      /\ \A e \in Runs : run[e].at = "idle"
      /\ \A c \in Everyone : call[c].at = "idle"
  BY <1>1, NothingFacts, EmptyFacts DEF Blank
<1>3. crons' = crons /\ jobs' = jobs /\ run' = run /\ row' = row
  BY DEF CallBoot, mem
<1>4. /\ \A d \in Everyone : d # Boot => call'[d] = call[d]
      /\ row.status # "active" => call' = call
      /\ row.status = "active" => call'[Boot].doc = row /\ call'[Boot].at \in {"stop", "fail"}
  BY <1>1, BootFacts
<1>5. Alone(Boot)
  BY <1>2 DEF Alone
<1>6. NoneLost'
  BY <1>2, <1>3, NoCronFacts DEF NoneLost
<1>7. Excused'
  BY <1>2, <1>3 DEF Excused
<1>8. CASE row.status = "active"
  <2>1. row.errors \in Nat
    BY <1>1, RowParts
  <2>2. Current(Boot)'
    BY <1>3, <1>4, <1>8, <2>1 DEF Current, Exists, Statuses
  <2>3. Underway(Boot)'
    BY <1>4, <1>8, <2>2 DEF Underway, Current
  <2> QED
    BY <1>1, <1>4, <1>5, <1>6, <1>7, <1>8, <2>3, AloneKept DEF Ordered
<1>9. CASE row.status # "active"
  <2>1. Settled'
    BY <1>2, <1>3, <1>9 DEF Settled, Ghost
  <2>2. call'[Boot].at = "idle"
    BY <1>1, <1>2, <1>4, <1>9
  <2> QED
    BY <1>1, <1>4, <1>5, <1>6, <1>7, <2>1, <2>2, AloneReturns DEF Ordered
<1> QED
  BY <1>8, <1>9

\* A step of an execution changes the row by its status or its errors, and what
\* the calls rely on holds for the row it leaves.
LEMMA MovesSerial ==
    ASSUME Inv, mode = "up", upset = FALSE, NEW e \in Runs, Moves(e)
    PROVE  Ordered'
<1>1. Typed /\ AllCrons /\ Heavy /\ row \in RowType /\ row.errors \in Nat /\ MaxErrors \in Nat
  BY RowParts, Basics DEF Inv, Counted, AllCrons, Typed
<1>2. OneCall /\ NoneLost /\ AllUnderway /\ Returned /\ Excused /\ Ordered
  BY DEF Inv, Serial, Ordered
<1>3. call' = call /\ task' = task
  BY DEF Moves, Read, Succeeds, Fails, Complete, CompleteThrows, Count, PauseFailing, Deactivate,
         End, Rejects, Settles, HandleError, same
<1>4. OneCall' /\ \A c \in Everyone : Finds(c) => Finds(c)'
  BY <1>2, <1>3 DEF OneCall, Finds
<1>5. \A f \in Runs : f # e => run'[f] = run[f]
  BY <1>1, MovesAlone
<1>6. CASE Read(e) \/ Succeeds(e) \/ Fails(e) \/ CompleteThrows(e)
  <2>1. row' = row /\ jobs' = jobs /\ crons' = crons
    BY <1>6 DEF Read, Succeeds, Fails, CompleteThrows, mem
  <2>2. run'[e].at # "deactivate"
    <3>1. PICK q \in {"work", "end", "count", "complete"} : \E p \in ExecutionPlaces : At(e, p, q)
      BY <1>6 DEF Read, Succeeds, Fails, CompleteThrows, ExecutionPlaces
    <3> QED
      BY <1>1, <3>1, AtFacts DEF ExecutionPlaces
  <2>3. Excused'
    BY <1>2, <1>3, <1>4, <1>5, <2>1, <2>2, ExcusedKept
  <2>4. NoneLost'
    BY <1>2, <2>1 DEF NoneLost
  <2>5. AllUnderway'
    BY <1>2, <1>3, <2>1 DEF AllUnderway, Underway, Current, Exists, Ghost
  <2>6. Returned'
    BY <1>2, <1>3, <2>1 DEF Returned, Settled, Exists, Recurring, Ghost
  <2> QED
    BY <1>4, <2>3, <2>4, <2>5, <2>6 DEF Ordered
<1>7. CASE Complete(e) \/ PauseFailing(e) \/ Count(e) \/ HandleError(e)
  <2>1. jobs' = jobs /\ crons' = crons
    BY <1>7 DEF Complete, PauseFailing, Count, HandleError, mem
  <2>2. /\ row' \in RowType /\ (Exists(row)' <=> Exists(row)) /\ row'.errors >= row.errors
        /\ row'.status = "active" => row.status = "active"
        /\ row'.status \in {"paused", "cancelled"} /\ row'.errors < MaxErrors =>
              row.status = row'.status /\ row.errors < MaxErrors
        /\ Excused'
    <3>1. CASE Complete(e)
      <4>1. SetStatus("completed") /\ "completed" \in Statuses
        BY <3>1 DEF Complete, Statuses
      <4>2. /\ row' \in RowType /\ row'.errors = row.errors
            /\ Exists(row) => row'.status = "completed"
            /\ ~Exists(row) => row' = row
        BY <1>1, <4>1, StatusFacts
      <4>3. Exists(row)' <=> Exists(row)
        BY <4>2 DEF Exists, Statuses
      <4>4. row'.status # "active" /\ row'.status \notin {"paused", "cancelled"}
        BY <4>2 DEF Exists, Statuses
      <4> QED
        BY <1>1, <4>2, <4>3, <4>4, ExcusedPaused
    <3>2. CASE PauseFailing(e)
      <4>1. SetStatus("paused") /\ "paused" \in Statuses /\ run[e].at = "pause"
        BY <3>2 DEF PauseFailing, Statuses, At
      <4>2. /\ row' \in RowType /\ row'.errors = row.errors
            /\ Exists(row) => row'.status = "paused"
            /\ ~Exists(row) => row' = row
        BY <1>1, <4>1, StatusFacts
      <4>3. Exists(row)' <=> Exists(row)
        BY <4>2 DEF Exists, Statuses
      <4>4. row'.status # "active"
        BY <4>2 DEF Exists, Statuses
      <4>5. Exists(row) => row.errors >= MaxErrors
        BY <1>1, <4>1 DEF Heavy, Reason
      <4>6. row'.status \in {"paused", "cancelled"} => Exists(row)'
        BY DEF Exists, Statuses
      <4> QED
        BY <1>1, <4>2, <4>3, <4>4, <4>5, <4>6, ExcusedPaused
    <3>3. CASE Count(e)
      <4>1. /\ row' \in RowType /\ row'.status = row.status
            /\ Exists(row) => row'.errors = row.errors + 1
            /\ ~Exists(row) => row' = row
        BY <1>1, <3>3, CountRow
      <4>2. Exists(row)' <=> Exists(row)
        BY <4>1 DEF Exists
      <4>3. row'.errors >= row.errors
        BY <1>1, <4>1
      <4>4. row'.errors < MaxErrors => row.errors < MaxErrors
        BY <1>1, <4>1
      <4>5. run'[e].at # "deactivate"
        <5>1. PICK q \in {"notify", "pause"} : At(e, "count", q)
          BY <3>3 DEF Count
        <5> QED
          BY <1>1, <5>1, AtFacts DEF ExecutionPlaces
      <4>6. Excused'
        BY <1>2, <1>3, <1>4, <1>5, <4>1, <4>5 DEF Excused, Recurring
      <4> QED
        BY <4>1, <4>2, <4>3, <4>4, <4>6
    <3>4. CASE HandleError(e)
      <4>1. /\ row' \in RowType /\ row'.status = row.status
            /\ row' = row \/ row'.errors = row.errors + 1
            /\ run'[e] = NoRun
        BY <1>1, <3>4, HandleErrorRow
      <4>2. Exists(row)' <=> Exists(row)
        BY <4>1 DEF Exists
      <4>3. row'.errors >= row.errors
        BY <1>1, <4>1
      <4>4. row'.errors < MaxErrors => row.errors < MaxErrors
        BY <1>1, <4>1
      <4>5. run'[e].at # "deactivate"
        BY <4>1, EmptyFacts
      <4>6. Excused'
        BY <1>2, <1>3, <1>4, <1>5, <4>1, <4>5 DEF Excused, Recurring
      <4> QED
        BY <4>1, <4>2, <4>3, <4>4, <4>6
    <3> QED
      BY <1>7, <3>1, <3>2, <3>3, <3>4
  <2>3. NoneLost'
    BY <1>2, <2>1 DEF NoneLost
  <2>4. ASSUME NEW c \in Everyone, Current(c) PROVE Current(c)'
    <3>1. call[c] \in CallType /\ call[c].doc.errors \in Nat /\ row'.errors \in Nat
      BY <1>1, <2>2, CallParts, RowParts DEF Typed
    <3>2. call[c].doc.errors <= row'.errors
      BY <1>1, <2>2, <2>4, <3>1 DEF Current
    <3> QED
      BY <1>3, <2>2, <2>4, <3>2 DEF Current
  <2>5. AllUnderway'
    BY <1>2, <1>3, <2>1, <2>2, <2>4 DEF AllUnderway, Underway, Ghost
  <2>6. Settled => Settled'
    BY <1>3, <2>1, <2>2 DEF Settled, Ghost, Recurring
  <2>7. Returned'
    BY <1>2, <1>3, <2>6 DEF Returned
  <2> QED
    BY <1>4, <2>2, <2>3, <2>5, <2>7 DEF Ordered
<1>8. CASE Deactivate(e)
  <2>1. jobs' = NoJob /\ crons' = Deactivated /\ row' = row
    BY <1>8 DEF Deactivate
  <2>2. run[e].at \in {"retire", "deactivate"} /\ run'[e].at \in {"end", "notify"}
    BY <1>1, <1>8, AtFacts DEF Deactivate, ExecutionPlaces
  <2>3. NoneLost' /\ Ghost'
    BY <1>1, <1>2, <2>1, SilencedNoneLost
  <2>4. Excused'
    BY <1>2, <1>3, <1>4, <1>5, <2>1, <2>2, ExcusedKept
  <2>5. AllUnderway'
    BY <1>2, <1>3, <2>1, <2>3 DEF AllUnderway, Underway, Current, Exists
  <2>6. ASSUME \A c \in Everyone : call[c].at \in {"idle", "catchup"} PROVE Settled'
    <3>1. ~(row.status = "active" /\ Recurring)
      <4>1. CASE run[e].at = "deactivate"
        BY <1>2, <2>6, <4>1 DEF Excused, Finds
      <4>2. CASE run[e].at = "retire"
        BY <1>1, <4>2 DEF Heavy, Reason, Exists, Statuses
      <4> QED
        BY <2>2, <4>1, <4>2
    <3> QED
      BY <1>3, <2>1, <2>3, <3>1 DEF Settled, Exists, Recurring
  <2>7. Returned'
    BY <1>3, <2>6 DEF Returned
  <2> QED
    BY <1>4, <2>3, <2>4, <2>5, <2>7 DEF Ordered
<1>9. CASE End(e) \/ Rejects(e)
  <2>1. jobs' = jobs /\ row' = row
    BY <1>1, <1>9, LeavesFacts
  <2>2. /\ \A k \in Crons : crons'[k].stopped = crons[k].stopped
        /\ \A k \in Crons : k = jobs => crons'[k].paused = crons[k].paused
        /\ run'[e] \in {NoRun, Detached} /\ \A f \in Runs : f # e => run'[f] = run[f]
    BY <1>1, <1>9, LeavesFacts
  <2>3. Ghost' <=> Ghost
    BY <1>1, <2>1, <2>2 DEF Ghost, Typed
  <2>4. NoneLost'
    BY <1>2, <2>1, <2>2 DEF NoneLost
  <2>5. \A f \in Runs : run'[f].at = "deactivate" => run[f].at = "deactivate"
    BY <2>2, EmptyFacts
  <2>6. Excused'
    BY <1>2, <1>3, <1>4, <2>1, <2>5, ExcusedKept
  <2>7. AllUnderway'
    BY <1>2, <1>3, <2>1, <2>3 DEF AllUnderway, Underway, Current, Exists
  <2>8. Returned'
    BY <1>2, <1>3, <2>1, <2>3 DEF Returned, Settled, Exists, Recurring
  <2> QED
    BY <1>4, <2>4, <2>6, <2>7, <2>8 DEF Ordered
<1> QED
  BY <1>6, <1>7, <1>8, <1>9 DEF Moves

\* Unless calls overlapped or broke off, every step keeps rows, Crons and calls in order.
LEMMA SerialStep ==
    ASSUME Inv, [Next]_cronVars
    PROVE  Serial'
<1> SUFFICES ASSUME mode' = "up", ~upset' PROVE Ordered'
  BY DEF Serial
<1>1. Typed /\ Typed' /\ upset \in BOOLEAN /\ upset' \in BOOLEAN /\ upset' = FALSE
  BY SoundStep DEF Inv, Sound, AllCrons, Typed
<1>2. CASE \E c \in Callers : Create(c) \/ CallResumeOrUpdate(c) \/ CallPause(c) \/ CallDelete(c)
  BY <1>1, <1>2, CallSerial
<1>3. CASE CallBoot
  BY <1>3, BootSerial
<1>4. CASE Working
  <2>1. mode = "up" /\ upset = FALSE
    BY <1>1, <1>4, WorkingRow
  <2> QED
    BY <1>1, <1>4, <2>1, CallsSerial, ProcessSerial, MovesSerial DEF Working
<1>5. CASE TimePasses \/ UNCHANGED cronVars
  <2>1. mode' = mode /\ upset' = upset
    BY <1>5 DEF TimePasses, cronVars, same
  <2> QED
    BY <1>1, <1>5, <2>1, ProcessSerial
<1>6. CASE Shutdown \/ Crash
  BY <1>6 DEF Shutdown, Crash
<1> QED
  BY <1>2, <1>3, <1>4, <1>5, <1>6, StepKinds

\* The inductive invariant holds before the first task is created.
LEMMA InvInit == Init => Inv
<1> SUFFICES ASSUME Init PROVE Inv
  OBVIOUS
<1>1. /\ task \in Tasks /\ row = NoRow /\ past = {} /\ mode = "up" /\ failures = 0 /\ upset = FALSE
      /\ rejected = 0 /\ throws = 0 /\ Nothing
  BY DEF Init, Nothing
<1>2. /\ crons \in [Crons -> FireType] /\ jobs = NoJob /\ run \in [Runs -> RunType]
      /\ call \in [Everyone -> CallType]
      /\ \A k \in Crons : crons[k] = NoCron
      /\ \A e \in Runs : run[e] = NoRun
      /\ \A c \in Everyone : call[c] = Idle
      /\ AllCrons
  BY <1>1, NothingFacts
<1>3. /\ row \in RowType /\ row.status = "none" /\ row.errors = 0 /\ row.fire = 0
      /\ \A e \in Runs : run[e].at = "idle"
      /\ \A c \in Everyone : call[c].at = "idle" /\ call[c].doc = NoRow
  BY <1>1, <1>2, EmptyFacts
<1>4. Typed
  BY <1>1, <1>2, <1>3 DEF Typed
<1>5. Counted
  BY <1>1, <1>2, <1>3 DEF Counted, ErrorsCounted, Tallies, Blank, Heavy, Reason, Exists, Statuses
<1>6. Exhausting
  BY <1>3 DEF Exhausting
<1>7. Ordered
  <2>1. OneCall /\ NoneLost /\ AllUnderway /\ Excused
    BY <1>2, <1>3, NoCronFacts DEF OneCall, NoneLost, AllUnderway, Underway, Excused
  <2>2. Settled
    BY <1>2, <1>3 DEF Settled, Ghost
  <2> QED
    BY <2>1, <2>2 DEF Ordered, Returned
<1> QED
  BY <1>2, <1>4, <1>5, <1>6, <1>7 DEF Inv, AllCrons, Serial

\* The invariant of the scheduler.
LEMMA InvStep == Inv /\ [Next]_cronVars => Inv'
<1> SUFFICES ASSUME Inv, [Next]_cronVars PROVE Inv'
  OBVIOUS
<1>1. Sound /\ Counted
  BY DEF Inv, Sound, AllCrons
<1>2. Sound'
  BY <1>1, SoundStep
<1>3. Counted'
  BY <1>1, CountedStep
<1>4. Exhausting' /\ Serial'
  BY ExhaustingStep, SerialStep
<1> QED
  BY <1>2, <1>3, <1>4 DEF Inv, Sound, AllCrons

\* So it holds of every execution of the scheduler.
LEMMA InvAlways == Spec => []Inv
<1> QED
  BY InvInit, InvStep, PTL DEF Spec

\* CronScheduler.RunsSound: however calls of the API, executions, timers, crashes
\* and boots interleave, each Cron keeps a single chain of scheduled runs and a
\* timer that is armed only when it may fire; the row counts each failure once and
\* one more for each execution that rejected, as handleError() does; and a task
\* with MAX_ERRORS errors does not stay active, unless an await of this process
\* has thrown.
THEOREM RunsStaySound == Spec => []RunsSound
<1>1. Inv => RunsSound
  <2> SUFFICES ASSUME Inv PROVE RunsSound
    OBVIOUS
  <2>1. Typed /\ ErrorsCounted /\ Exhausting /\ \A k \in Crons : OneCron(k)
    BY DEF Inv, Counted
  <2>2. TypeOK
    <3>1. \A k \in Crons : crons[k] \in CronType
      <4>1. FireType \subseteq CronType
        BY Basics DEF FireType, CronType
      <4> QED
        BY <2>1, <4>1 DEF Typed
    <3>2. crons \in [Crons -> CronType]
      BY <2>1, <3>1 DEF Typed
    <3> QED
      BY <2>1, <3>2 DEF TypeOK, Typed, RowType
  <2>3. OneChain
    <3> SUFFICES ASSUME NEW k \in Crons
                 PROVE  /\ crons[k].armed => /\ ~crons[k].stopped /\ ~crons[k].paused
                                             /\ {e \in RunsOf(k) : run[e].via = "timer"} = {}
                        /\ Cardinality({e \in RunsOf(k) : run[e].via = "timer"}) <= 1
                        /\ crons[k].busy => RunsOf(k) # {}
      BY DEF OneChain
    <3>1. PICK chain : chain = {e \in RunsOf(k) : run[e].via = "timer"}
      OBVIOUS
    <3>2. \A e \in Runs : e \in chain <=> Chained(e, k)
      BY <3>1 DEF RunsOf, Chained
    <3>3. chain \subseteq Runs
      BY <3>1 DEF RunsOf
    <3>4. /\ crons[k].armed => ~crons[k].stopped /\ ~crons[k].paused /\ \A e \in Runs : ~Chained(e, k)
          /\ \A e, f \in Runs : Chained(e, k) /\ Chained(f, k) => e = f
          /\ crons[k].busy => \E e \in Runs : Of(e, k)
      BY <2>1 DEF OneCron
    <3>5. crons[k].armed => ~crons[k].stopped /\ ~crons[k].paused /\ chain = {}
      BY <3>2, <3>3, <3>4
    <3>6. Cardinality(chain) <= 1
      <4>1. CASE chain = {}
        BY <4>1, FS_EmptySet
      <4>2. CASE chain # {}
        <5>1. PICK e : e \in chain
          BY <4>2
        <5>2. chain = {e}
          BY <3>2, <3>3, <3>4, <5>1
        <5>3. Cardinality({e}) = 1
          BY FS_Singleton, Zenon
        <5> QED
          BY <5>2, <5>3
      <4> QED
        BY <4>1, <4>2
    <3>7. crons[k].busy => RunsOf(k) # {}
      BY <3>4 DEF RunsOf, Of
    <3> QED
      BY <3>1, <3>5, <3>6, <3>7
  <2>4. ExhaustedIsPaused
    <3>1. ASSUME Quiet, \A e \in Runs : run[e] = NoRun PROVE ~Noticed
      BY <3>1, EmptyFacts, Basics DEF Noticed, Quiet, Finds
    <3> QED
      BY <2>1, <3>1 DEF ExhaustedIsPaused, Exhausting
  <2> QED
    BY <2>1, <2>2, <2>3, <2>4 DEF RunsSound, CronSound
<1> QED
  BY <1>1, InvAlways, PTL

\* CronScheduler.MemoryFollowsRow: once the calls of the API have returned, and
\* unless two of them overlapped or one broke off, an active recurring task has a
\* timer or a run that will arm one, a paused or deleted one has none, and the map
\* has lost no Cron that runs on.
THEOREM MemoryStaysInStep == Spec => []MemoryFollowsRow
<1>1. Inv => MemoryFollowsRow
  <2> SUFFICES ASSUME Inv, mode = "up", Quiet, ~upset,
                      NEW working,
                      working = {k \in Crons : ~crons[k].stopped /\ ~crons[k].paused
                                               /\ (crons[k].armed \/ RunsOf(k) # {})}
               PROVE  /\ \A k \in Crons : ~crons[k].stopped => k = jobs
                      /\ row.status = "active" /\ Recurring /\ task.max = 0 => working # {}
                      /\ row.status \in {"paused", "cancelled"} /\ row.errors < MaxErrors => working = {}
                      /\ ~Exists(row) => jobs = NoJob
    BY DEF MemoryFollowsRow
  <2>1. NoneLost /\ Settled /\ jobs \in Crons \cup {NoJob}
    BY DEF Inv, Serial, Ordered, Returned, Quiet, Typed
  <2>2. ASSUME row.status = "active", Recurring, task.max = 0 PROVE working # {}
    <3>1. jobs \in Crons /\ ~crons[jobs].paused
      BY <2>1, <2>2 DEF Settled, Ghost
    <3>2. PICK k \in Crons : k = jobs
      BY <3>1
    <3>3. OneCron(k)
      BY DEF Inv
    <3>4. ~crons[k].stopped /\ (crons[k].armed \/ \E e \in Runs : Chained(e, k))
      BY <2>2, <3>1, <3>2, <3>3 DEF OneCron
    <3>5. crons[k].armed \/ RunsOf(k) # {}
      BY <3>4 DEF RunsOf, Chained
    <3> QED
      BY <3>1, <3>2, <3>4, <3>5
  <2>3. ASSUME row.status \in {"paused", "cancelled"}, row.errors < MaxErrors PROVE working = {}
    <3>1. Ghost
      BY <2>1, <2>3 DEF Settled
    <3> QED
      BY <2>1, <3>1, Basics DEF NoneLost, Ghost
  <2> QED
    BY <2>1, <2>2, <2>3 DEF NoneLost, Settled
<1> QED
  BY <1>1, InvAlways, PTL
-----------------------------------------------------------------------------
(* The calendar *)

\* A set of natural numbers has a least member.
LEMMA MinFacts ==
    ASSUME NEW T, T \subseteq Nat, T # {}
    PROVE  Min(T) \in T /\ \A y \in T : Min(T) <= y
<1> DEFINE R == OpToRel(<, Nat)
<1>1. IsWellFoundedOn(R, Nat)
  BY NatLessThanWellFounded
<1>2. \A x, y \in Nat : <<y, x>> \in R <=> y < x
  BY DEF OpToRel
<1> HIDE DEF R
<1>3. PICK x \in T : \A y \in T : ~(<<y, x>> \in R)
  BY <1>1, WFMin
<1>4. ASSUME NEW y \in T PROVE x <= y
  <2>1. x \in Nat /\ y \in Nat
    OBVIOUS
  <2>2. ~(y < x)
    BY <1>2, <1>3, <2>1
  <2> QED BY <2>1, <2>2
<1> QED BY <1>4 DEF Min

\* An instant the expression names for the first time.
Good(job, t) == ~Repeated(t) /\ Matches(job, Wall(t))

\* The zone goes forward once, by one of the shifts toInstant knows, and back later.
LEMMA Zone ==
    /\ {Forward, Back, Last, Shift} \subseteq Nat
    /\ Shift \in {4, 2, 1} /\ Forward + Shift <= Back
BY ClockAssumption DEF ClockAssumption, Shifts

\* The hour that occurs twice is the one before the clock has gone back.
LEMMA TwiceFacts ==
    ASSUME NEW t \in Nat
    PROVE  Repeated(t) <=> Back <= t /\ t < Back + Shift
<1>1. ASSUME Back <= t, t < Back + Shift PROVE Repeated(t)
  <2>1. t - Shift \in 0..(t - 1) /\ Wall(t - Shift) = t /\ Wall(t) = t
    BY <1>1, Zone DEF Wall
  <2> QED BY <2>1 DEF Repeated
<1>2. ASSUME NEW s \in 0..(t - 1), Wall(s) = Wall(t) PROVE Back <= t /\ t < Back + Shift
  BY <1>2, Zone DEF Wall
<1> QED BY <1>1, <1>2 DEF Repeated

\* What toInstant returns for each wall clock.
LEMMA InstantFacts ==
    ASSUME NEW w \in Nat
    PROVE  ToInstant(w) = IF Forward <= w /\ w < Forward + Shift THEN Never
                          ELSE IF w < Forward \/ w >= Back + Shift THEN w ELSE w - Shift
<1> DEFINE Correct(t) == t + (w - Wall(t))
           t == Correct(Correct(Correct(w)))
           earlier == {t - d : d \in {d \in Shifts : Wall(t - d) = w}}
<1>1. ToInstant(w) = IF Wall(t) # w THEN Never ELSE Min(earlier \cup {t})
  BY DEF ToInstant
<1>2. CASE Forward <= w /\ w < Forward + Shift
  <2>1. Wall(w) = w + Shift
    BY <1>2, Zone DEF Wall
  <2>2. Correct(w) = w - Shift /\ Wall(w - Shift) = w - Shift
    BY <1>2, <2>1, Zone DEF Wall
  <2>3. Correct(Correct(w)) = w
    BY <2>2, Zone
  <2>4. t = w - Shift
    BY <2>2, <2>3
  <2>5. Wall(t) # w
    BY <2>2, <2>4, Zone
  <2> QED BY <1>1, <1>2, <2>5
<1>3. CASE ~(Forward <= w /\ w < Forward + Shift)
  <2> DEFINE f == IF Forward <= w /\ w < Back THEN w - Shift ELSE w
             r == IF w < Forward \/ w >= Back + Shift THEN w ELSE w - Shift
  <2>1. f \in Nat /\ Wall(f) = w /\ Correct(w) = f
    BY <1>3, Zone DEF Wall
  <2>2. Correct(f) = f
    BY <2>1
  <2>3. t = f
    BY <2>1, <2>2
  <2> HIDE DEF t
  <2>4. \A d \in Shifts : Wall(f - d) = w <=> Back <= w /\ w < Back + Shift /\ d = Shift
    BY <1>3, <2>1, Zone DEF Wall, Shifts
  <2>5. CASE Back <= w /\ w < Back + Shift
    <3>1. f = w /\ r = w - Shift /\ Shift \in Shifts
      BY <2>5, Zone DEF Shifts
    <3>2. earlier = {w - Shift}
      BY <2>3, <2>4, <2>5, <3>1
    <3> HIDE DEF earlier, r, f
    <3>3. w - Shift \in Nat /\ w - Shift <= w
      BY <2>5, Zone
    <3> DEFINE T == {w - Shift, w}
    <3>4. T \subseteq Nat /\ T # {}
      BY <3>3
    <3> HIDE DEF T
    <3>5. Min(T) \in T /\ \A y \in T : Min(T) <= y
      BY <3>4, MinFacts
    <3>6. Min(T) = w - Shift
      BY <3>3, <3>5 DEF T
    <3>7. earlier \cup {t} = T
      BY <2>3, <3>1, <3>2 DEF T
    <3> QED BY <1>1, <1>3, <2>1, <2>3, <3>1, <3>6, <3>7 DEF r
  <2>6. CASE ~(Back <= w /\ w < Back + Shift)
    <3>1. earlier \cup {t} = {f} /\ r = f
      BY <1>3, <2>3, <2>4, <2>6, Zone
    <3> HIDE DEF earlier, r, f
    <3> DEFINE T == {f}
    <3>2. T \subseteq Nat /\ T # {}
      BY <2>1
    <3> HIDE DEF T
    <3>3. Min(T) \in T
      BY <3>2, MinFacts
    <3> QED BY <1>1, <1>3, <2>1, <2>3, <3>1, <3>3 DEF T, r
  <2> QED BY <2>5, <2>6
<1> QED BY <1>2, <1>3

\* nextOccurrence returns the first good instant after from, if one is left.
LEMMA OccurrenceFacts ==
    ASSUME NEW job, NEW from, from + 1 \in Nat, from \in Int, ~Repeated(from + 1),
           NEW n, n = NextOccurrence(job, from)
    PROVE  /\ n = Never \/ (n \in Nat /\ n >= from + 1 /\ Good(job, n))
           /\ \A t \in Nat : t >= from + 1 /\ Good(job, t) /\ Wall(t) <= Last => n # Never /\ n <= t
<1> DEFINE hits == {w \in Wall(from + 1)..Last : Matches(job, w) /\ ToInstant(w) # Never}
           least == Wall(from + 1)
<1>1. n = IF hits = {} THEN Never ELSE ToInstant(Min(hits))
  BY DEF NextOccurrence
<1>2. least \in Nat /\ hits \subseteq Nat
  <2>1. least \in Nat
    BY Zone DEF Wall
  <2> QED BY <2>1, Zone
<1>3. \A w \in Nat : w >= least /\ ToInstant(w) # Never =>
          /\ ToInstant(w) \in Nat /\ ToInstant(w) >= from + 1
          /\ ~Repeated(ToInstant(w)) /\ Wall(ToInstant(w)) = w
  <2> SUFFICES ASSUME NEW w \in Nat, w >= least, ToInstant(w) # Never
               PROVE  /\ ToInstant(w) \in Nat /\ ToInstant(w) >= from + 1
                      /\ ~Repeated(ToInstant(w)) /\ Wall(ToInstant(w)) = w
    OBVIOUS
  <2>1. /\ ~(Forward <= w /\ w < Forward + Shift)
        /\ ToInstant(w) = IF w < Forward \/ w >= Back + Shift THEN w ELSE w - Shift
    BY InstantFacts
  <2>2. ToInstant(w) \in Nat /\ Wall(ToInstant(w)) = w
    BY <2>1, Zone DEF Wall
  <2>3. ~Repeated(ToInstant(w))
    BY <2>1, <2>2, TwiceFacts, Zone
  <2>4. ~(Back <= from + 1 /\ from + 1 < Back + Shift)
    BY TwiceFacts
  <2>5. ToInstant(w) >= from + 1
    BY <2>1, <2>4, Zone DEF Wall
  <2> QED BY <2>2, <2>3, <2>5
<1>4. \A t \in Nat : ~Repeated(t) => ToInstant(Wall(t)) = t /\ Wall(t) \in Nat
  <2> SUFFICES ASSUME NEW t \in Nat, ~Repeated(t) PROVE ToInstant(Wall(t)) = t /\ Wall(t) \in Nat
    OBVIOUS
  <2>1. ~(Back <= t /\ t < Back + Shift)
    BY TwiceFacts
  <2>2. Wall(t) \in Nat
    BY Zone DEF Wall
  <2>3. ToInstant(Wall(t)) = t
    BY <2>1, <2>2, InstantFacts, Zone DEF Wall
  <2> QED BY <2>2, <2>3
<1>5. \A t, u \in Nat : ~Repeated(t) /\ ~Repeated(u) => (Wall(t) <= Wall(u) <=> t <= u)
  <2> SUFFICES ASSUME NEW t \in Nat, NEW u \in Nat, ~Repeated(t), ~Repeated(u)
               PROVE  Wall(t) <= Wall(u) <=> t <= u
    OBVIOUS
  <2>1. ~(Back <= t /\ t < Back + Shift) /\ ~(Back <= u /\ u < Back + Shift)
    BY TwiceFacts
  <2> QED BY <2>1, Zone DEF Wall
<1>6. ASSUME hits # {}
      PROVE  /\ n \in Nat /\ n >= from + 1 /\ Good(job, n)
             /\ Wall(n) \in hits /\ \A w \in hits : Wall(n) <= w
  <2>1. Min(hits) \in hits /\ \A w \in hits : Min(hits) <= w
    <3> HIDE DEF hits
    <3> QED BY <1>2, <1>6, MinFacts
  <2>2. n = ToInstant(Min(hits))
    BY <1>1, <1>6
  <2>3. Min(hits) \in Nat /\ Min(hits) >= least /\ ToInstant(Min(hits)) # Never /\ Matches(job, Min(hits))
    BY <1>2, <2>1
  <2> QED BY <1>3, <2>1, <2>2, <2>3 DEF Good
<1>7. ASSUME NEW t \in Nat, t >= from + 1, Good(job, t), Wall(t) <= Last PROVE Wall(t) \in hits
  <2>1. Wall(t) \in Nat /\ ToInstant(Wall(t)) = t /\ Wall(t) >= least
    BY <1>4, <1>5, <1>7 DEF Good
  <2>2. ToInstant(Wall(t)) # Never
    BY <2>1 DEF Never
  <2> QED BY <1>2, <1>7, <2>1, <2>2, Zone DEF Good
<1>8. ASSUME NEW t \in Nat, t >= from + 1, Good(job, t), Wall(t) <= Last PROVE n # Never /\ n <= t
  <2>1. Wall(t) \in hits
    BY <1>7, <1>8
  <2>2. n \in Nat /\ Good(job, n) /\ Wall(n) <= Wall(t)
    BY <1>6, <2>1
  <2> QED BY <1>5, <1>8, <2>2 DEF Good, Never
<1> QED BY <1>1, <1>6, <1>8

\* What nextOccurrence returns is a number.
LEMMA OccurrenceType ==
    ASSUME NEW job, NEW from \in Int, from + 1 \in Nat
    PROVE  NextOccurrence(job, from) \in Int
<1> DEFINE hits == {w \in Wall(from + 1)..Last : Matches(job, w) /\ ToInstant(w) # Never}
<1>1. hits \subseteq Nat
  BY Zone DEF Wall
<1>2. NextOccurrence(job, from) = IF hits = {} THEN Never ELSE ToInstant(Min(hits))
  BY DEF NextOccurrence
<1> HIDE DEF hits
<1>3. hits # {} => ToInstant(Min(hits)) \in Int
  <2> SUFFICES ASSUME hits # {} PROVE ToInstant(Min(hits)) \in Int
    OBVIOUS
  <2>1. Min(hits) \in Nat
    BY <1>1, MinFacts
  <2> QED BY <2>1, InstantFacts, Zone DEF Never
<1> QED BY <1>2, <1>3 DEF Never

\* t is good for c, but for the end of the window.
Fits(c, t) ==
    /\ t \in Nat /\ t >= c.armedAt + 1 /\ t >= c.job.startAt
    /\ c.started # Never => t >= c.started + c.job.interval
    /\ Good(c.job, t)

Closed(job, t) == job.stopAt # Never /\ t > job.stopAt

Clocks == [job : ClockJobs, now : Nat, started : Nat \cup {Never}, busy : BOOLEAN, armedAt : Nat, next : Int]

\* The window and the interval of a job.
LEMMA JobFacts ==
    ASSUME NEW job \in ClockJobs
    PROVE  job.startAt \in Nat /\ job.interval \in Nat /\ job.stopAt \in Nat \cup {Never}
BY ClockAssumption DEF ClockAssumption

\* So is what nextRun() returns.
LEMMA NextRunType ==
    ASSUME NEW job \in ClockJobs, NEW a \in Nat, NEW st \in Nat \cup {Never}
    PROVE  NextRun(job, a, st) \in Int
<1> DEFINE first == NextOccurrence(job, a)
           second == NextOccurrence(job, job.startAt - 1)
           opened == IF first # Never /\ first < job.startAt THEN second ELSE first
           floor == st + job.interval
           third == NextOccurrence(job, floor - 1)
           spaced == IF job.interval > 0 /\ st # Never /\ opened < floor THEN third ELSE opened
<1>1. first \in Int /\ second \in Int
  BY JobFacts, OccurrenceType
<1>2. st # Never => third \in Int
  BY JobFacts, OccurrenceType
<1> HIDE DEF first, second, third
<1>3. spaced \in Int
  BY <1>1, <1>2
<1>4. NextRun(job, a, st) = Never \/ NextRun(job, a, st) = spaced
  BY DEF NextRun, first, second, third
<1> QED BY <1>3, <1>4 DEF Never

\* What nextRun() returns, read off its three searches.
LEMMA RunFacts ==
    ASSUME NEW c \in Clocks, InOrder(c), c.started # Never => c.job.interval > 0,
           NEW r, r = NextRun(c.job, c.armedAt, c.started)
    PROVE  /\ r # Never => Fits(c, r) /\ ~Closed(c.job, r)
           /\ \A t : Fits(c, t) /\ Wall(t) <= Last =>
                 /\ r = Never => Closed(c.job, t)
                 /\ r # Never => r <= t
<1> DEFINE job == c.job
           a == c.armedAt
           st == c.started
           first == NextOccurrence(job, a)
           second == NextOccurrence(job, job.startAt - 1)
           opened == IF first # Never /\ first < job.startAt THEN second ELSE first
           floor == st + job.interval
           third == NextOccurrence(job, floor - 1)
           spaced == IF job.interval > 0 /\ st # Never /\ opened < floor THEN third ELSE opened
<1>1. /\ a \in Nat /\ job.startAt \in Nat /\ job.interval \in Nat /\ job.stopAt \in Nat \cup {Never}
      /\ st \in Nat \cup {Never} /\ (st # Never => floor \in Nat)
  BY JobFacts DEF Clocks
<1>2. ~Repeated(a + 1) /\ ~Repeated(job.startAt) /\ (st # Never => ~Repeated(floor))
  BY DEF InOrder
<1>3. r = IF opened = Never \/ opened < job.startAt \/ Closed(job, opened) \/ spaced = Never \/ Closed(job, spaced)
          THEN Never ELSE spaced
  BY DEF NextRun, Closed
<1> HIDE DEF job, a, st
<1> DEFINE Later(n, x) == n = Never \/ (n \in Nat /\ n >= x /\ Good(job, n))
           Least(n, x) == \A t \in Nat : t >= x /\ Good(job, t) /\ Wall(t) <= Last => n # Never /\ n <= t
<1>4. Later(first, a + 1) /\ Least(first, a + 1)
  <2>1. a \in Int /\ a + 1 \in Nat /\ ~Repeated(a + 1)
    BY <1>1, <1>2
  <2> QED BY <2>1, OccurrenceFacts
<1>5. Later(second, job.startAt) /\ Least(second, job.startAt)
  <2> DEFINE from == job.startAt - 1
  <2>1. from \in Int /\ from + 1 = job.startAt
    BY <1>1
  <2> HIDE DEF from
  <2>2. from + 1 \in Nat /\ ~Repeated(from + 1)
    BY <1>1, <1>2, <2>1
  <2>3. Later(NextOccurrence(job, from), from + 1) /\ Least(NextOccurrence(job, from), from + 1)
    BY <2>1, <2>2, OccurrenceFacts
  <2> QED BY <2>1, <2>3 DEF from
<1>6. st # Never => Later(third, floor) /\ Least(third, floor)
  <2> SUFFICES ASSUME st # Never PROVE Later(third, floor) /\ Least(third, floor)
    OBVIOUS
  <2> DEFINE from == floor - 1
  <2>1. from \in Int /\ from + 1 = floor
    BY <1>1
  <2> HIDE DEF from
  <2>2. from + 1 \in Nat /\ ~Repeated(from + 1)
    BY <1>1, <1>2, <2>1
  <2>3. Later(NextOccurrence(job, from), from + 1) /\ Least(NextOccurrence(job, from), from + 1)
    BY <2>1, <2>2, OccurrenceFacts
  <2> QED BY <2>1, <2>3 DEF from
<1> HIDE DEF first, second, third
<1>7. /\ Later(opened, a + 1) /\ (opened # Never => opened >= job.startAt)
      /\ \A t \in Nat : t >= a + 1 /\ t >= job.startAt /\ Good(job, t) /\ Wall(t) <= Last =>
            opened # Never /\ opened <= t
  BY <1>1, <1>4, <1>5 DEF Never
<1> HIDE DEF opened
<1>8. /\ (opened # Never => Later(spaced, a + 1)) /\ (opened # Never /\ spaced # Never => spaced >= opened)
      /\ opened # Never /\ spaced # Never /\ st # Never => spaced >= floor
      /\ \A t : Fits(c, t) /\ Wall(t) <= Last => opened # Never /\ opened <= t /\ spaced # Never /\ spaced <= t
  <2>1. st # Never => job.interval > 0
    BY DEF job, st
  <2>2. \A t : Fits(c, t) => /\ t \in Nat /\ t >= a + 1 /\ t >= job.startAt /\ Good(job, t)
                             /\ st # Never => t >= floor
    BY DEF Fits, job, a, st
  <2>3. CASE st # Never /\ opened < floor
    <3>1. spaced = third
      BY <2>1, <2>3
    <3> HIDE DEF spaced, floor
    <3> QED BY <1>1, <1>6, <1>7, <2>2, <2>3, <3>1 DEF Never
  <2>4. CASE ~(st # Never /\ opened < floor)
    <3>1. spaced = opened
      BY <2>4
    <3> HIDE DEF spaced, floor
    <3> QED BY <1>1, <1>7, <2>2, <2>4, <3>1 DEF Never
  <2> QED BY <2>3, <2>4
<1> HIDE DEF spaced, floor
<1>9. ASSUME r # Never PROVE Fits(c, r) /\ ~Closed(job, r)
  <2>1. r = spaced /\ opened # Never /\ spaced # Never /\ ~Closed(job, r)
    BY <1>3, <1>9
  <2>2. r \in Nat /\ r >= a + 1 /\ Good(job, r) /\ r >= job.startAt /\ (st # Never => r >= floor)
    BY <1>1, <1>7, <1>8, <2>1
  <2> QED BY <2>1, <2>2 DEF Fits, job, a, st, floor
<1>10. ASSUME NEW t, Fits(c, t), Wall(t) <= Last
       PROVE  (r = Never => Closed(job, t)) /\ (r # Never => r <= t)
  <2>1. /\ opened # Never /\ opened <= t /\ spaced # Never /\ spaced <= t /\ t \in Nat
        /\ opened \in Nat /\ spaced \in Nat /\ opened >= job.startAt
    BY <1>7, <1>8, <1>10 DEF Fits
  <2>2. Closed(job, opened) \/ Closed(job, spaced) => Closed(job, t)
    BY <1>1, <2>1 DEF Closed
  <2> QED BY <1>1, <1>3, <2>1, <2>2
<1> QED BY <1>9, <1>10 DEF job

\* A Cron that does not run is armed for what nextRun() returned.
ClockInv ==
    /\ clock \in Clocks
    /\ clock.started # Never => clock.job.interval > 0
    /\ ~clock.busy => clock.next = NextRun(clock.job, clock.armedAt, clock.started)

\* A clock that was just armed.
LEMMA ArmedFacts ==
    ASSUME NEW job \in ClockJobs, NEW a \in Nat, NEW st \in Nat \cup {Never}
    PROVE  /\ Armed(job, a, st, FALSE) \in Clocks
           /\ Armed(job, a, st, FALSE).next = NextRun(job, a, st)
BY NextRunType DEF Armed, Clocks

\* The invariant holds in the beginning.
LEMMA ClockStarts == ClockInit => ClockInv
<1> SUFFICES ASSUME NEW job \in ClockJobs, NEW now \in 0..Last, clock = Armed(job, now, Never, FALSE)
             PROVE  ClockInv
  BY DEF ClockInit
<1>1. now \in Nat /\ Never \in Nat \cup {Never}
  BY Zone
<1>2. clock \in Clocks /\ clock.next = NextRun(job, now, Never)
  BY <1>1, ArmedFacts
<1>3. clock.job = job /\ clock.armedAt = now /\ clock.started = Never
  BY DEF Armed
<1> QED BY <1>2, <1>3 DEF ClockInv

\* Every step keeps it: the date is the one computed when the Cron was armed.
LEMMA ClockPreserved == ClockInv /\ [ClockNext]_clock => ClockInv'
<1> SUFFICES ASSUME ClockInv, ClockNext PROVE ClockInv'
  BY DEF ClockInv
<1>1. clock \in Clocks
  BY DEF ClockInv
<1>2. CASE Tick
  BY <1>1, <1>2 DEF Tick, ClockInv, Clocks
<1>3. CASE ClockFires
  <2> DEFINE st == IF clock.job.interval > 0 THEN clock.now ELSE Never
  <2>1. clock' = [clock EXCEPT !.busy = TRUE, !.next = Never, !.armedAt = clock.now, !.started = st]
    BY <1>3 DEF ClockFires
  <2>2. clock.now \in Nat /\ st \in Nat \cup {Never} /\ Never \in Int /\ (st # Never => clock.job.interval > 0)
    BY <1>1 DEF Clocks, Never
  <2> HIDE DEF st
  <2>3. clock' \in Clocks /\ clock'.busy = TRUE /\ clock'.job = clock.job /\ clock'.started = st
    BY <1>1, <2>1, <2>2 DEF Clocks
  <2> QED BY <2>2, <2>3 DEF ClockInv
<1>4. CASE ClockRunEnds
  <2>1. clock' = Armed(clock.job, clock.now, clock.started, FALSE)
    BY <1>4 DEF ClockRunEnds
  <2>2. clock.job \in ClockJobs /\ clock.now \in Nat /\ clock.started \in Nat \cup {Never}
    BY <1>1 DEF Clocks
  <2>3. clock' \in Clocks /\ clock'.next = NextRun(clock.job, clock.now, clock.started)
    BY <2>1, <2>2, ArmedFacts
  <2>4. clock'.job = clock.job /\ clock'.armedAt = clock.now /\ clock'.started = clock.started
    BY <2>1 DEF Armed
  <2> QED BY <2>3, <2>4 DEF ClockInv
<1> QED BY <1>2, <1>3, <1>4 DEF ClockNext

\* The date a recurring Cron is armed for is the first instant the expression
\* names for the first time in the window, after the interval (nextRun,
\* nextOccurrence, toInstant), for any expression, zone and moment.
THEOREM DueStaysRight == ClockSpec => []DueIsRight
<1>1. ClockInv => DueIsRight
  <2> SUFFICES ASSUME ClockInv, ~clock.busy, InOrder(clock), clock.next <= Last - Shift \/ clock.next = Never,
                      DueRef(clock) <= Last - Shift
               PROVE  clock.next = DueRef(clock)
    BY DEF DueIsRight
  <2> DEFINE ok == {t \in (clock.armedAt + 1)..Last :
                      /\ Matches(clock.job, Wall(t)) /\ ~Repeated(t)
                      /\ t >= clock.job.startAt
                      /\ clock.started # Never => t >= clock.started + clock.job.interval}
             r == clock.next
  <2>1. clock \in Clocks /\ clock.armedAt \in Nat /\ clock.job \in ClockJobs /\ clock.next \in Int
    BY DEF ClockInv, Clocks
  <2>2. DueRef(clock) = IF ok = {} \/ Closed(clock.job, Min(ok)) THEN Never ELSE Min(ok)
    BY DEF DueRef, Closed
  <2>3. \A t : t \in ok <=> Fits(clock, t) /\ t <= Last
    BY <2>1, Zone DEF Fits, Good
  <2>4. ok \subseteq Nat
    BY <2>1, Zone
  <2> HIDE DEF ok
  <2>5. ok # {} => Min(ok) \in ok /\ \A t \in ok : Min(ok) <= t
    BY <2>4, MinFacts
  <2>6. /\ r # Never => Fits(clock, r) /\ ~Closed(clock.job, r)
        /\ \A t : Fits(clock, t) /\ Wall(t) <= Last =>
              /\ r = Never => Closed(clock.job, t)
              /\ r # Never => r <= t
    BY <2>1, RunFacts DEF ClockInv
  <2>7. \A t \in ok : t <= Last - Shift => Wall(t) <= Last
    BY <2>4, Zone DEF Wall
  <2>8. CASE r = Never
    <3> SUFFICES ASSUME ok # {}, ~Closed(clock.job, Min(ok)) PROVE FALSE
      BY <2>2, <2>8
    <3>1. Min(ok) \in ok /\ Min(ok) <= Last - Shift
      BY <2>2, <2>5
    <3> QED BY <2>3, <2>6, <2>7, <2>8, <3>1
  <2>9. CASE r # Never
    <3>1. r \in ok /\ r <= Last - Shift
      BY <2>1, <2>3, <2>6, <2>9, Zone
    <3>2. Min(ok) \in ok /\ Min(ok) <= r /\ Min(ok) \in Nat /\ r \in Nat
      BY <2>4, <2>5, <3>1
    <3>3. Min(ok) <= Last - Shift
      BY <3>1, <3>2, Zone
    <3>4. r <= Min(ok)
      BY <2>3, <2>6, <2>7, <2>9, <3>2, <3>3
    <3>5. r = Min(ok)
      BY <3>2, <3>4
    <3> QED BY <2>2, <2>6, <2>9, <3>1, <3>5
  <2> QED BY <2>8, <2>9
<1> QED BY <1>1, ClockStarts, ClockPreserved, PTL DEF ClockSpec
=============================================================================
