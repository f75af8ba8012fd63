----------------------------- MODULE WorkerPool -----------------------------
(***************************************************************************)
(* workers/WorkerPool.ts: executeWithConcurrency over a batch of tasks,    *)
(* acquireWorker (reuse, create, or poll for an idle worker) and           *)
(* releaseWorker, with shutdown() at any moment.                           *)
(*                                                                         *)
(* Workers are numbered in the order of their creation; what run answers   *)
(* (a result, an error, or the timeout of createWorker) is not told apart, *)
(* since execute turns all of them into a result.                          *)
(***************************************************************************)
EXTENDS Naturals, Sequences, SequencesExt, FiniteSets

CONSTANTS
    Tasks,        \* tasks.length
    Concurrency,  \* what the caller of executeWithConcurrency asks for
    MaxWorkers

ASSUME PoolAssumption ==
    {Tasks, Concurrency, MaxWorkers} \subseteq Nat \ {0}

VARIABLES
    workers,    \* workers: the ids it knows
    created,    \* how many were ever created
    idle,       \* idleWorkers, the last one is taken first
    busy,       \* busyWorkers
    task,       \* task[i]: the execute call of the i-th task
    launched,   \* how far the loop of executeWithConcurrency is
    executing,  \* its set of promises, settled ones included
    batch,      \* "looping", "racing", "returned" or "thrown"
    down        \* shutdown() was called (history)

poolVars == <<workers, created, idle, busy, task, launched, executing, batch, down>>

TaskIds == 1..Tasks
Nobody == 0
Done == {i \in TaskIds : task[i].at = "done"}
Thrown == {i \in TaskIds : task[i].at = "thrown"}
InFlight == {i \in TaskIds : task[i].at \in {"waiting", "running"}}

PoolInit ==
    /\ workers = {}
    /\ created = 0
    /\ idle = <<>>
    /\ busy = {}
    /\ task = [i \in TaskIds |-> [at |-> "new", worker |-> Nobody]]
    /\ launched = 0
    /\ executing = {}
    /\ batch = "looping"
    /\ down = FALSE

\* The worker is looked up by its id: after a shutdown there may be none.
Use(i, w) ==
    /\ task' = [task EXCEPT ![i] =
                   [at |-> "running", worker |-> IF w \in workers' THEN w ELSE Nobody]]
    /\ busy' = busy \cup {w}

\* Mutant of TakeIdle: the worker stays in idleWorkers.
TakeIdle_stays(i) ==
    /\ idle # <<>>
    /\ UNCHANGED <<workers, created, idle>>
    /\ Use(i, Last(idle))

TakeIdle(i) ==
    /\ idle # <<>>
    /\ idle' = Front(idle)
    /\ UNCHANGED <<workers, created>>
    /\ Use(i, Last(idle))

AcquireWorker(i) ==
    \/ TakeIdle(i)
    \/ /\ idle = <<>> /\ Cardinality(workers) < MaxWorkers
       /\ created' = created + 1 /\ workers' = workers \cup {created + 1}
       /\ Use(i, created + 1)
       /\ UNCHANGED idle
    \/ /\ idle = <<>> /\ Cardinality(workers) >= MaxWorkers
       /\ task' = [task EXCEPT ![i].at = "waiting"]
       /\ UNCHANGED <<workers, created, idle, busy>>

\* One turn of the loop.
Launch ==
    /\ batch = "looping" /\ launched < Tasks
    /\ launched' = launched + 1
    /\ executing' = executing \cup {launched + 1}
    /\ AcquireWorker(launched + 1)
    /\ batch' = IF Cardinality(executing') >= Concurrency THEN "racing" ELSE "looping"
    /\ UNCHANGED down

\* Promise.race is over as soon as any of the promises is; the one that is
\* forgotten then is the newest.
RaceEnds ==
    /\ batch = "racing"
    /\ \/ executing \cap Done # {} /\ batch' = "looping" /\ executing' = executing \ {launched}
       \/ executing \cap Thrown # {} /\ batch' = "thrown" /\ UNCHANGED executing
    /\ UNCHANGED <<workers, created, idle, busy, task, launched, down>>

\* Promise.all over what is left in executing.
Return ==
    /\ batch = "looping" /\ launched = Tasks
    /\ \/ executing \subseteq Done /\ batch' = "returned"
       \/ executing \cap Thrown # {} /\ batch' = "thrown"
    /\ UNCHANGED <<workers, created, idle, busy, task, launched, executing, down>>

\* The poll of a waiting acquireWorker.
Poll(i) ==
    /\ task[i].at = "waiting"
    /\ TakeIdle(i)
    /\ UNCHANGED <<launched, executing, batch, down>>

\* releaseWorker: whether the pool still knows the worker is not asked.
ReleaseWorker(w) ==
    /\ busy' = busy \ {w}
    /\ idle' = Append(idle, w)

\* run is over.  Without a worker run and the id of the worker to release both
\* throw, and so does execute.
Finish(i) ==
    /\ task[i].at = "running"
    /\ LET w == task[i].worker IN
       IF w # Nobody THEN ReleaseWorker(w) /\ task' = [task EXCEPT ![i].at = "done"]
       ELSE task' = [task EXCEPT ![i].at = "thrown"] /\ UNCHANGED <<idle, busy>>
    /\ UNCHANGED <<workers, created, launched, executing, batch, down>>

Shutdown ==
    /\ ~down
    /\ down' = TRUE
    /\ workers' = {} /\ idle' = <<>> /\ busy' = {}
    /\ UNCHANGED <<created, task, launched, executing, batch>>

PoolNext ==
    \/ Launch \/ RaceEnds \/ Return \/ Shutdown
    \/ \E i \in TaskIds : Poll(i) \/ Finish(i)

PoolSpec == PoolInit /\ [][PoolNext]_poolVars
-----------------------------------------------------------------------------
(* Properties *)

\* Until a shutdown every worker is either idle or serves exactly one task, and
\* a task only waits while all that may be created are there; so nobody waits
\* for a worker that does not come back.
WorkersAccounted ==
    ~down =>
        /\ workers = 1..created /\ created <= MaxWorkers
        /\ busy \cap ToSet(idle) = {} /\ busy \cup ToSet(idle) = workers
        /\ Cardinality(ToSet(idle)) = Len(idle)
        /\ \A w \in busy : \E i \in TaskIds :
              \A j \in TaskIds : (task[j].at = "running" /\ task[j].worker = w) <=> j = i
        /\ (\E i \in TaskIds : task[i].at = "waiting") => created = MaxWorkers

\* The limit executeWithConcurrency really keeps: it holds until one of the first
\* Concurrency - 1 tasks has ended, whose promise then stays in its set.
LimitUntilFirstEnd ==
    Cardinality(InFlight) > Concurrency =>
        \E i \in 1..(Concurrency - 1) : i \in Done \cup Thrown

\* What the pool and its loop keep in step (WorkerPool.ts:100, :111, :142).
PoolSound == WorkersAccounted /\ LimitUntilFirstEnd

\* "Procesar 100 tareas pero solo 5 a la vez" (API-WORKERS-EVENTS.md:184).
OnlySoManyAtATime ==
    Cardinality({i \in TaskIds : task[i].at = "running"}) <= Concurrency
=============================================================================
