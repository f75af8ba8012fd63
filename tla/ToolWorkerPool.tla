--------------------------- MODULE ToolWorkerPool ---------------------------
(***************************************************************************)
(* tool-runtime/index.ts: the batches of tool calls of several turns share *)
(* one pool of worker threads.                                             *)
(*                                                                         *)
(* Everything in the pool happens in synchronous callbacks: a batch is     *)
(* submitted, a worker posts a result or dies, a timer fires, the signal   *)
(* of a batch is raised, the runtime is shut down.  Each is one step, with *)
(* the drain() it ends in.  A tool runs inside its worker, or, if it needs *)
(* the state of the process, the worker asks the main thread to run it and *)
(* waits (handleRpc).  Tools may hang.                                     *)
(*                                                                         *)
(* A message or an event of a worker whose call is settled is dropped by   *)
(* the code, and is no step here.                                          *)
(***************************************************************************)
EXTENDS Naturals, Sequences, FiniteSets

CONSTANTS
    Batches,     \* executeToolBatch calls
    CallsOf,     \* CallsOf[b]: the calls of batch b, in order
    MainThread,  \* calls of mainThreadToolNames
    PoolSize,    \* maxWorkers
    Idle         \* an idle slot

In(x, s) == \E i \in 1..Len(s) : s[i] = x
ToolCalls == UNION {{CallsOf[b][i] : i \in 1..Len(CallsOf[b])} : b \in Batches}
BatchOf(j) == CHOOSE b \in Batches : In(j, CallsOf[b])

ASSUME ToolPoolAssumption ==
    /\ IsFiniteSet(Batches)
    /\ \A b \in Batches : CallsOf[b] \in Seq(ToolCalls)
    /\ \A b \in Batches : \A i, k \in 1..Len(CallsOf[b]) :
          CallsOf[b][i] = CallsOf[b][k] => i = k
    /\ \A b, c \in Batches : (\E j \in ToolCalls : In(j, CallsOf[b]) /\ In(j, CallsOf[c])) => b = c
    /\ MainThread \subseteq ToolCalls
    /\ PoolSize \in Nat \ {0}
    /\ Idle \notin ToolCalls

VARIABLES
    stage,     \* stage[b]: "new", "out" until all its calls are answered, "back"
    signal,    \* signal[b]: the AbortSignal of b was raised
    queue,     \* the calls that wait for a worker
    slots,     \* workers; slots[i]: the call slot i is busy with, or Idle
    answer,    \* answer[j]: how call j was answered
    onMain,    \* calls whose tool is at work on the main thread
    replied    \* calls whose worker got the reply it asked the main thread for

vars == <<stage, signal, queue, slots, answer, onMain, replied>>

Answers == {"none", "result", "failed", "timeout", "aborted", "shutdown"}
AtWork(j) == In(j, slots)
-----------------------------------------------------------------------------

\* getIdleSlot: the idle slots, then the ones that may still be created.
Places(w) == {i \in 1..PoolSize : i > Len(w) \/ w[i] = Idle}

Rank(i, S) == Cardinality({k \in S : k <= i})

\* Mutant of Drain: a free place is not used.
Drain_never(q, w) == queue' = q /\ slots' = w

\* drain(): the oldest calls get the free places in order.
Drain(q, w) ==
    LET n == IF Len(q) < Cardinality(Places(w)) THEN Len(q) ELSE Cardinality(Places(w))
        taken == {i \in Places(w) : Rank(i, Places(w)) <= n}
    IN /\ queue' = SubSeq(q, n + 1, Len(q))
       /\ slots' = [i \in 1..(Len(w) + Cardinality({k \in taken : k > Len(w)})) |->
                        IF i \in taken THEN q[Rank(i, Places(w))] ELSE w[i]]

\* What is left of w, in order.
Without(w, S) ==
    LET kept == {i \in 1..Len(w) : w[i] \notin S}
    IN [n \in 1..Cardinality(kept) |-> w[CHOOSE i \in kept : Rank(i, kept) = n]]
Answered(S, how) == answer' = [j \in ToolCalls |-> IF j \in S THEN how ELSE answer[j]]

Init ==
    /\ stage = [b \in Batches |-> "new"]
    /\ signal = [b \in Batches |-> FALSE]
    /\ queue = <<>> /\ slots = <<>>
    /\ answer = [j \in ToolCalls |-> "none"]
    /\ onMain = {} /\ replied = {}
-----------------------------------------------------------------------------
(* executeToolBatchInner *)

\* A batch whose signal was raised before it began is answered at once.
Submit(b) ==
    /\ stage[b] = "new"
    /\ stage' = [stage EXCEPT ![b] = "out"]
    /\ IF signal[b]
       THEN /\ Answered({j \in ToolCalls : In(j, CallsOf[b])}, "aborted")
            /\ UNCHANGED <<queue, slots>>
       ELSE Drain(queue \o CallsOf[b], slots) /\ UNCHANGED answer
    /\ UNCHANGED <<signal, onMain, replied>>

\* Promise.all resolves and the abort listener is removed.
ReturnBatch(b) ==
    /\ stage[b] = "out"
    /\ \A i \in 1..Len(CallsOf[b]) : answer[CallsOf[b][i]] # "none"
    /\ stage' = [stage EXCEPT ![b] = "back"]
    /\ UNCHANGED <<signal, queue, slots, answer, onMain, replied>>
-----------------------------------------------------------------------------
(* createSlot, startJob, handleRpc, finishJob *)

\* finishJob: a worker that did not post a result is terminated and its slot
\* removed; drain() creates another one if a call waits.
FinishJob(j, how) ==
    /\ Answered({j}, how)
    /\ Drain(queue, IF how = "result" THEN [i \in 1..Len(slots) |-> IF slots[i] = j THEN Idle ELSE slots[i]]
                                      ELSE Without(slots, {j}))
    /\ UNCHANGED <<stage, signal, onMain, replied>>

\* The worker posts a result, of success or of failure.
Result(j) ==
    /\ AtWork(j)
    /\ j \in MainThread => j \in replied
    /\ FinishJob(j, "result")

WorkerFails(j) == AtWork(j) /\ FinishJob(j, "failed")

\* Mutant of Timeout: a call that waits for the main thread is spared.
Timeout_notOnMain(j) == AtWork(j) /\ j \notin onMain /\ FinishJob(j, "timeout")

\* The timer startJob set fires.
Timeout(j) == AtWork(j) /\ FinishJob(j, "timeout")

\* handleRpc: the tool runs on the main thread, without a timer or a signal.
AskMain(j) ==
    /\ AtWork(j)
    /\ j \in MainThread \ (onMain \cup replied)
    /\ onMain' = onMain \cup {j}
    /\ UNCHANGED <<stage, signal, queue, slots, answer, replied>>

\* It returns, and is only heard if its call is still open.
MainReturns(j) ==
    /\ j \in onMain
    /\ onMain' = onMain \ {j}
    /\ replied' = IF AtWork(j) THEN replied \cup {j} ELSE replied
    /\ UNCHANGED <<stage, signal, queue, slots, answer>>
-----------------------------------------------------------------------------
(* abortBatch and dispose *)

Mine(j, b) == j # Idle /\ In(j, CallsOf[b])

\* The loop over workers, from which finishJob removes the slot it is at: the
\* slot that moves up into its place is passed over.
Struck(b, w) ==
    {i \in 1..Len(w) : \E l \in 0..(i - 1) :
        /\ l > 0 => ~Mine(w[l], b)
        /\ \A k \in (l + 1)..i : Mine(w[k], b)
        /\ (i - l) % 2 = 1}

\* Mutant of Abort: the slots are gone through and the queue is left alone.
Abort_keepsQueue(b) ==
    /\ ~signal[b]
    /\ signal' = [signal EXCEPT ![b] = TRUE]
    /\ IF stage[b] = "out"
       THEN LET hit == {slots[i] : i \in Struck(b, slots)} IN
            Answered(hit, "aborted") /\ Drain(queue, Without(slots, hit))
       ELSE UNCHANGED <<queue, slots, answer>>
    /\ UNCHANGED <<stage, onMain, replied>>

\* The signal of b is raised; while b is out its listener calls abortBatch.
Abort(b) ==
    /\ ~signal[b]
    /\ signal' = [signal EXCEPT ![b] = TRUE]
    /\ IF stage[b] = "out"
       THEN LET hit == {slots[i] : i \in Struck(b, slots)}
                cut == {j \in ToolCalls : In(j, queue) /\ In(j, CallsOf[b])} IN
            /\ Answered(cut \cup hit, "aborted")
            /\ Drain(Without(queue, cut), Without(slots, hit))
       ELSE UNCHANGED <<queue, slots, answer>>
    /\ UNCHANGED <<stage, onMain, replied>>

\* shutdownToolRuntime; the next batch creates a new pool.
Dispose ==
    /\ queue # <<>> \/ slots # <<>>
    /\ Answered({j \in ToolCalls : In(j, queue) \/ AtWork(j)}, "shutdown")
    /\ queue' = <<>> /\ slots' = <<>>
    /\ UNCHANGED <<stage, signal, onMain, replied>>
-----------------------------------------------------------------------------
Next ==
    \/ \E b \in Batches : Submit(b) \/ ReturnBatch(b) \/ Abort(b)
    \/ \E j \in ToolCalls :
          \/ Result(j) \/ WorkerFails(j) \/ Timeout(j)
          \/ AskMain(j) \/ MainReturns(j)
    \/ Dispose

Spec == Init /\ [][Next]_vars

\* Timers fire and settled promises are awaited; tools and workers may hang.
Fairness ==
    /\ \A j \in ToolCalls : WF_vars(Timeout(j))
    /\ \A b \in Batches : WF_vars(ReturnBatch(b))

FairSpec == Spec /\ Fairness
-----------------------------------------------------------------------------
TypeOK ==
    /\ stage \in [Batches -> {"new", "out", "back"}]
    /\ signal \in [Batches -> BOOLEAN]
    /\ queue \in Seq(ToolCalls)
    /\ slots \in Seq(ToolCalls \cup {Idle}) /\ Len(slots) <= PoolSize
    /\ answer \in [ToolCalls -> Answers]
    /\ onMain \subseteq MainThread /\ replied \subseteq MainThread

Places_of(j) ==
    Cardinality({i \in 1..Len(queue) : queue[i] = j})
      + Cardinality({i \in 1..Len(slots) : slots[i] = j})

\* A call of a batch that is out is answered, or it is in exactly one place
\* from which an answer can still come; an answered call occupies none.  A
\* timeout, a dead worker, an abort and a shutdown each take calls out of these
\* places on a path of their own.
NoCallIsLost ==
    \A j \in ToolCalls :
        Places_of(j) = IF stage[BatchOf(j)] = "out" /\ answer[j] = "none" THEN 1 ELSE 0

\* No call waits while a worker is idle or one may be created: every path that
\* frees a slot, or removes one, drains the queue.
FullWhileQueued ==
    queue # <<>> => Len(slots) = PoolSize /\ ~In(Idle, slots)

\* Every call is somewhere, and nowhere idle for nothing (tool-runtime/index.ts:536).
CallsAccounted == TypeOK /\ NoCallIsLost /\ FullWhileQueued

\* Once a batch is aborted none of its calls is started, although aborting its
\* running calls frees slots and drains the queue.
NoLateStart ==
    [][\A j \in ToolCalls : signal'[BatchOf(j)] /\ ~AtWork(j) => ~AtWork(j)']_vars

\* Every batch comes back, even if all its tools hang.
BatchesReturn == \A b \in Batches : stage[b] = "out" ~> stage[b] = "back"
-----------------------------------------------------------------------------
(* what the documentation says and the code does not do *)

\* agent/agent-loop.ts:214, "Abort signal to stop generation mid-execution":
\* an aborted batch has no call left to wait for.
AbortAnswersBatch ==
    \A b \in Batches : stage[b] = "out" /\ signal[b] =>
        \A i \in 1..Len(CallsOf[b]) : answer[CallsOf[b][i]] # "none"
=============================================================================
