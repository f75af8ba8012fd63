-------------------------- MODULE DelegationGroups --------------------------
(***************************************************************************)
(* gateway/delegation-groups.ts: the group of worker tasks one turn        *)
(* delegates, and the single summary its coordinator is sent when all of   *)
(* them have ended.  Groups share nothing, so one group is modelled.       *)
(*                                                                         *)
(* Calls interleave at their awaits: task_delegate registers tasks, the    *)
(* host seals the group when the turn ends, the terminal hook of each job  *)
(* records its outcome, and whoever of the last two finds the group        *)
(* complete finalizes it.  mutate() is one atomic step: it applies its     *)
(* function to the row it has read and puts conditionally, as the loops of *)
(* JobStoreOCC do; it may also give up, and then throws.                   *)
(***************************************************************************)
EXTENDS Naturals, Sequences

CONSTANTS
    Tasks,     \* tasks the turn may delegate
    MaxJobs,   \* bound: jobs per task, 1 + the revisions task_revise asks for
    NoGroup,   \* no document under this turn id
    Troubles   \* what may go wrong in this environment

AllTroubles == {"crash",         \* the process dies
                "giveUp",        \* mutate throws after MAX_RETRIES conflicts
                "summaryError",  \* the summary enqueuer throws
                "spawnError",    \* createRun or enqueue throws after the registration
                "cancelled"}     \* a job ends without its terminal hook

VARIABLES
    group,     \* the delegationGroups document
    at,        \* at[c]: the await call c is suspended at, "idle" if there is none
    prompt,    \* prompt[c]: the outcomes call c read when it claimed the summary
    enqueuer,  \* summaryEnqueuer # null
    spawned,   \* spawned[t]: jobs enqueued for task t
    ended,     \* ended[t]: those of them whose end is known
    sent,      \* the summaries enqueued (history)
    trouble    \* what went wrong so far (history)

vars == <<group, at, prompt, enqueuer, spawned, ended, sent, trouble>>

Jobs == 1..MaxJobs
Register(t) == <<"register", t>>
Record(t, k) == <<"record", t, k>>
Seal == <<"seal">>
Calls == {Register(t) : t \in Tasks} \cup {Record(t, k) : t \in Tasks, k \in Jobs} \cup {Seal}

\* outcome[t]: the job whose outcome is recorded for t, 0 if none.
Outcomes == [Tasks -> Jobs \cup {0}]
Groups == [status: {"open", "sealed", "ready", "notified"}, tasks: SUBSET Tasks,
           outcome: Outcomes, summary: {"none", "claim", "job"}]

ASSUME DelegationGroupsAssumption ==
    /\ MaxJobs \in Nat \ {0}
    /\ Troubles \subseteq AllTroubles
    /\ NoGroup \notin Groups

Nothing == [t \in Tasks |-> 0]
NewGroup(t) == [status |-> "open", tasks |-> {t}, outcome |-> Nothing, summary |-> "none"]

\* Mutant of isComplete: one outcome is enough.
isComplete_any(g) == \E t \in g.tasks : g.outcome[t] # 0

isComplete(g) == g.tasks # {} /\ \A t \in g.tasks : g.outcome[t] # 0

Init ==
    /\ group = NoGroup
    /\ at = [c \in Calls |-> "idle"]
    /\ prompt = [c \in Calls |-> Nothing]
    /\ enqueuer = FALSE
    /\ spawned = [t \in Tasks |-> 0]
    /\ ended = [t \in Tasks |-> {}]
    /\ sent = <<>>
    /\ trouble = {}

Goes(c, place) == at' = [at EXCEPT ![c] = place]

\* mutate(): the function is applied to the current document.
Mutate(c, f(_), then) ==
    /\ group' = f(group)
    /\ Goes(c, then)
    /\ UNCHANGED <<prompt, enqueuer, spawned, ended, sent, trouble>>
-----------------------------------------------------------------------------
(* registerDelegatedTask, and the enqueue that follows it *)

RegisterBegin(t) ==
    /\ at[Register(t)] = "idle"
    /\ spawned[t] < MaxJobs
    /\ spawned[t] > 0 => spawned[t] \in ended[t]
    /\ Goes(Register(t), IF group = NoGroup THEN "create" ELSE "append")
    /\ UNCHANGED <<group, prompt, enqueuer, spawned, ended, sent, trouble>>

\* put with expectedVersion 0: a conflict means another task created the group.
RegisterCreate(t) ==
    /\ at[Register(t)] = "create"
    /\ group' = IF group = NoGroup THEN NewGroup(t) ELSE group
    /\ Goes(Register(t), IF group = NoGroup THEN "spawn" ELSE "append")
    /\ UNCHANGED <<prompt, enqueuer, spawned, ended, sent, trouble>>

\* Mutant of RegisterAppend: a sealed group still takes tasks.
RegisterAppend_late(t) ==
    /\ at[Register(t)] = "append"
    /\ Mutate(Register(t), LAMBDA g : [g EXCEPT !.tasks = @ \cup {t}], "spawn")

\* Throws when the group is no longer open; the tool call then fails.
RegisterAppend(t) ==
    /\ at[Register(t)] = "append"
    /\ IF group.status = "open"
       THEN Mutate(Register(t), LAMBDA g : [g EXCEPT !.tasks = @ \cup {t}], "spawn")
       ELSE Mutate(Register(t), LAMBDA g : g, "idle")

\* task_delegate / task_revise enqueue the job once the task is registered.
Spawn(t) ==
    /\ at[Register(t)] = "spawn"
    /\ spawned' = [spawned EXCEPT ![t] = @ + 1]
    /\ Goes(Register(t), "idle")
    /\ UNCHANGED <<group, prompt, enqueuer, ended, sent, trouble>>

SpawnError(t) ==
    /\ "spawnError" \in Troubles
    /\ at[Register(t)] = "spawn"
    /\ Goes(Register(t), "idle")
    /\ trouble' = trouble \cup {"spawnError"}
    /\ UNCHANGED <<group, prompt, enqueuer, spawned, ended, sent>>
-----------------------------------------------------------------------------
(* recordDelegationOutcome and sealDelegationGroup *)

\* The terminal hook of job k of task t; it may fire again (DurableQueue).
RecordBegin(t, k) ==
    /\ k <= spawned[t]
    /\ at[Record(t, k)] = "idle"
    /\ ended' = [ended EXCEPT ![t] = @ \cup {k}]
    /\ Goes(Record(t, k), "push")
    /\ UNCHANGED <<group, prompt, enqueuer, spawned, sent, trouble>>

\* A cancelled job ends without its hook.
CancelledJob(t, k) ==
    /\ "cancelled" \in Troubles
    /\ k <= spawned[t]
    /\ k \notin ended[t]
    /\ ended' = [ended EXCEPT ![t] = @ \cup {k}]
    /\ trouble' = trouble \cup {"cancelled"}
    /\ UNCHANGED <<group, at, prompt, enqueuer, spawned, sent>>

\* Mutant of RecordPush: only the seal finalizes.
RecordPush_leaves(t, k) ==
    /\ at[Record(t, k)] = "push"
    /\ Mutate(Record(t, k), LAMBDA g : [g EXCEPT !.outcome[t] = IF @ = 0 THEN k ELSE @], "idle")

\* The first outcome of a task stays.
RecordPush(t, k) ==
    /\ at[Record(t, k)] = "push"
    /\ Mutate(Record(t, k), LAMBDA g : [g EXCEPT !.outcome[t] = IF @ = 0 THEN k ELSE @], "finalize")

SealBegin ==
    /\ at[Seal] = "idle"
    /\ group # NoGroup
    /\ Goes(Seal, IF group.status = "open" THEN "seal" ELSE "finalize")
    /\ UNCHANGED <<group, prompt, enqueuer, spawned, ended, sent, trouble>>

SealPut ==
    /\ at[Seal] = "seal"
    /\ Mutate(Seal, LAMBDA g : [g EXCEPT !.status = IF @ = "open" THEN "sealed" ELSE @], "finalize")
-----------------------------------------------------------------------------
(* finalizeIfReady, called last by both *)

\* Where a call that has seen the group ready goes on.
AfterReady == IF enqueuer THEN "claim" ELSE "idle"

\* A group nobody may summarize yet is left ready for the next call.
NotesMissingEnqueuer(seenReady) ==
    trouble' = IF seenReady /\ ~enqueuer THEN trouble \cup {"noEnqueuer"} ELSE trouble

FinalizeRead(c) ==
    /\ at[c] = "finalize"
    /\ Goes(c, CASE isComplete(group) /\ group.status = "sealed" -> "ready"
                 [] isComplete(group) /\ group.status = "ready" -> AfterReady
                 [] OTHER -> "idle")
    /\ NotesMissingEnqueuer(isComplete(group) /\ group.status = "ready")
    /\ UNCHANGED <<group, prompt, enqueuer, spawned, ended, sent>>

MakeReady(g) ==
    [g EXCEPT !.status = IF @ = "sealed" /\ isComplete(g) THEN "ready" ELSE @]

FinalizeReady(c) ==
    /\ at[c] = "ready"
    /\ group' = MakeReady(group)
    /\ Goes(c, IF group'.status = "ready" THEN AfterReady ELSE "idle")
    /\ NotesMissingEnqueuer(group'.status = "ready")
    /\ UNCHANGED <<prompt, enqueuer, spawned, ended, sent>>

\* Mutant of MayClaim: a claim somebody else holds is taken over.
MayClaim_taken(g) == g.status = "ready"

MayClaim(g) == g.status = "ready" /\ g.summary = "none"

\* The claim loop: one of the racing calls gets the summary.
Claim(c) ==
    /\ at[c] = "claim"
    /\ IF MayClaim(group)
       THEN /\ group' = [group EXCEPT !.summary = "claim"]
            /\ prompt' = [prompt EXCEPT ![c] = group.outcome]
            /\ Goes(c, "enqueue")
       ELSE Goes(c, "idle") /\ UNCHANGED <<group, prompt>>
    /\ UNCHANGED <<enqueuer, spawned, ended, sent, trouble>>

EnqueueSummary(c) ==
    /\ at[c] = "enqueue"
    /\ enqueuer
    /\ sent' = Append(sent, prompt[c])
    /\ Goes(c, "notify")
    /\ UNCHANGED <<group, prompt, enqueuer, spawned, ended, trouble>>

\* summaryEnqueuer rejects, or has been taken away (a TypeError).
EnqueueError(c) ==
    /\ at[c] = "enqueue"
    /\ "summaryError" \in Troubles \/ ~enqueuer
    /\ Goes(c, "release")
    /\ trouble' = trouble \cup {"summaryError"}
    /\ UNCHANGED <<group, prompt, enqueuer, spawned, ended, sent>>

\* Mutant of ReleaseClaim: the error path leaves the claim in place.
ReleaseClaim_keeps(c) ==
    /\ at[c] = "release"
    /\ Mutate(c, LAMBDA g : g, "idle")

\* The claim is given back; the error is thrown on and nobody tries again
\* unless another call finalizes the group.
ReleaseClaim(c) ==
    /\ at[c] = "release"
    /\ Mutate(c, LAMBDA g : [g EXCEPT !.summary = IF @ = "claim" THEN "none" ELSE @], "idle")

\* A notified group is returned unchanged.
Notify(c) ==
    /\ at[c] = "notify"
    /\ Mutate(c, LAMBDA g : IF g.status = "notified" THEN g
                            ELSE [g EXCEPT !.status = "notified", !.summary = "job"], "idle")

\* mutate throws, or the claim loop runs out of attempts.
GiveUp(c) ==
    /\ "giveUp" \in Troubles
    /\ at[c] \in {"append", "push", "seal", "ready", "claim", "release", "notify"}
    /\ Goes(c, "idle")
    /\ trouble' = trouble \cup {"giveUp"}
    /\ UNCHANGED <<group, prompt, enqueuer, spawned, ended, sent>>
-----------------------------------------------------------------------------
(* the host *)

SetEnqueuer ==
    /\ ~enqueuer
    /\ enqueuer' = TRUE
    /\ UNCHANGED <<group, at, prompt, spawned, ended, sent, trouble>>

\* The document survives; calls in flight and the enqueuer do not.
Crash ==
    /\ "crash" \in Troubles
    /\ at' = [c \in Calls |-> "idle"]
    /\ enqueuer' = FALSE
    /\ trouble' = trouble \cup {"crash"}
    /\ UNCHANGED <<group, prompt, spawned, ended, sent>>
-----------------------------------------------------------------------------
Finalize(c) ==
    \/ FinalizeRead(c)
    \/ FinalizeReady(c)
    \/ Claim(c)
    \/ EnqueueSummary(c)
    \/ EnqueueError(c)
    \/ ReleaseClaim(c)
    \/ Notify(c)

Next ==
    \/ \E t \in Tasks :
          \/ RegisterBegin(t)
          \/ RegisterCreate(t)
          \/ RegisterAppend(t)
          \/ Spawn(t)
          \/ SpawnError(t)
          \/ \E k \in Jobs : RecordBegin(t, k) \/ CancelledJob(t, k) \/ RecordPush(t, k)
    \/ SealBegin
    \/ SealPut
    \/ \E c \in Calls : Finalize(c) \/ GiveUp(c)
    \/ SetEnqueuer
    \/ Crash

Spec == Init /\ [][Next]_vars

\* A job the queue has accepted ends and reports (DurableQueue); the event loop
\* resumes every call.  Nobody has to seal or to call twice.
Reports(t, k) == RecordBegin(t, k) /\ k \notin ended[t]

Fairness ==
    /\ \A t \in Tasks :
          /\ WF_vars(RegisterCreate(t))
          /\ WF_vars(RegisterAppend(t))
          /\ WF_vars(Spawn(t))
          /\ \A k \in Jobs : WF_vars(Reports(t, k)) /\ WF_vars(RecordPush(t, k))
    /\ WF_vars(SealPut)
    /\ \A c \in Calls : WF_vars(Finalize(c))

FairSpec == Spec /\ Fairness
-----------------------------------------------------------------------------
(* what holds *)

Places == {"idle", "create", "append", "spawn", "push", "seal", "finalize", "ready",
           "claim", "enqueue", "release", "notify"}

TypeOK ==
    /\ group \in Groups \cup {NoGroup}
    /\ at \in [Calls -> Places]
    /\ prompt \in [Calls -> Outcomes]
    /\ enqueuer \in BOOLEAN
    /\ spawned \in [Tasks -> 0..MaxJobs]
    /\ ended \in [Tasks -> SUBSET Jobs]
    /\ sent \in Seq(Outcomes)
    /\ trouble \subseteq AllTroubles \cup {"noEnqueuer"}

\* "UNA sola respuesta final": however many terminal hooks and seals race, and
\* whatever crashes or throws in between, a group is summarized at most once.
AtMostOneSummary == Len(sent) <= 1

\* No summary leaves without the outcome of every task of the group.
SummaryIsComplete ==
    \A i \in 1..Len(sent) : \A t \in group.tasks : sent[i][t] # 0

\* A claim is held by a call that will settle it: as long as the process lives
\* and mutate does not throw, an error of the enqueuer never leaves the group
\* claimed by nobody (the code has no path that would free it).
ClaimIsHeld ==
    trouble \cap {"crash", "giveUp"} = {} =>
        \A g \in {group} \ {NoGroup} :
            g.summary = "claim" => \E c \in Calls : at[c] \in {"enqueue", "release", "notify"}

\* The group is well formed and its claim is held (delegation-groups.ts:171).
GroupSound == TypeOK /\ ClaimIsHeld

\* The group only moves forward: tasks join while it is open and never leave,
\* a recorded outcome is never replaced, the status never goes back.
Rank(status) ==
    CASE status = "open" -> 0 [] status = "sealed" -> 1
      [] status = "ready" -> 2 [] status = "notified" -> 3

OnlyForward ==
    [][group # NoGroup =>
          /\ group' # NoGroup
          /\ Rank(group.status) <= Rank(group'.status)
          /\ group.tasks \subseteq group'.tasks
          /\ group.status # "open" => group'.tasks = group.tasks
          /\ \A t \in Tasks : group.outcome[t] # 0 => group'.outcome[t] = group.outcome[t]]_vars

Status == IF group = NoGroup THEN "none" ELSE group.status

\* A sealed group is summarized in the end, whichever of the last outcome and
\* the seal comes last, unless something on the way failed: no interleaving of
\* seal and record leaves it waiting with nobody to finalize it.
SealedIsSummarized ==
    Status \in {"sealed", "ready"} ~> Status = "notified" \/ trouble # {}
-----------------------------------------------------------------------------
(* what the documentation says and the code does not do *)

\* The summary prompt tells the coordinator that every delegated task of the
\* turn has reached a terminal state: no job of a task is still out when its
\* summary is sent.
NoJobOutstanding ==
    sent # <<>> /\ trouble = {} => \A t \in group.tasks : spawned[t] \in ended[t]
=============================================================================
