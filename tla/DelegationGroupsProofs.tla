----------------------- MODULE DelegationGroupsProofs -----------------------
(***************************************************************************)
(* A group is summarized at most once and never incompletely, it only      *)
(* moves forward, and its claim is never held by nobody, for any number of *)
(* tasks, revisions, calls, crashes, give-ups and errors.                  *)
(*                                                                         *)
(* The argument: the claim is a lock. Only a call between the claim and    *)
(* the notification holds it (Holders), at most one call does (OneHolder), *)
(* it is handed out only while the group is ready and unclaimed, and once  *)
(* a summary is out it is never freed again (SentOnce). A group becomes    *)
(* ready only when it is complete, and from then on neither its tasks nor  *)
(* its outcomes shrink (ReadyIsComplete, PromptIsComplete). OnlyForward    *)
(* follows from the same invariant; GroupSound needs besides the types of  *)
(* all variables (TypedStep) and that a claim without a holder was left by *)
(* a call that died or gave up (ClaimStep).                                *)
(***************************************************************************)
EXTENDS DelegationGroups, TLAPS

Holding == {"enqueue", "release", "notify"}
Inside == {"append", "spawn", "push", "seal", "finalize", "ready", "claim"}

\* The part of TypeOK the argument needs.
Shapes ==
    /\ group \in Groups \cup {NoGroup}
    /\ at \in [Calls -> Places]
    /\ prompt \in [Calls -> Outcomes]
    /\ spawned \in [Tasks -> Nat]
    /\ sent \in Seq(Outcomes)

\* A call that works on the group has seen it, a job was enqueued only for a
\* registered task, and groups are never deleted.
GroupExists ==
    /\ \A c \in Calls : at[c] \in Inside => group # NoGroup
    /\ \A t \in Tasks : spawned[t] # 0 => group # NoGroup

ReadyIsComplete ==
    group # NoGroup /\ group.status \in {"ready", "notified"} => isComplete(group)

Holders ==
    \A c \in Calls : at[c] \in Holding =>
        group # NoGroup /\ group.status = "ready" /\ group.summary = "claim"

OneHolder ==
    \A c, d \in Calls : at[c] \in Holding /\ at[d] \in Holding => c = d

PromptIsComplete ==
    \A c \in Calls : at[c] = "enqueue" => \A t \in group.tasks : prompt[c][t] # 0

SentOnce ==
    sent # <<>> =>
        /\ group # NoGroup
        /\ group.status \in {"ready", "notified"}
        /\ group.summary # "none"
        /\ \A c \in Calls : at[c] \notin {"enqueue", "release"}
        /\ \E p \in Outcomes : sent = <<p>> /\ \A t \in group.tasks : p[t] # 0

IInv ==
    /\ Shapes
    /\ GroupExists
    /\ ReadyIsComplete
    /\ Holders
    /\ OneHolder
    /\ PromptIsComplete
    /\ SentOnce
-----------------------------------------------------------------------------
\* The calls are the seal of the group, the registration of each task and the
\* record of each job's outcome.
LEMMA CallNames ==
    /\ Seal \in Calls
    /\ \A t \in Tasks : Register(t) \in Calls
    /\ \A t \in Tasks, k \in Jobs : Record(t, k) \in Calls
BY DEF Calls, Seal, Register, Record

\* A call moves on without touching the document, and takes no claim.
LEMMA Moves ==
    ASSUME IInv, NEW c \in Calls, NEW p \in Places \ Holding,
           p \in Inside => group # NoGroup,
           at' = [at EXCEPT ![c] = p],
           UNCHANGED <<group, prompt, sent>>,
           spawned' \in [Tasks -> Nat],
           \A t \in Tasks : spawned'[t] # 0 => spawned[t] # 0 \/ group # NoGroup
    PROVE  IInv'
<1>1. Shapes'
  BY DEF IInv, Shapes
<1>2. \A d \in Calls : at'[d] = IF d = c THEN p ELSE at[d]
  BY DEF IInv, Shapes
<1>3. GroupExists'
  BY <1>2 DEF IInv, GroupExists
<1>4. ReadyIsComplete'
  BY DEF IInv, ReadyIsComplete, isComplete
<1>5. \A d \in Calls : at'[d] \in Holding => at[d] \in Holding /\ at'[d] = at[d]
  BY <1>2
<1>6. Holders' /\ OneHolder'
  BY <1>5 DEF IInv, Holders, OneHolder
<1>7. PromptIsComplete'
  BY <1>5 DEF IInv, PromptIsComplete, Holding
<1>8. SentOnce'
  BY <1>5 DEF IInv, SentOnce, Holding
<1> QED BY <1>1, <1>3, <1>4, <1>6, <1>7, <1>8 DEF IInv

\* A call rewrites the document without touching the claim, and moves on.
LEMMA Rewrites ==
    ASSUME IInv, NEW c \in Calls, NEW p \in Places \ Holding,
           at' = [at EXCEPT ![c] = p],
           UNCHANGED <<prompt, spawned, sent>>,
           group # NoGroup,
           group' \in Groups,
           group'.summary = group.summary,
           group.status \in {"ready", "notified"} =>
               group'.status = group.status /\ group'.tasks = group.tasks,
           group'.status \in {"ready", "notified"} => isComplete(group')
    PROVE  IInv'
<1> USE DelegationGroupsAssumption
<1>0. group' # NoGroup
  BY DEF IInv, Shapes
<1>1. Shapes'
  BY DEF IInv, Shapes
<1>2. \A d \in Calls : at'[d] = IF d = c THEN p ELSE at[d]
  BY DEF IInv, Shapes
<1>3. GroupExists'
  BY <1>0 DEF IInv, GroupExists
<1>4. ReadyIsComplete'
  BY DEF ReadyIsComplete, isComplete
<1>5. \A d \in Calls : at'[d] \in Holding => at[d] \in Holding /\ at'[d] = at[d]
  BY <1>2
<1>6. Holders' /\ OneHolder'
  BY <1>0, <1>5 DEF IInv, Holders, OneHolder
<1>7. PromptIsComplete'
  BY <1>5 DEF IInv, PromptIsComplete, Holders, Holding
<1>8. SentOnce'
  BY <1>0, <1>5 DEF IInv, SentOnce, Holding
<1> QED BY <1>1, <1>3, <1>4, <1>6, <1>7, <1>8 DEF IInv

\* The inductive invariant holds before any group exists.
LEMMA Initially == Init => IInv
<1> USE DelegationGroupsAssumption
<1> SUFFICES ASSUME Init PROVE IInv
  OBVIOUS
<1>1. Shapes
  BY DEF Init, Shapes, Places, Outcomes, Nothing, Jobs
<1>2. \A c \in Calls : at[c] = "idle"
  BY DEF Init
<1>3. GroupExists /\ ReadyIsComplete /\ Holders /\ OneHolder /\ PromptIsComplete
  BY <1>2 DEF Init, GroupExists, ReadyIsComplete, Holders, OneHolder, PromptIsComplete, Holding, Inside
<1>4. SentOnce
  BY DEF Init, SentOnce
<1> QED BY <1>1, <1>3, <1>4 DEF IInv

\* Only the creation, the life of the claim and a crash are left.
LEMMA Steps == IInv /\ [Next]_vars => IInv'
<1> USE DelegationGroupsAssumption
<1> SUFFICES ASSUME IInv, [Next]_vars PROVE IInv'
  OBVIOUS
<1>0. /\ group # NoGroup => group \in Groups
      /\ at \in [Calls -> Places] /\ prompt \in [Calls -> Outcomes]
      /\ spawned \in [Tasks -> Nat] /\ sent \in Seq(Outcomes)
  BY DEF IInv, Shapes
<1>1. ASSUME NEW t \in Tasks, RegisterBegin(t) PROVE IInv'
  <2>1. PICK p \in {"create", "append"} :
          /\ p = "append" => group # NoGroup
          /\ at' = [at EXCEPT ![Register(t)] = p]
    BY <1>1 DEF RegisterBegin, Goes
  <2> QED BY <1>0, <1>1, <2>1, Moves, CallNames DEF RegisterBegin, Places, Holding, Inside
<1>2. ASSUME NEW t \in Tasks, RegisterCreate(t) PROVE IInv'
  <2>1. CASE group # NoGroup
    <3>1. at' = [at EXCEPT ![Register(t)] = "append"] /\ UNCHANGED <<group, prompt, spawned, sent>>
      BY <1>2, <2>1 DEF RegisterCreate, Goes
    <3> QED BY <1>0, <2>1, <3>1, Moves, CallNames DEF Places, Holding
  <2>2. CASE group = NoGroup
    <3>1. /\ group' = NewGroup(t)
          /\ at' = [at EXCEPT ![Register(t)] = "spawn"]
          /\ UNCHANGED <<prompt, spawned, sent>>
      BY <1>2, <2>2 DEF RegisterCreate, Goes
    <3>2. group' \in Groups /\ group' # NoGroup /\ group'.status = "open"
      BY <3>1 DEF NewGroup, Groups, Nothing, Outcomes
    <3>3. \A d \in Calls : at[d] \notin Holding
      BY <2>2 DEF IInv, Holders
    <3>4. \A d \in Calls : at'[d] \notin Holding
      BY <1>0, <3>1, <3>3 DEF Holding
    <3>5. sent' = <<>>
      BY <2>2, <3>1 DEF IInv, SentOnce
    <3>6. Shapes'
      BY <1>0, <3>1, <3>2, CallNames DEF Shapes, Places
    <3> QED BY <3>2, <3>4, <3>5, <3>6
            DEF IInv, GroupExists, ReadyIsComplete, Holders, OneHolder, PromptIsComplete, SentOnce, Holding
  <2> QED BY <2>1, <2>2
<1>3. ASSUME NEW t \in Tasks, RegisterAppend(t) PROVE IInv'
  <2>0. group # NoGroup
    BY <1>3, CallNames DEF IInv, GroupExists, RegisterAppend, Inside
  <2>1. CASE group.status = "open"
    <3>1. /\ group' = [group EXCEPT !.tasks = @ \cup {t}]
          /\ at' = [at EXCEPT ![Register(t)] = "spawn"]
          /\ UNCHANGED <<prompt, spawned, sent>>
      BY <1>3, <2>1 DEF RegisterAppend, Mutate, Goes
    <3>2. group' \in Groups /\ group'.summary = group.summary /\ group'.status = "open"
      BY <1>0, <2>0, <2>1, <3>1 DEF Groups
    <3> QED BY <2>0, <2>1, <3>1, <3>2, Rewrites, CallNames DEF Places, Holding
  <2>2. CASE group.status # "open"
    <3>1. at' = [at EXCEPT ![Register(t)] = "idle"] /\ UNCHANGED <<group, prompt, spawned, sent>>
      BY <1>3, <2>2 DEF RegisterAppend, Mutate, Goes
    <3> QED BY <1>0, <2>0, <3>1, Moves, CallNames DEF Places, Holding, Inside
  <2> QED BY <2>1, <2>2
<1>4. ASSUME NEW t \in Tasks, Spawn(t) PROVE IInv'
  <2>0. group # NoGroup
    BY <1>4, CallNames DEF IInv, GroupExists, Spawn, Inside
  <2>1. spawned' \in [Tasks -> Nat]
    BY <1>0, <1>4 DEF Spawn
  <2> QED BY <1>4, <2>0, <2>1, Moves, CallNames DEF Spawn, Goes, Places, Holding, Inside
<1>5. ASSUME NEW t \in Tasks, SpawnError(t) PROVE IInv'
  BY <1>0, <1>5, Moves, CallNames DEF SpawnError, Goes, Places, Holding, Inside
<1>6. ASSUME NEW t \in Tasks, NEW k \in Jobs, RecordBegin(t, k) PROVE IInv'
  <2>1. group # NoGroup
    BY <1>0, <1>6 DEF RecordBegin, IInv, GroupExists, Jobs
  <2> QED BY <1>0, <1>6, <2>1, Moves, CallNames DEF RecordBegin, Goes, Places, Holding
<1>7. ASSUME NEW t \in Tasks, NEW k \in Jobs, RecordPush(t, k) PROVE IInv'
  <2>0. group # NoGroup
    BY <1>7, CallNames DEF IInv, GroupExists, RecordPush, Inside
  <2>1. /\ group' = [group EXCEPT !.outcome[t] = IF @ = 0 THEN k ELSE @]
        /\ at' = [at EXCEPT ![Record(t, k)] = "finalize"]
        /\ UNCHANGED <<prompt, spawned, sent>>
    BY <1>7 DEF RecordPush, Mutate, Goes
  <2>2. /\ group' \in Groups /\ group'.summary = group.summary
        /\ group'.status = group.status /\ group'.tasks = group.tasks
        /\ \A u \in Tasks : group.outcome[u] # 0 => group'.outcome[u] # 0
    BY <1>0, <2>0, <2>1 DEF Groups, Outcomes
  <2>3. isComplete(group) => isComplete(group')
    BY <1>0, <2>0, <2>2 DEF isComplete, Groups
  <2> QED BY <2>0, <2>1, <2>2, <2>3, Rewrites, CallNames DEF IInv, ReadyIsComplete, Places, Holding
<1>8. ASSUME SealBegin PROVE IInv'
  <2>1. PICK p \in {"seal", "finalize"} : at' = [at EXCEPT ![Seal] = p]
    BY <1>8 DEF SealBegin, Goes
  <2> QED BY <1>0, <1>8, <2>1, Moves, CallNames DEF SealBegin, Places, Holding
<1>9. ASSUME SealPut PROVE IInv'
  <2>0. group # NoGroup
    BY <1>9, CallNames DEF IInv, GroupExists, SealPut, Inside
  <2>1. /\ group' = [group EXCEPT !.status = IF @ = "open" THEN "sealed" ELSE @]
        /\ at' = [at EXCEPT ![Seal] = "finalize"]
        /\ UNCHANGED <<prompt, spawned, sent>>
    BY <1>9 DEF SealPut, Mutate, Goes
  <2>2. /\ group' \in Groups /\ group'.summary = group.summary
        /\ group'.tasks = group.tasks /\ group'.outcome = group.outcome
        /\ group'.status = IF group.status = "open" THEN "sealed" ELSE group.status
    BY <1>0, <2>0, <2>1 DEF Groups
  <2>3. isComplete(group') <=> isComplete(group)
    BY <2>2 DEF isComplete
  <2>4. group'.status \in {"ready", "notified"} => isComplete(group')
    BY <2>0, <2>2, <2>3 DEF IInv, ReadyIsComplete
  <2> QED BY <2>0, <2>1, <2>2, <2>4, Rewrites, CallNames DEF Places, Holding
<1>10. ASSUME NEW c \in Calls, FinalizeRead(c) PROVE IInv'
  <2>0. group # NoGroup
    BY <1>10 DEF IInv, GroupExists, FinalizeRead, Inside
  <2>1. PICK p \in {"ready", "claim", "idle"} : at' = [at EXCEPT ![c] = p]
    BY <1>10 DEF FinalizeRead, Goes, AfterReady
  <2> QED BY <1>0, <1>10, <2>0, <2>1, Moves DEF FinalizeRead, Places, Holding
<1>11. ASSUME NEW c \in Calls, FinalizeReady(c) PROVE IInv'
  <2>0. group # NoGroup
    BY <1>11 DEF IInv, GroupExists, FinalizeReady, Inside
  <2>1. /\ group' = MakeReady(group)
        /\ \E p \in {"claim", "idle"} : at' = [at EXCEPT ![c] = p]
        /\ UNCHANGED <<prompt, spawned, sent>>
    BY <1>11 DEF FinalizeReady, Goes, AfterReady
  <2>2. /\ group' \in Groups /\ group'.summary = group.summary
        /\ group'.tasks = group.tasks /\ group'.outcome = group.outcome
        /\ group'.status = IF group.status = "sealed" /\ isComplete(group) THEN "ready" ELSE group.status
    BY <1>0, <2>0, <2>1 DEF Groups, MakeReady
  <2>3. isComplete(group') <=> isComplete(group)
    BY <2>2 DEF isComplete
  <2> QED BY <2>0, <2>1, <2>2, <2>3, Rewrites DEF IInv, ReadyIsComplete, Places, Holding
<1>12. ASSUME NEW c \in Calls, Claim(c) PROVE IInv'
  <2>0. group # NoGroup /\ at[c] = "claim"
    BY <1>12 DEF IInv, GroupExists, Claim, Inside
  <2>1. CASE ~MayClaim(group)
    BY <1>0, <1>12, <2>0, <2>1, Moves DEF Claim, Goes, Places, Holding
  <2>2. CASE MayClaim(group)
    <3>1. /\ group' = [group EXCEPT !.summary = "claim"]
          /\ prompt' = [prompt EXCEPT ![c] = group.outcome]
          /\ at' = [at EXCEPT ![c] = "enqueue"]
          /\ UNCHANGED <<spawned, sent>>
      BY <1>12, <2>2 DEF Claim, Goes
    <3>2. /\ group' \in Groups /\ group'.summary = "claim" /\ group'.status = "ready"
          /\ group'.tasks = group.tasks /\ group'.outcome = group.outcome
      BY <1>0, <2>0, <2>2, <3>1 DEF Groups, MayClaim
    <3>3. \A d \in Calls : at[d] \notin Holding
      BY <2>2 DEF IInv, Holders, MayClaim
    <3>4. \A d \in Calls : at'[d] = IF d = c THEN "enqueue" ELSE at[d]
      BY <1>0, <3>1
    <3>5. isComplete(group)
      BY <2>0, <2>2 DEF IInv, ReadyIsComplete, MayClaim
    <3>6. sent' = <<>>
      BY <2>2, <3>1 DEF IInv, SentOnce, MayClaim
    <3>7. group' # NoGroup
      BY <3>2
    <3>8. Shapes'
      BY <1>0, <2>0, <3>1, <3>2 DEF Shapes, Places, Groups
    <3>9. PromptIsComplete'
      <4>1. \A d \in Calls : at'[d] = "enqueue" => d = c
        BY <3>3, <3>4 DEF Holding
      <4>2. prompt'[c] = group.outcome
        BY <1>0, <3>1
      <4> QED BY <3>2, <3>5, <4>1, <4>2 DEF PromptIsComplete, isComplete
    <3>10. Holders' /\ OneHolder' /\ ReadyIsComplete'
      BY <3>2, <3>3, <3>4, <3>5, <3>7 DEF Holders, OneHolder, ReadyIsComplete, isComplete, Holding
    <3> QED BY <3>4, <3>6, <3>7, <3>8, <3>9, <3>10 DEF IInv, GroupExists, SentOnce, Inside
  <2> QED BY <2>1, <2>2
<1>13. ASSUME NEW c \in Calls, EnqueueSummary(c) PROVE IInv'
  <2>0. at[c] = "enqueue" /\ group # NoGroup /\ group.status = "ready" /\ group.summary = "claim"
    BY <1>13 DEF IInv, Holders, EnqueueSummary, Holding
  <2>1. sent = <<>>
    BY <2>0 DEF IInv, SentOnce
  <2>2. sent' = <<prompt[c]>> /\ prompt[c] \in Outcomes
    BY <1>0, <1>13, <2>1 DEF EnqueueSummary
  <2>3. /\ at' = [at EXCEPT ![c] = "notify"]
        /\ UNCHANGED <<group, prompt, spawned>>
    BY <1>13 DEF EnqueueSummary, Goes
  <2>4. \A d \in Calls : at'[d] = IF d = c THEN "notify" ELSE at[d]
    BY <1>0, <2>3
  <2>5. \A d \in Calls : at[d] \in Holding => d = c
    BY <2>0 DEF IInv, OneHolder, Holding
  <2>6. Shapes'
    BY <1>0, <2>2, <2>3 DEF Shapes, Places
  <2>7. Holders' /\ OneHolder' /\ PromptIsComplete'
    BY <2>0, <2>3, <2>4, <2>5 DEF IInv, Holders, OneHolder, PromptIsComplete, Holding
  <2>8. SentOnce'
    <3>1. \A t \in group.tasks : prompt[c][t] # 0
      BY <2>0 DEF IInv, PromptIsComplete
    <3>2. \A d \in Calls : at'[d] \notin {"enqueue", "release"}
      BY <2>4, <2>5 DEF Holding
    <3> QED BY <2>0, <2>2, <2>3, <3>1, <3>2 DEF SentOnce
  <2>9. GroupExists' /\ ReadyIsComplete'
    BY <2>0, <2>3, <2>4 DEF IInv, GroupExists, ReadyIsComplete, isComplete, Inside
  <2> QED BY <2>6, <2>7, <2>8, <2>9 DEF IInv
<1>14. ASSUME NEW c \in Calls, EnqueueError(c) PROVE IInv'
  <2>0. at[c] = "enqueue" /\ group # NoGroup
    BY <1>14 DEF IInv, Holders, EnqueueError, Holding
  <2>1. sent = <<>>
    BY <2>0 DEF IInv, SentOnce
  <2>2. /\ at' = [at EXCEPT ![c] = "release"]
        /\ UNCHANGED <<group, prompt, spawned, sent>>
    BY <1>14 DEF EnqueueError, Goes
  <2>3. \A d \in Calls : at'[d] = IF d = c THEN "release" ELSE at[d]
    BY <1>0, <2>2
  <2>4. Shapes'
    BY <1>0, <2>2 DEF Shapes, Places
  <2>5. Holders' /\ OneHolder' /\ PromptIsComplete'
    BY <2>0, <2>2, <2>3 DEF IInv, Holders, OneHolder, PromptIsComplete, Holding
  <2>6. GroupExists' /\ ReadyIsComplete' /\ SentOnce'
    BY <2>0, <2>1, <2>2, <2>3 DEF IInv, GroupExists, ReadyIsComplete, isComplete, SentOnce
  <2> QED BY <2>4, <2>5, <2>6 DEF IInv
<1>15. ASSUME NEW c \in Calls, ReleaseClaim(c) PROVE IInv'
  <2>0. at[c] = "release" /\ group # NoGroup /\ group.status = "ready" /\ group.summary = "claim"
    BY <1>15 DEF IInv, Holders, ReleaseClaim, Holding
  <2>1. sent = <<>>
    BY <2>0 DEF IInv, SentOnce
  <2>2. /\ group' = [group EXCEPT !.summary = "none"]
        /\ at' = [at EXCEPT ![c] = "idle"]
        /\ UNCHANGED <<prompt, spawned, sent>>
    BY <1>15, <2>0 DEF ReleaseClaim, Mutate, Goes
  <2>3. \A d \in Calls : at'[d] \notin Holding
    <3>1. \A d \in Calls : at'[d] = IF d = c THEN "idle" ELSE at[d]
      BY <1>0, <2>2
    <3> QED BY <2>0, <3>1 DEF IInv, OneHolder, Holding
  <2>4. /\ group' \in Groups /\ group'.status = group.status
        /\ group'.tasks = group.tasks /\ group'.outcome = group.outcome
    BY <1>0, <2>0, <2>2 DEF Groups
  <2>5. group' # NoGroup
    BY <2>4
  <2>6. Shapes'
    BY <1>0, <2>2, <2>4 DEF Shapes, Places
  <2>7. ReadyIsComplete'
    BY <2>0, <2>4 DEF IInv, ReadyIsComplete, isComplete
  <2> QED BY <2>1, <2>2, <2>3, <2>5, <2>6, <2>7
          DEF IInv, GroupExists, Holders, OneHolder, PromptIsComplete, SentOnce, Holding
<1>16. ASSUME NEW c \in Calls, Notify(c) PROVE IInv'
  <2>0. at[c] = "notify" /\ group # NoGroup /\ group.status = "ready" /\ group.summary = "claim"
    BY <1>16 DEF IInv, Holders, Notify, Holding
  <2>1. /\ group' = [group EXCEPT !.status = "notified", !.summary = "job"]
        /\ at' = [at EXCEPT ![c] = "idle"]
        /\ UNCHANGED <<prompt, spawned, sent>>
    BY <1>16, <2>0 DEF Notify, Mutate, Goes
  <2>2. \A d \in Calls : at'[d] \notin Holding
    <3>1. \A d \in Calls : at'[d] = IF d = c THEN "idle" ELSE at[d]
      BY <1>0, <2>1
    <3> QED BY <2>0, <3>1 DEF IInv, OneHolder, Holding
  <2>3. /\ group' \in Groups /\ group'.status = "notified" /\ group'.summary = "job"
        /\ group'.tasks = group.tasks /\ group'.outcome = group.outcome
    BY <1>0, <2>0, <2>1 DEF Groups
  <2>4. group' # NoGroup
    BY <2>3
  <2>5. Shapes'
    BY <1>0, <2>1, <2>3 DEF Shapes, Places
  <2>6. ReadyIsComplete'
    BY <2>0, <2>3 DEF IInv, ReadyIsComplete, isComplete
  <2>7. SentOnce'
    BY <2>1, <2>2, <2>3, <2>4 DEF IInv, SentOnce, Holding
  <2> QED BY <2>1, <2>2, <2>4, <2>5, <2>6, <2>7
          DEF IInv, GroupExists, Holders, OneHolder, PromptIsComplete, Holding
<1>17. ASSUME NEW c \in Calls, GiveUp(c) PROVE IInv'
  BY <1>0, <1>17, Moves DEF GiveUp, Goes, Places, Holding, Inside
<1>18. ASSUME UNCHANGED <<group, at, prompt, spawned, sent>> PROVE IInv'
  BY <1>18 DEF IInv, Shapes, GroupExists, ReadyIsComplete, isComplete, Holders, OneHolder,
               PromptIsComplete, SentOnce
<1>19. ASSUME Crash PROVE IInv'
  <2>1. UNCHANGED <<group, prompt, spawned, sent>> /\ at' = [c \in Calls |-> "idle"]
    BY <1>19 DEF Crash
  <2>2. Shapes'
    BY <1>0, <2>1 DEF Shapes, Places
  <2>3. \A c \in Calls : at'[c] = "idle"
    BY <2>1
  <2> QED BY <2>1, <2>2, <2>3
          DEF IInv, GroupExists, ReadyIsComplete, isComplete, Holders, OneHolder,
              PromptIsComplete, SentOnce, Holding, Inside
<1>20. ASSUME NEW t \in Tasks, NEW k \in Jobs, CancelledJob(t, k) PROVE IInv'
  BY <1>18, <1>20 DEF CancelledJob
<1>21. CASE SetEnqueuer \/ UNCHANGED vars
  BY <1>18, <1>21 DEF SetEnqueuer, vars
<1> QED
  BY <1>1, <1>2, <1>3, <1>4, <1>5, <1>6, <1>7, <1>8, <1>9, <1>10, <1>11, <1>12, <1>13,
     <1>14, <1>15, <1>16, <1>17, <1>19, <1>20, <1>21
  DEF Next, Finalize

\* So it holds of every execution.
LEMMA Invariant == Spec => []IInv
BY Initially, Steps, PTL DEF Spec
-----------------------------------------------------------------------------
\* However many terminal hooks and seals race, and whatever crashes, throws or
\* gives up in between, finalizeIfReady enqueues at most one summary.
THEOREM OneSummary == Spec => []AtMostOneSummary
<1>1. ASSUME IInv PROVE AtMostOneSummary
  <2>1. CASE sent = <<>>
    BY <2>1 DEF AtMostOneSummary
  <2>2. CASE sent # <<>>
    <3>1. PICK p \in Outcomes : sent = <<p>>
      BY <1>1, <2>2 DEF IInv, SentOnce
    <3> QED BY <3>1 DEF AtMostOneSummary
  <2> QED BY <2>1, <2>2
<1> QED BY <1>1, Invariant, PTL

\* The summary that leaves carries the outcome of every task of the group.
THEOREM CompleteSummary == Spec => []SummaryIsComplete
<1>1. IInv => SummaryIsComplete
  BY DEF IInv, Shapes, SentOnce, SummaryIsComplete
<1> QED BY <1>1, Invariant, PTL
-----------------------------------------------------------------------------
(* what a step does to the document *)

\* The statuses of a group in the order the code gives them.
LEMMA Ranks ==
    /\ Rank("open") = 0 /\ Rank("sealed") = 1 /\ Rank("ready") = 2 /\ Rank("notified") = 3
    /\ \A g \in Groups : Rank(g.status) \in 0..3
<1>1. Rank("open") = 0 /\ Rank("sealed") = 1 /\ Rank("ready") = 2 /\ Rank("notified") = 3
  BY DEF Rank
<1> QED BY <1>1 DEF Groups

\* The document after a step that finds one.
Forward(g, h) ==
    /\ h # NoGroup
    /\ Rank(g.status) <= Rank(h.status)
    /\ g.tasks \subseteq h.tasks
    /\ g.status # "open" => h.tasks = g.tasks
    /\ \A t \in Tasks : g.outcome[t] # 0 => h.outcome[t] = g.outcome[t]

\* No write of a group takes its status, its tasks, its outcomes or its summary
\* back.
LEMMA MovesForward ==
    ASSUME IInv, Next, group # NoGroup
    PROVE  Forward(group, group')
<1> USE DelegationGroupsAssumption
<1>0. group \in Groups /\ group.outcome \in [Tasks -> 0..MaxJobs]
  BY DEF IInv, Shapes, Groups, Outcomes, Jobs
<1>1. CASE UNCHANGED group
  BY <1>0, <1>1, Ranks DEF Forward
<1>2. ASSUME NEW h \in Groups, group' = h, h.tasks = group.tasks, h.outcome = group.outcome,
             Rank(group.status) <= Rank(h.status)
      PROVE  Forward(group, group')
  BY <1>0, <1>2 DEF Forward
<1>3. ASSUME NEW t \in Tasks, RegisterAppend(t)
      PROVE  Forward(group, group')
  <2>1. CASE group.status = "open"
    <3>1. group' = [group EXCEPT !.tasks = @ \cup {t}]
      BY <1>3, <2>1 DEF RegisterAppend, Mutate
    <3>2. /\ group' \in Groups /\ group'.tasks = group.tasks \cup {t}
          /\ group'.outcome = group.outcome /\ group'.status = "open"
      BY <1>0, <2>1, <3>1 DEF Groups
    <3> QED BY <2>1, <3>2, Ranks DEF Forward
  <2> QED BY <1>1, <1>3, <2>1 DEF RegisterAppend, Mutate
<1>4. ASSUME NEW t \in Tasks, NEW k \in Jobs, RecordPush(t, k)
      PROVE  Forward(group, group')
  <2>1. group' = [group EXCEPT !.outcome[t] = IF @ = 0 THEN k ELSE @]
    BY <1>4 DEF RecordPush, Mutate
  <2>2. /\ group'.status = group.status /\ group'.tasks = group.tasks /\ group' \in Groups
        /\ \A u \in Tasks : group.outcome[u] # 0 => group'.outcome[u] = group.outcome[u]
    BY <1>0, <2>1 DEF Groups, Outcomes
  <2> QED BY <1>0, <2>2, Ranks DEF Forward
<1>5. ASSUME SealPut
      PROVE  Forward(group, group')
  <2>1. group' = [group EXCEPT !.status = IF @ = "open" THEN "sealed" ELSE @]
    BY <1>5 DEF SealPut, Mutate
  <2>2. /\ group' \in Groups /\ group'.tasks = group.tasks /\ group'.outcome = group.outcome
        /\ group'.status = IF group.status = "open" THEN "sealed" ELSE group.status
    BY <1>0, <2>1 DEF Groups
  <2> QED BY <1>0, <1>2, <2>2, Ranks
<1>6. ASSUME NEW c \in Calls, FinalizeReady(c)
      PROVE  Forward(group, group')
  <2>1. /\ group' \in Groups /\ group'.tasks = group.tasks /\ group'.outcome = group.outcome
        /\ group'.status = IF group.status = "sealed" /\ isComplete(group) THEN "ready" ELSE group.status
    BY <1>0, <1>6 DEF FinalizeReady, MakeReady, Groups
  <2> QED BY <1>0, <1>2, <2>1, Ranks
<1>7. ASSUME NEW c \in Calls, NEW s \in {"none", "claim"}, group' = [group EXCEPT !.summary = s]
      PROVE  Forward(group, group')
  <2>1. /\ group' \in Groups /\ group'.tasks = group.tasks /\ group'.outcome = group.outcome
        /\ group'.status = group.status
    BY <1>0, <1>7 DEF Groups
  <2> QED BY <1>0, <1>2, <2>1, Ranks
<1>8. ASSUME NEW c \in Calls, ReleaseClaim(c)
      PROVE  Forward(group, group')
  <2>1. group' = [group EXCEPT !.summary = "none"]
    BY <1>8 DEF ReleaseClaim, Mutate, IInv, Holders, Holding
  <2> QED BY <1>7, <1>8, <2>1
<1>9. ASSUME NEW c \in Calls, Notify(c)
      PROVE  Forward(group, group')
  <2>1. group' = [group EXCEPT !.status = "notified", !.summary = "job"]
    BY <1>9 DEF Notify, Mutate, IInv, Holders, Holding
  <2>2. /\ group' \in Groups /\ group'.tasks = group.tasks /\ group'.outcome = group.outcome
        /\ group'.status = "notified"
    BY <1>0, <2>1 DEF Groups
  <2> QED BY <1>0, <1>2, <2>2, Ranks
<1>10. ASSUME NEW c \in Calls, Claim(c)
       PROVE  Forward(group, group')
  BY <1>1, <1>7, <1>10 DEF Claim
<1>11. ASSUME NEW t \in Tasks, RegisterCreate(t)
       PROVE  Forward(group, group')
  BY <1>1, <1>11 DEF RegisterCreate
<1>12. ASSUME NEW t \in Tasks, \/ RegisterBegin(t) \/ Spawn(t) \/ SpawnError(t)
                               \/ \E k \in Jobs : RecordBegin(t, k) \/ CancelledJob(t, k)
       PROVE  Forward(group, group')
  BY <1>1, <1>12 DEF RegisterBegin, Spawn, SpawnError, RecordBegin, CancelledJob
<1>13. ASSUME NEW c \in Calls, FinalizeRead(c) \/ EnqueueSummary(c) \/ EnqueueError(c) \/ GiveUp(c)
       PROVE  Forward(group, group')
  BY <1>1, <1>13 DEF FinalizeRead, EnqueueSummary, EnqueueError, GiveUp
<1>14. CASE SealBegin \/ SetEnqueuer \/ Crash
  BY <1>1, <1>14 DEF SealBegin, SetEnqueuer, Crash
<1> QED
  BY <1>3, <1>4, <1>5, <1>6, <1>8, <1>9, <1>10, <1>11, <1>12, <1>13, <1>14 DEF Next, Finalize

\* Tasks join while the group is open and never leave, outcomes stay and the
\* status never goes back, whatever races, crashes or gives up.
THEOREM GroupMovesForward == Spec => OnlyForward
<1>1. IInv /\ [Next]_vars =>
        [group # NoGroup =>
          /\ group' # NoGroup
          /\ Rank(group.status) <= Rank(group'.status)
          /\ group.tasks \subseteq group'.tasks
          /\ group.status # "open" => group'.tasks = group.tasks
          /\ \A t \in Tasks : group.outcome[t] # 0 => group'.outcome[t] = group.outcome[t]]_vars
  BY MovesForward DEF Forward
<1> QED BY <1>1, Invariant, PTL DEF Spec, OnlyForward
-----------------------------------------------------------------------------
(* types, and who holds the claim *)

\* A task that registers has a job left to spawn.
SpawnRoom ==
    \A t \in Tasks : at[Register(t)] \in {"create", "append", "spawn"} => spawned[t] < MaxJobs

Typed ==
    /\ spawned \in [Tasks -> 0..MaxJobs]
    /\ ended \in [Tasks -> SUBSET Jobs]
    /\ enqueuer \in BOOLEAN
    /\ trouble \subseteq AllTroubles \cup {"noEnqueuer"}
    /\ SpawnRoom

\* Every step keeps the types of all variables.
LEMMA TypedStep == IInv /\ Typed /\ [Next]_vars => Typed'
<1> USE DelegationGroupsAssumption
<1> SUFFICES ASSUME IInv, Typed, [Next]_vars PROVE Typed'
  OBVIOUS
<1>0. /\ at \in [Calls -> Places]
      /\ spawned \in [Tasks -> 0..MaxJobs] /\ ended \in [Tasks -> SUBSET Jobs]
      /\ enqueuer \in BOOLEAN /\ trouble \subseteq AllTroubles \cup {"noEnqueuer"} /\ SpawnRoom
  BY DEF IInv, Shapes, Typed
\* steps that register nothing
<1>1. ASSUME NEW c \in Calls, NEW p \in Places \ {"create", "append", "spawn"},
             at' = [at EXCEPT ![c] = p], UNCHANGED spawned,
             ended' \in [Tasks -> SUBSET Jobs], enqueuer' \in BOOLEAN,
             trouble' \subseteq AllTroubles \cup {"noEnqueuer"}
      PROVE  Typed'
  <2>1. \A t \in Tasks : at'[Register(t)] \in {"create", "append", "spawn"} => at'[Register(t)] = at[Register(t)]
    BY <1>0, <1>1, CallNames
  <2> QED BY <1>0, <1>1, <2>1 DEF Typed, SpawnRoom
<1>2. ASSUME NEW t \in Tasks, NEW p \in Places, at' = [at EXCEPT ![Register(t)] = p],
             spawned[t] < MaxJobs, UNCHANGED <<spawned, ended, enqueuer, trouble>>
      PROVE  Typed'
  <2>1. \A u \in Tasks : u # t => at'[Register(u)] = at[Register(u)]
    BY <1>0, <1>2, CallNames DEF Register
  <2> QED BY <1>0, <1>2, <2>1 DEF Typed, SpawnRoom
<1>3. ASSUME NEW t \in Tasks, RegisterBegin(t)
      PROVE  Typed'
  <2>1. \E p \in {"create", "append"} : at' = [at EXCEPT ![Register(t)] = p]
    BY <1>3 DEF RegisterBegin, Goes
  <2> QED BY <1>2, <1>3, <2>1 DEF RegisterBegin, Places
<1>4. ASSUME NEW t \in Tasks, RegisterCreate(t)
      PROVE  Typed'
  <2>1. \E p \in {"spawn", "append"} : at' = [at EXCEPT ![Register(t)] = p]
    BY <1>4 DEF RegisterCreate, Goes
  <2> QED BY <1>0, <1>2, <1>4, <2>1 DEF RegisterCreate, Places, SpawnRoom
<1>5. ASSUME NEW t \in Tasks, RegisterAppend(t)
      PROVE  Typed'
  <2>1. \E p \in {"spawn", "idle"} : at' = [at EXCEPT ![Register(t)] = p]
    BY <1>5 DEF RegisterAppend, Mutate, Goes
  <2> QED BY <1>0, <1>2, <1>5, <2>1 DEF RegisterAppend, Mutate, Places, SpawnRoom
<1>6. ASSUME NEW t \in Tasks, Spawn(t)
      PROVE  Typed'
  <2>1. spawned[t] < MaxJobs /\ spawned[t] \in 0..MaxJobs
    BY <1>0, <1>6 DEF Spawn, SpawnRoom
  <2>2. spawned' \in [Tasks -> 0..MaxJobs] /\ \A u \in Tasks : u # t => spawned'[u] = spawned[u]
    BY <1>0, <1>6, <2>1 DEF Spawn
  <2>3. at'[Register(t)] = "idle" /\ \A u \in Tasks : u # t => at'[Register(u)] = at[Register(u)]
    BY <1>0, <1>6, CallNames DEF Spawn, Goes, Register
  <2> QED BY <1>0, <1>6, <2>2, <2>3 DEF Spawn, Typed, SpawnRoom
<1>7. ASSUME NEW t \in Tasks, SpawnError(t)
      PROVE  Typed'
  BY <1>0, <1>1, <1>7, CallNames DEF SpawnError, Goes, Places, AllTroubles
<1>8. ASSUME NEW t \in Tasks, NEW k \in Jobs, RecordBegin(t, k)
      PROVE  Typed'
  BY <1>0, <1>1, <1>8, CallNames DEF RecordBegin, Goes, Places
<1>9. ASSUME NEW t \in Tasks, NEW k \in Jobs, CancelledJob(t, k)
      PROVE  Typed'
  BY <1>0, <1>9 DEF CancelledJob, Typed, SpawnRoom, AllTroubles
<1>10. ASSUME NEW t \in Tasks, NEW k \in Jobs, RecordPush(t, k)
       PROVE  Typed'
  BY <1>0, <1>1, <1>10, CallNames DEF RecordPush, Mutate, Goes, Places
<1>11. CASE SealBegin \/ SealPut
  <2>1. \E p \in {"seal", "finalize"} : at' = [at EXCEPT ![Seal] = p]
    BY <1>11 DEF SealBegin, SealPut, Mutate, Goes
  <2> QED BY <1>0, <1>1, <1>11, <2>1, CallNames, ZenonT(30) DEF SealBegin, SealPut, Mutate, Places
<1>12. ASSUME NEW c \in Calls, Finalize(c) \/ GiveUp(c)
       PROVE  Typed'
  <2>1. \E p \in {"idle", "ready", "claim", "enqueue", "notify", "release"} : at' = [at EXCEPT ![c] = p]
    BY <1>12 DEF Finalize, FinalizeRead, FinalizeReady, Claim, EnqueueSummary, EnqueueError, ReleaseClaim, Notify,
       GiveUp, Mutate, Goes, AfterReady
  <2>2. UNCHANGED <<spawned, ended, enqueuer>> /\ trouble' \subseteq AllTroubles \cup {"noEnqueuer"}
    BY <1>0, <1>12 DEF Finalize, FinalizeRead, FinalizeReady, Claim, EnqueueSummary, EnqueueError, ReleaseClaim, Notify,
       GiveUp, Mutate, NotesMissingEnqueuer, AllTroubles
  <2> QED BY <1>0, <1>1, <2>1, <2>2 DEF Places
<1>13. CASE SetEnqueuer
  BY <1>0, <1>13 DEF SetEnqueuer, Typed, SpawnRoom
<1>14. CASE Crash
  BY <1>0, <1>14, CallNames DEF Crash, Typed, SpawnRoom, AllTroubles
<1>15. CASE UNCHANGED vars
  BY <1>0, <1>15 DEF vars, Typed, SpawnRoom
<1> QED BY <1>3, <1>4, <1>5, <1>6, <1>7, <1>8, <1>9, <1>10, <1>11, <1>12, <1>13, <1>14, <1>15 DEF Next

\* The claim stays with whoever holds it, unless that call dies or gives up.
LEMMA ClaimStep == IInv /\ ClaimIsHeld /\ [Next]_vars => ClaimIsHeld'
<1> USE DelegationGroupsAssumption
<1> SUFFICES ASSUME IInv, ClaimIsHeld, [Next]_vars PROVE ClaimIsHeld'
  OBVIOUS
<1>0. /\ group # NoGroup => group \in Groups
      /\ at \in [Calls -> Places]
  BY DEF IInv, Shapes
<1> DEFINE Claimed == group # NoGroup /\ group.summary = "claim"
           Untroubled == trouble \cap {"crash", "giveUp"} = {}
<1>1. ASSUME NEW c \in Calls, NEW p \in Places, at' = [at EXCEPT ![c] = p],
             at[c] \in Holding => p \in Holding,
             trouble \subseteq trouble', Claimed' => Claimed
      PROVE  ClaimIsHeld'
  <2> SUFFICES ASSUME Untroubled', Claimed' PROVE \E d \in Calls : at'[d] \in Holding
    BY DEF ClaimIsHeld, Holding
  <2>1. PICK d \in Calls : at[d] \in Holding
    BY <1>1 DEF ClaimIsHeld, Holding
  <2>2. at'[d] \in Holding
    BY <1>0, <1>1, <2>1
  <2> QED BY <2>2
<1>2. ASSUME NEW c \in Calls, at'[c] \in Holding
      PROVE  ClaimIsHeld'
  BY <1>2 DEF ClaimIsHeld, Holding
<1>3. ASSUME ~Claimed'
      PROVE  ClaimIsHeld'
  BY <1>3 DEF ClaimIsHeld
<1>4. ASSUME NEW t \in Tasks, RegisterCreate(t)
      PROVE  ClaimIsHeld'
  <2>1. CASE group = NoGroup
    BY <1>3, <1>4, <2>1 DEF RegisterCreate, NewGroup
  <2>2. CASE group # NoGroup
    BY <1>1, <1>4, <2>2, CallNames DEF RegisterCreate, Goes, Places, Holding
  <2> QED BY <2>1, <2>2
<1>5. ASSUME NEW t \in Tasks, RegisterBegin(t) \/ RegisterAppend(t) \/ Spawn(t) \/ SpawnError(t)
      PROVE  ClaimIsHeld'
  <2>1. \E p \in {"create", "append", "idle", "spawn"} : at' = [at EXCEPT ![Register(t)] = p]
    BY <1>5 DEF RegisterBegin, RegisterAppend, Spawn, SpawnError, Mutate, Goes
  <2>2. at[Register(t)] \notin Holding /\ trouble \subseteq trouble'
    BY <1>5 DEF RegisterBegin, RegisterAppend, Spawn, SpawnError, Mutate, Holding
  <2>3. Claimed' => Claimed
    <3>1. CASE UNCHANGED group
      BY <3>1
    <3>2. CASE RegisterAppend(t) /\ group.status = "open"
      <4>1. group # NoGroup /\ group' = [group EXCEPT !.tasks = @ \cup {t}]
        BY <3>2, CallNames DEF RegisterAppend, Mutate, IInv, GroupExists, Inside
      <4> QED BY <1>0, <4>1 DEF Groups
    <3> QED BY <1>5, <3>1, <3>2 DEF RegisterBegin, RegisterAppend, Spawn, SpawnError, Mutate
  <2> QED BY <1>1, <2>1, <2>2, <2>3, CallNames DEF Places
<1>6. ASSUME NEW t \in Tasks, NEW k \in Jobs, RecordBegin(t, k)
      PROVE  ClaimIsHeld'
  BY <1>1, <1>6, CallNames DEF RecordBegin, Goes, Places, Holding
<1>7. ASSUME NEW t \in Tasks, NEW k \in Jobs, RecordPush(t, k)
      PROVE  ClaimIsHeld'
  <2>1. group # NoGroup /\ group' = [group EXCEPT !.outcome[t] = IF @ = 0 THEN k ELSE @]
    BY <1>7, CallNames DEF RecordPush, Mutate, IInv, GroupExists, Inside
  <2>2. Claimed' => Claimed
    BY <1>0, <2>1 DEF Groups
  <2> QED BY <1>1, <1>7, <2>2, CallNames DEF RecordPush, Mutate, Goes, Places, Holding
<1>8. CASE SealBegin \/ SealPut
  <2>1. \E p \in {"seal", "finalize"} : at' = [at EXCEPT ![Seal] = p]
    BY <1>8 DEF SealBegin, SealPut, Mutate, Goes
  <2>2. at[Seal] \notin Holding /\ trouble \subseteq trouble'
    BY <1>8 DEF SealBegin, SealPut, Mutate, Holding
  <2>3. Claimed' => Claimed
    <3>1. CASE SealPut
      <4>1. group # NoGroup /\ group' = [group EXCEPT !.status = IF @ = "open" THEN "sealed" ELSE @]
        BY <3>1, CallNames DEF SealPut, Mutate, IInv, GroupExists, Inside
      <4> QED BY <1>0, <4>1 DEF Groups
    <3> QED BY <1>8, <3>1 DEF SealBegin
  <2> QED BY <1>1, <2>1, <2>2, <2>3, CallNames DEF Places
<1>9. ASSUME NEW c \in Calls, FinalizeRead(c) \/ FinalizeReady(c)
      PROVE  ClaimIsHeld'
  <2>1. \E p \in {"idle", "ready", "claim"} : at' = [at EXCEPT ![c] = p]
    BY <1>9 DEF FinalizeRead, FinalizeReady, Goes, AfterReady
  <2>2. at[c] \notin Holding /\ trouble \subseteq trouble'
    BY <1>9 DEF FinalizeRead, FinalizeReady, NotesMissingEnqueuer, Holding
  <2>3. Claimed' => Claimed
    <3>1. CASE FinalizeReady(c)
      <4>1. group # NoGroup /\ group' = MakeReady(group)
        BY <3>1 DEF FinalizeReady, IInv, GroupExists, Inside
      <4> QED BY <1>0, <4>1 DEF Groups, MakeReady
    <3> QED BY <1>9, <3>1 DEF FinalizeRead
  <2> QED BY <1>1, <2>1, <2>2, <2>3 DEF Places
<1>10. ASSUME NEW c \in Calls, Claim(c)
       PROVE  ClaimIsHeld'
  <2>1. CASE MayClaim(group)
    BY <1>0, <1>2, <1>10, <2>1 DEF Claim, Goes, Holding
  <2>2. CASE ~MayClaim(group)
    BY <1>1, <1>10, <2>2 DEF Claim, Goes, Places, Holding
  <2> QED BY <2>1, <2>2
<1>11. ASSUME NEW c \in Calls, EnqueueSummary(c) \/ EnqueueError(c)
       PROVE  ClaimIsHeld'
  BY <1>0, <1>2, <1>11 DEF EnqueueSummary, EnqueueError, Goes, Holding
<1>12. ASSUME NEW c \in Calls, ReleaseClaim(c)
       PROVE  ClaimIsHeld'
  <2>1. group # NoGroup /\ group' = [group EXCEPT !.summary = "none"]
    BY <1>12 DEF ReleaseClaim, Mutate, IInv, Holders, Holding
  <2> QED BY <1>0, <1>3, <2>1 DEF Groups
<1>13. ASSUME NEW c \in Calls, Notify(c)
       PROVE  ClaimIsHeld'
  <2>1. group # NoGroup /\ group' = [group EXCEPT !.status = "notified", !.summary = "job"]
    BY <1>13 DEF Notify, Mutate, IInv, Holders, Holding
  <2> QED BY <1>0, <1>3, <2>1 DEF Groups
<1>14. ASSUME "crash" \in trouble' \/ "giveUp" \in trouble'
       PROVE  ClaimIsHeld'
  BY <1>14 DEF ClaimIsHeld
<1>15. ASSUME UNCHANGED <<group, at>>, trouble \subseteq trouble'
       PROVE  ClaimIsHeld'
  BY <1>15 DEF ClaimIsHeld
<1>16. ASSUME NEW c \in Calls, GiveUp(c) \/ Crash
       PROVE  ClaimIsHeld'
  BY <1>14, <1>16 DEF GiveUp, Crash
<1>17. ASSUME NEW t \in Tasks, NEW k \in Jobs, CancelledJob(t, k)
       PROVE  ClaimIsHeld'
  BY <1>15, <1>17 DEF CancelledJob
<1>18. CASE SetEnqueuer \/ UNCHANGED vars
  BY <1>15, <1>18 DEF SetEnqueuer, vars
<1> QED BY <1>4, <1>5, <1>6, <1>7, <1>8, <1>9, <1>10, <1>11, <1>12, <1>13, <1>16, <1>17, <1>18, CallNames DEF Next, Finalize

\* The document is well formed, and an error of the enqueuer never leaves it
\* claimed by nobody, as long as the process lives and mutate does not throw.
THEOREM GroupIsSound == Spec => []GroupSound
<1>1. Init => Typed /\ ClaimIsHeld
  <2>1. Init => ClaimIsHeld
    BY DEF Init, ClaimIsHeld
  <2>2. Init => SpawnRoom
    BY DelegationGroupsAssumption, CallNames DEF Init, SpawnRoom, Nothing
  <2>3. Init => spawned \in [Tasks -> 0..MaxJobs] /\ ended \in [Tasks -> SUBSET Jobs]
    BY DelegationGroupsAssumption DEF Init, Nothing, Jobs
  <2> QED BY <2>1, <2>2, <2>3 DEF Init, Typed
<1>2. IInv /\ Typed /\ ClaimIsHeld => GroupSound
  BY DEF IInv, Shapes, Typed, GroupSound, TypeOK
<1> QED BY <1>1, <1>2, TypedStep, ClaimStep, Invariant, PTL DEF Spec
=============================================================================
