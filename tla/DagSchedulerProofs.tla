------------------------- MODULE DagSchedulerProofs -------------------------
(***************************************************************************)
(* What one execution of a graph guarantees, for any acyclic graph, any    *)
(* retry counts and any number of slots.                                   *)
(*                                                                         *)
(* The argument: statuses, queue, unsettled attempts and errors always fit *)
(* together (Sound), which is a statement about the graph alone: each kind *)
(* of step (launch, answer, retry, final failure) preserves it by a lemma  *)
(* of its own, whichever callback takes the step.  That nothing is         *)
(* abandoned then follows from the absence of cycles: of the nodes that    *)
(* still wait, one waits for none of the others.                           *)
(***************************************************************************)
EXTENDS DagScheduler, FiniteSetTheorems, TLAPS

\* The state of the graph: statuses st, queue q, unsettled attempts lv,
\* retries rc and errors er.
Shaped(st, q, lv, rc, er) ==
    /\ st \in [Nodes -> Statuses]
    /\ q \in [Nodes -> Nat]
    /\ lv \subseteq Attempts
    /\ rc \in [Nodes -> Nat]
    /\ er \in [Nodes -> {"none", "own", "dependency"}]

DepsDone(st) ==
    \A n \in Nodes : st[n] \in {"READY", "RUNNING", "COMPLETED"} =>
        Deps[n] \subseteq Completed(st)

\* A node that waits has something to wait for.
PendingWaits(st) ==
    \A n \in Nodes : st[n] = "PENDING" => \E d \in Deps[n] : st[d] # "COMPLETED"

QueueMatches(st, q) == \A n \in Nodes : q[n] = IF st[n] = "READY" THEN 1 ELSE 0

LiveMatches(st, lv, rc) ==
    /\ \A n \in Nodes : st[n] = "RUNNING" => <<n, rc[n]>> \in lv
    /\ \A p \in lv : st[p[1]] = "RUNNING" /\ p[2] = rc[p[1]]

ErrorsMatch(st, rc, er) ==
    \A n \in Nodes :
        /\ er[n] = "own" => rc[n] = MaxRetries[n]
        /\ (er[n] = "dependency") <=> \E d \in Deps[n] : st[d] = "FAILED"
        /\ (st[n] = "FAILED") <=> (er[n] # "none")

\* A node that failed by itself had been allowed to run.
OwnFault(st, er) == \A n \in Nodes : er[n] = "own" => Deps[n] \subseteq Completed(st)

\* A retry counter stops at its bound.
RetriesBounded(rc) == \A n \in Nodes : rc[n] <= MaxRetries[n]

Sound(st, q, lv, rc, er) ==
    /\ Shaped(st, q, lv, rc, er)
    /\ DepsDone(st)
    /\ PendingWaits(st)
    /\ QueueMatches(st, q)
    /\ LiveMatches(st, lv, rc)
    /\ ErrorsMatch(st, rc, er)
    /\ OwnFault(st, er)
    /\ RetriesBounded(rc)
-----------------------------------------------------------------------------
(* The graph alone *)

\* drain() launches queued nodes.
LEMMA LaunchSound ==
    ASSUME NEW st, NEW q, NEW lv, NEW rc, NEW er, Sound(st, q, lv, rc, er),
           NEW S \in SUBSET Waiting(q)
    PROVE  Sound([n \in Nodes |-> IF n \in S THEN "RUNNING" ELSE st[n]],
                 [n \in Nodes |-> IF n \in S THEN q[n] - 1 ELSE q[n]],
                 lv \cup {<<n, rc[n]>> : n \in S}, rc, er)
<1> DEFINE st2 == [n \in Nodes |-> IF n \in S THEN "RUNNING" ELSE st[n]]
           q2 == [n \in Nodes |-> IF n \in S THEN q[n] - 1 ELSE q[n]]
           lv2 == lv \cup {<<n, rc[n]>> : n \in S}
<1>1. \A n \in S : n \in Nodes /\ st[n] = "READY" /\ q[n] = 1
  BY DEF Sound, QueueMatches, Waiting
<1>2. \A n \in Nodes : st2[n] = IF n \in S THEN "RUNNING" ELSE st[n]
  OBVIOUS
<1>3. Completed(st2) = Completed(st)
  BY <1>1, <1>2 DEF Completed
<1>4. Shaped(st2, q2, lv2, rc, er)
  <2>1. st2 \in [Nodes -> Statuses]
    BY DEF Sound, Shaped, Statuses
  <2>2. q2 \in [Nodes -> Nat]
    BY <1>1 DEF Sound, Shaped
  <2>3. lv2 \subseteq Attempts
    BY <1>1 DEF Sound, Shaped, Attempts
  <2> QED BY <2>1, <2>2, <2>3 DEF Sound, Shaped
<1>5. DepsDone(st2)
  BY <1>1, <1>2, <1>3 DEF Sound, DepsDone
<1>6. PendingWaits(st2)
  BY <1>1, <1>2, DagAssumption DEF Sound, PendingWaits
<1>7. QueueMatches(st2, q2)
  BY <1>1, <1>2 DEF Sound, QueueMatches
<1>8. LiveMatches(st2, lv2, rc)
  <2>1. ASSUME NEW n \in Nodes, st2[n] = "RUNNING"
        PROVE  <<n, rc[n]>> \in lv2
    BY <1>2, <2>1 DEF Sound, LiveMatches
  <2>2. ASSUME NEW p \in lv
        PROVE  st2[p[1]] = "RUNNING" /\ p[2] = rc[p[1]]
    BY <1>1, <1>2 DEF Sound, LiveMatches, Shaped, Attempts
  <2>3. ASSUME NEW n \in S
        PROVE  st2[<<n, rc[n]>>[1]] = "RUNNING" /\ <<n, rc[n]>>[2] = rc[<<n, rc[n]>>[1]]
    BY <1>1, <1>2
  <2> QED BY <2>1, <2>2, <2>3 DEF LiveMatches
<1>9. ErrorsMatch(st2, rc, er)
  <2>1. \A n \in Nodes : (st2[n] = "FAILED") <=> (st[n] = "FAILED")
    BY <1>1, <1>2
  <2> QED BY <2>1, DagAssumption DEF Sound, ErrorsMatch
<1>10. OwnFault(st2, er)
  BY <1>3 DEF Sound, OwnFault
<1> QED BY <1>4, <1>5, <1>6, <1>7, <1>8, <1>9, <1>10 DEF Sound

\* A live attempt is the latest one of a node that runs, and its only one.
LEMMA LiveAttempt ==
    ASSUME NEW st, NEW q, NEW lv, NEW rc, NEW er, Sound(st, q, lv, rc, er), NEW p \in lv
    PROVE  /\ p[1] \in Nodes
           /\ st[p[1]] = "RUNNING"
           /\ p = <<p[1], rc[p[1]]>>
           /\ \A r \in lv : r[1] = p[1] => r = p
<1>1. \A r \in lv : r[1] \in Nodes /\ r = <<r[1], r[2]>> /\ r[2] = rc[r[1]] /\ st[r[1]] = "RUNNING"
  BY DEF Sound, Shaped, LiveMatches, Attempts
<1> QED BY <1>1

\* LiveMatches survives when one live attempt settles and no other node starts
\* or stops running.
LEMMA SettleLive ==
    ASSUME NEW st, NEW q, NEW lv, NEW rc, NEW er, Sound(st, q, lv, rc, er), NEW p \in lv,
           NEW st2, NEW rc2, NEW lv2, lv2 = lv \ {p}, st2[p[1]] # "RUNNING",
           \A n \in Nodes \ {p[1]} : rc2[n] = rc[n] /\ (st2[n] = "RUNNING" <=> st[n] = "RUNNING")
    PROVE  LiveMatches(st2, lv2, rc2)
<1>1. \A r \in lv : r[1] \in Nodes /\ (r[1] = p[1] => r = p)
  BY LiveAttempt
<1>2. ASSUME NEW n \in Nodes, st2[n] = "RUNNING"
      PROVE  <<n, rc2[n]>> \in lv2
  <2>1. n # p[1] /\ st[n] = "RUNNING" /\ rc2[n] = rc[n]
    BY <1>2
  <2>2. <<n, rc[n]>> \in lv
    BY <2>1 DEF Sound, LiveMatches
  <2>3. <<n, rc[n]>> # p
    BY <2>1
  <2> QED BY <2>1, <2>2, <2>3
<1>3. ASSUME NEW r \in lv2
      PROVE  st2[r[1]] = "RUNNING" /\ r[2] = rc2[r[1]]
  BY <1>1 DEF Sound, LiveMatches
<1> QED BY <1>2, <1>3 DEF LiveMatches

\* An attempt is answered: its node completes and unlocks others.
LEMMA AnswerSound ==
    ASSUME NEW st, NEW q, NEW lv, NEW rc, NEW er, Sound(st, q, lv, rc, er), NEW p \in lv,
           NEW done, \A n \in Nodes : done[n] = IF n = p[1] THEN "COMPLETED" ELSE st[n]
    PROVE  Sound([n \in Nodes |-> IF n \in NewlyReady(done) THEN "READY" ELSE done[n]],
                 [n \in Nodes |-> IF n \in NewlyReady(done) THEN q[n] + 1 ELSE q[n]],
                 lv \ {p}, rc, er)
<1> DEFINE id == p[1]
           R == NewlyReady(done)
           st2 == [n \in Nodes |-> IF n \in R THEN "READY" ELSE done[n]]
           q2 == [n \in Nodes |-> IF n \in R THEN q[n] + 1 ELSE q[n]]
<1>1. id \in Nodes /\ st[id] = "RUNNING"
  BY LiveAttempt
<1>2. \A n \in Nodes : done[n] = IF n = id THEN "COMPLETED" ELSE st[n]
  OBVIOUS
<1> HIDE DEF id
<1>3. \A n \in Nodes : n \in R <=> n # id /\ st[n] = "PENDING" /\ Deps[n] \subseteq Completed(done)
  <2>1. \A n \in Nodes : n \in R <=> done[n] = "PENDING" /\ Deps[n] \subseteq Completed(done)
    BY DEF NewlyReady, canStart
  <2> QED BY <1>2, <2>1
<1> HIDE DEF R
<1>4. /\ \A n \in Nodes : st2[n] = IF n \in R THEN "READY" ELSE IF n = id THEN "COMPLETED" ELSE st[n]
      /\ \A n \in Nodes : q2[n] = IF n \in R THEN q[n] + 1 ELSE q[n]
  BY <1>2
<1>5. Completed(st2) = Completed(done) /\ Completed(done) = Completed(st) \cup {id}
  <2> HIDE DEF st2, q2
  <2>1. \A n \in Nodes : (done[n] = "COMPLETED") <=> (st[n] = "COMPLETED" \/ n = id)
    BY <1>2
  <2>2. \A n \in Nodes : (st2[n] = "COMPLETED") <=> (done[n] = "COMPLETED")
    BY <1>2, <1>3, <1>4
  <2> QED BY <1>1, <2>1, <2>2 DEF Completed
<1>6. Shaped(st2, q2, lv \ {p}, rc, er)
  <2>1. st2 \in [Nodes -> Statuses]
    BY <1>1, <1>2 DEF Sound, Shaped, Statuses
  <2>2. q2 \in [Nodes -> Nat]
    BY DEF Sound, Shaped
  <2> QED BY <2>1, <2>2 DEF Sound, Shaped
<1> HIDE DEF st2, q2
<1>7. DepsDone(st2)
  BY <1>1, <1>3, <1>4, <1>5 DEF Sound, DepsDone
<1>8. PendingWaits(st2)
  <2> SUFFICES ASSUME NEW n \in Nodes, st2[n] = "PENDING"
               PROVE  \E d \in Deps[n] : st2[d] # "COMPLETED"
    BY DEF PendingWaits
  <2>1. n # id /\ st[n] = "PENDING" /\ n \notin R
    BY <1>4
  <2>2. PICK d \in Deps[n] : d \notin Completed(done)
    BY <2>1, <1>3
  <2>3. d \in Nodes
    BY DagAssumption
  <2> QED BY <2>2, <2>3, <1>5 DEF Completed
<1>9. QueueMatches(st2, q2)
  BY <1>1, <1>3, <1>4 DEF Sound, QueueMatches, Shaped
<1>10. LiveMatches(st2, lv \ {p}, rc)
  <2>1. st2[id] # "RUNNING"
    BY <1>1, <1>4
  <2>2. \A n \in Nodes \ {id} : st2[n] = "RUNNING" <=> st[n] = "RUNNING"
    BY <1>3, <1>4
  <2> QED BY <2>1, <2>2, SettleLive DEF id
<1>11. ErrorsMatch(st2, rc, er)
  <2>1. \A n \in Nodes : (st2[n] = "FAILED") <=> (st[n] = "FAILED")
    BY <1>1, <1>3, <1>4
  <2> QED BY <2>1, DagAssumption DEF Sound, ErrorsMatch
<1>12. OwnFault(st2, er)
  BY <1>5 DEF Sound, OwnFault
<1> QED BY <1>6, <1>7, <1>8, <1>9, <1>10, <1>11, <1>12 DEF Sound, st2, q2, R, id

\* An attempt fails and its node is tried again.
LEMMA RetrySound ==
    ASSUME NEW st, NEW q, NEW lv, NEW rc, NEW er, Sound(st, q, lv, rc, er), NEW p \in lv,
           rc[p[1]] < MaxRetries[p[1]]
    PROVE  Sound([st EXCEPT ![p[1]] = "READY"], [q EXCEPT ![p[1]] = @ + 1],
                 lv \ {p}, [rc EXCEPT ![p[1]] = @ + 1], er)
<1> DEFINE id == p[1]
           st2 == [st EXCEPT ![id] = "READY"]
           q2 == [q EXCEPT ![id] = @ + 1]
           rc2 == [rc EXCEPT ![id] = @ + 1]
<1>1. id \in Nodes /\ st[id] = "RUNNING"
  BY LiveAttempt
<1> HIDE DEF id
<1>2. /\ \A n \in Nodes : st2[n] = IF n = id THEN "READY" ELSE st[n]
      /\ \A n \in Nodes : q2[n] = IF n = id THEN q[n] + 1 ELSE q[n]
      /\ \A n \in Nodes : rc2[n] = IF n = id THEN rc[n] + 1 ELSE rc[n]
  BY <1>1 DEF Sound, Shaped
<1>3. Shaped(st2, q2, lv \ {p}, rc2, er)
  <2>1. st2 \in [Nodes -> Statuses]
    BY DEF Sound, Shaped, Statuses
  <2>2. q2 \in [Nodes -> Nat] /\ rc2 \in [Nodes -> Nat]
    BY <1>1 DEF Sound, Shaped
  <2> QED BY <2>1, <2>2 DEF Sound, Shaped
<1> HIDE DEF st2, q2, rc2
<1>4. Completed(st2) = Completed(st)
  BY <1>1, <1>2 DEF Completed
<1>5. DepsDone(st2)
  BY <1>1, <1>2, <1>4 DEF Sound, DepsDone
<1>6. PendingWaits(st2)
  BY <1>1, <1>2, DagAssumption DEF Sound, PendingWaits
<1>7. QueueMatches(st2, q2)
  BY <1>1, <1>2 DEF Sound, QueueMatches, Shaped
<1>8. LiveMatches(st2, lv \ {p}, rc2)
  <2>1. st2[id] # "RUNNING"
    BY <1>1, <1>2
  <2>2. \A n \in Nodes \ {id} : rc2[n] = rc[n] /\ (st2[n] = "RUNNING" <=> st[n] = "RUNNING")
    BY <1>2
  <2> QED BY <2>1, <2>2, SettleLive DEF id
<1>9. ErrorsMatch(st2, rc2, er)
  <2>1. \A n \in Nodes : (st2[n] = "FAILED") <=> (st[n] = "FAILED")
    BY <1>1, <1>2
  <2>2. \A n \in Nodes : er[n] = "own" => n # id
    BY <1>1 DEF Sound, ErrorsMatch
  <2> QED BY <1>2, <2>1, <2>2, DagAssumption DEF Sound, ErrorsMatch
<1>10. RetriesBounded(rc2)
  BY <1>1, <1>2, DagAssumption DEF Sound, RetriesBounded, Shaped, id
<1>11. OwnFault(st2, er)
  BY <1>4 DEF Sound, OwnFault
<1> QED BY <1>3, <1>5, <1>6, <1>7, <1>8, <1>9, <1>10, <1>11 DEF Sound, st2, q2, rc2, id

Started(st, n) == st[n] \notin {"PENDING", "READY"}
Closed(F, st) ==
    \A n \in Nodes : ~Started(st, n) /\ Deps[n] \cap F # {} => n \in F

\* propagateFailure's fixpoint: it takes nodes that have not started, all that
\* depend on a failed one, and no others.
LEMMA DoomedFacts ==
    ASSUME NEW st, NEW id \in Nodes, Started(st, id), NEW D, D = Doomed(id, st)
    PROVE  /\ D \subseteq Nodes
           /\ \A n \in D : n # id /\ ~Started(st, n) /\ Deps[n] \cap (D \cup {id}) # {}
           /\ \A n \in Nodes : ~Started(st, n) /\ Deps[n] \cap (D \cup {id}) # {} => n \in D
<1>1. D = {n \in Nodes \ {id} : \A F \in SUBSET Nodes : id \in F /\ Closed(F, st) => n \in F}
  BY DEF Doomed, Closed, Started
<1>2. \A n \in D : n \in Nodes /\ n # id
  BY <1>1
<1>3. ASSUME NEW n \in D
      PROVE  ~Started(st, n)
  <2> DEFINE F == {id} \cup {m \in Nodes : ~Started(st, m)}
  <2>1. Closed(F, st)
    BY DEF Closed
  <2>2. n \in F
    BY <1>1, <2>1
  <2> QED BY <1>2, <2>2
<1>4. ASSUME NEW n \in Nodes, ~Started(st, n), Deps[n] \cap (D \cup {id}) # {}
      PROVE  n \in D
  <2>1. n # id
    BY <1>4
  <2>2. ASSUME NEW F \in SUBSET Nodes, id \in F, Closed(F, st)
        PROVE  n \in F
    <3>1. D \cup {id} \subseteq F
      BY <1>1, <2>2
    <3>2. Deps[n] \cap F # {}
      BY <1>4, <3>1
    <3> QED BY <1>4, <2>2, <3>2 DEF Closed
  <2> QED BY <1>1, <2>1, <2>2
<1>5. ASSUME NEW n \in D, Deps[n] \cap (D \cup {id}) = {}
      PROVE  FALSE
  <2> DEFINE F == (D \cup {id}) \ {n}
  <2>1. ASSUME NEW m \in Nodes, ~Started(st, m), Deps[m] \cap F # {}
        PROVE  m \in F
    BY <1>4, <1>5, <2>1
  <2>2. Closed(F, st)
    BY <2>1 DEF Closed
  <2>3. id \in F /\ F \in SUBSET Nodes
    BY <1>2
  <2>4. n \in F
    BY <1>1, <2>2, <2>3
  <2> QED BY <2>4
<1> QED BY <1>2, <1>3, <1>4, <1>5

\* An attempt fails for the last time, and its node's dependents with it.
LEMMA FailSound ==
    ASSUME NEW st, NEW q, NEW lv, NEW rc, NEW er, Sound(st, q, lv, rc, er), NEW p \in lv,
           ~(rc[p[1]] < MaxRetries[p[1]]),
           NEW failed, \A n \in Nodes : failed[n] = IF n = p[1] THEN "FAILED" ELSE st[n],
           NEW D, D = Doomed(p[1], failed)
    PROVE  Sound([n \in Nodes |-> IF n \in D THEN "FAILED" ELSE failed[n]], q, lv \ {p}, rc,
                 [n \in Nodes |-> IF n = p[1] THEN "own"
                                  ELSE IF n \in D THEN "dependency" ELSE er[n]])
<1> DEFINE id == p[1]
           st2 == [n \in Nodes |-> IF n \in D THEN "FAILED" ELSE failed[n]]
           er2 == [n \in Nodes |-> IF n = id THEN "own"
                                   ELSE IF n \in D THEN "dependency" ELSE er[n]]
<1>1. id \in Nodes /\ st[id] = "RUNNING"
  BY LiveAttempt
<1>2. rc[id] = MaxRetries[id]
  BY <1>1, DagAssumption DEF Sound, Shaped, RetriesBounded
<1>3. /\ \A n \in Nodes : failed[n] = IF n = id THEN "FAILED" ELSE st[n]
      /\ D = Doomed(id, failed)
  OBVIOUS
<1> HIDE DEF id
<1>4. /\ D \subseteq Nodes
      /\ \A n \in D : n # id /\ ~Started(failed, n) /\ Deps[n] \cap (D \cup {id}) # {}
      /\ \A n \in Nodes : ~Started(failed, n) /\ Deps[n] \cap (D \cup {id}) # {} => n \in D
  BY <1>1, <1>3, DoomedFacts DEF Started
<1>5. \A n \in Nodes : st2[n] = IF n = id \/ n \in D THEN "FAILED" ELSE st[n]
  BY <1>3
<1>6. \A n \in Nodes : er2[n] = IF n = id THEN "own"
                                 ELSE IF n \in D THEN "dependency" ELSE er[n]
  OBVIOUS
<1>7. \A n \in D : st[n] = "PENDING"
  <2> SUFFICES ASSUME NEW n \in D, st[n] = "READY"
               PROVE  FALSE
    BY <1>3, <1>4 DEF Started
  <2>1. Deps[n] \subseteq Completed(st)
    BY <1>4 DEF Sound, DepsDone
  <2>2. PICK d \in Deps[n] : d \in D \cup {id}
    BY <1>4
  <2>3. st[d] = "COMPLETED"
    BY <2>1, <2>2 DEF Completed
  <2>4. d # id
    BY <1>1, <2>3
  <2>5. d \in D /\ d \in Nodes /\ failed[d] = st[d]
    BY <1>3, <1>4, <2>2, <2>4
  <2> QED BY <1>4, <2>3, <2>5 DEF Started
<1>8. Shaped(st2, q, lv \ {p}, rc, er2)
  <2>1. st2 \in [Nodes -> Statuses]
    BY <1>3 DEF Sound, Shaped, Statuses
  <2>2. er2 \in [Nodes -> {"none", "own", "dependency"}]
    BY DEF Sound, Shaped
  <2> QED BY <2>1, <2>2 DEF Sound, Shaped
<1> HIDE DEF st2, er2
<1>9. Completed(st2) = Completed(st)
  BY <1>1, <1>5, <1>7 DEF Completed
<1>10. DepsDone(st2)
  BY <1>5, <1>9 DEF Sound, DepsDone
<1>11. PendingWaits(st2)
  <2>1. \A n \in Nodes : (st2[n] = "COMPLETED") <=> (st[n] = "COMPLETED")
    BY <1>9 DEF Completed
  <2> QED BY <1>5, <2>1, DagAssumption DEF Sound, PendingWaits
<1>12. QueueMatches(st2, q)
  BY <1>1, <1>5, <1>7 DEF Sound, QueueMatches
<1>13. LiveMatches(st2, lv \ {p}, rc)
  <2>1. st2[id] # "RUNNING"
    BY <1>1, <1>5
  <2>2. \A n \in Nodes \ {id} : st2[n] = "RUNNING" <=> st[n] = "RUNNING"
    BY <1>5, <1>7
  <2> QED BY <2>1, <2>2, SettleLive DEF id
<1>14. ErrorsMatch(st2, rc, er2)
  <2> SUFFICES ASSUME NEW n \in Nodes
               PROVE  /\ er2[n] = "own" => rc[n] = MaxRetries[n]
                      /\ (er2[n] = "dependency") <=> \E d \in Deps[n] : st2[d] = "FAILED"
                      /\ (st2[n] = "FAILED") <=> (er2[n] # "none")
    BY DEF ErrorsMatch
  <2>1. /\ er[n] = "own" => rc[n] = MaxRetries[n]
        /\ (er[n] = "dependency") <=> \E d \in Deps[n] : st[d] = "FAILED"
        /\ (st[n] = "FAILED") <=> (er[n] # "none")
    BY DEF Sound, ErrorsMatch
  <2>2. er2[n] = "own" => rc[n] = MaxRetries[n]
    BY <1>2, <1>6, <2>1
  <2>3. (st2[n] = "FAILED") <=> (er2[n] # "none")
    BY <1>5, <1>6, <2>1
  <2>4. \A d \in Deps[n] : d \in Nodes
    BY DagAssumption
  <2>5. (\E d \in Deps[n] : st2[d] = "FAILED") <=>
        (\E d \in Deps[n] : st[d] = "FAILED") \/ Deps[n] \cap (D \cup {id}) # {}
    BY <1>5, <2>4
  <2>6. CASE n = id
    <3>1. \A d \in Deps[n] : st2[d] = "COMPLETED"
      BY <1>1, <1>9, <2>6 DEF Sound, DepsDone, Completed
    <3> QED BY <1>6, <2>2, <2>3, <2>6, <3>1
  <2>7. CASE n \in D
    BY <1>4, <1>6, <2>2, <2>3, <2>5, <2>7
  <2>8. CASE n # id /\ n \notin D /\ ~Started(st, n)
    <3>1. Deps[n] \cap (D \cup {id}) = {}
      BY <1>3, <1>4, <2>8 DEF Started
    <3> QED BY <1>6, <2>1, <2>2, <2>3, <2>5, <2>8, <3>1
  <2>9. CASE n # id /\ n \notin D /\ st[n] \in {"RUNNING", "COMPLETED"}
    <3>1. \A d \in Deps[n] : st2[d] = "COMPLETED" /\ st[d] = "COMPLETED"
      BY <1>9, <2>9 DEF Sound, DepsDone, Completed
    <3> QED BY <1>6, <2>1, <2>2, <2>3, <2>9, <3>1
  <2>10. CASE n # id /\ n \notin D /\ st[n] = "FAILED"
    <3>1. CASE er[n] = "own"
      <4>1. \A d \in Deps[n] : st2[d] = "COMPLETED"
        BY <1>9, <3>1 DEF Sound, OwnFault, Completed
      <4> QED BY <1>6, <2>2, <2>3, <2>10, <3>1, <4>1
    <3>2. CASE er[n] = "dependency"
      BY <1>6, <2>1, <2>2, <2>3, <2>5, <2>10, <3>2
    <3> QED BY <2>1, <2>10, <3>1, <3>2 DEF Sound, Shaped
  <2> QED BY <2>6, <2>7, <2>8, <2>9, <2>10 DEF Sound, Shaped, Statuses, Started
<1>15. OwnFault(st2, er2)
  <2>1. Deps[id] \subseteq Completed(st)
    BY <1>1 DEF Sound, DepsDone
  <2> QED BY <1>6, <1>9, <2>1 DEF Sound, OwnFault
<1> QED BY <1>8, <1>10, <1>11, <1>12, <1>13, <1>14, <1>15 DEF Sound, st2, er2, id
-----------------------------------------------------------------------------
(* The steps of the execution *)

Slots(run, lv, ag) ==
    /\ run \subseteq Attempts /\ ag \subseteq Attempts
    /\ lv \subseteq run /\ lv \subseteq ag
    /\ IsFiniteSet(run)
    /\ Cardinality(run) <= Max

Fresh ==
    /\ status = [n \in Nodes |-> "PENDING"]
    /\ retryCount = [n \in Nodes |-> 0]
    /\ error = [n \in Nodes |-> "none"]
    /\ queued = [n \in Nodes |-> 0]
    /\ running = {} /\ live = {} /\ agents = {}

IInv ==
    /\ pc \in {"idle", "waiting", "returned"}
    /\ aborted \in BOOLEAN
    /\ raced \subseteq Attempts
    /\ report \subseteq Nodes
    /\ Slots(running, live, agents)
    /\ pc = "idle" => Fresh
    /\ pc # "idle" => Sound(status, queued, live, retryCount, error)
    /\ ReportIsFinal

\* drain() fits into the free slots, launches nothing after abort(), and
\* changes no node that is not READY.
LEMMA DrainSound ==
    ASSUME NEW st, NEW q, NEW run, NEW stop,
           Sound(st, q, live, retryCount, error), Slots(run, live, agents),
           UNCHANGED <<retryCount, error>>, Drain(st, q, run, stop)
    PROVE  /\ Sound(status', queued', live', retryCount', error')
           /\ Slots(running', live', agents')
           /\ stop => agents' = agents
           /\ \A n \in Nodes : st[n] # "READY" => status'[n] = st[n]
           /\ (\A n \in Nodes : st[n] # "READY") => running' = run
<1>1. PICK picked \in Picks(q, run, stop) :
        /\ status' = [n \in Nodes |-> IF n \in picked THEN "RUNNING" ELSE st[n]]
        /\ queued' = [n \in Nodes |-> IF n \in picked THEN q[n] - 1 ELSE q[n]]
        /\ running' = run \cup {<<n, retryCount[n]>> : n \in picked}
        /\ live' = live \cup {<<n, retryCount[n]>> : n \in picked}
        /\ agents' = agents \cup {<<n, retryCount[n]>> : n \in picked}
  BY DEF Drain
<1> DEFINE new == {<<n, retryCount[n]>> : n \in picked}
<1>2. picked \in SUBSET Waiting(q) /\ picked \in SUBSET Nodes
  BY DEF Picks, Waiting
<1>3. Sound(status', queued', live', retryCount', error')
  BY <1>1, <1>2, LaunchSound
<1>4. \A n \in picked : st[n] = "READY"
  BY <1>2 DEF Sound, QueueMatches, Waiting
<1>5. IsFiniteSet(picked) /\ IsFiniteSet(Waiting(q))
  BY <1>2, FS_Subset, DagAssumption DEF Waiting
<1>6. /\ Cardinality(picked) \in Nat /\ Cardinality(run) \in Nat /\ Cardinality(Waiting(q)) \in Nat
      /\ Max \in Nat
  BY <1>5, FS_CardinalityType, DagAssumption DEF Slots
<1>7. Cardinality(picked) <= Max - Cardinality(run)
  BY <1>6 DEF Picks, Slots
<1>8. IsFiniteSet(new) /\ Cardinality(new) <= Cardinality(picked)
  <2> DEFINE f == [n \in picked |-> <<n, retryCount[n]>>]
  <2>1. f \in Surjection(picked, new)
    BY DEF Surjection
  <2> QED BY <1>5, <2>1, FS_Surjection
<1>9. Slots(running', live', agents')
  <2>1. IsFiniteSet(run \cup new) /\ Cardinality(run \cup new) <= Max
    <3>1. /\ IsFiniteSet(run \cup new)
          /\ Cardinality(run \cup new)
               = Cardinality(run) + Cardinality(new) - Cardinality(run \cap new)
      BY <1>8, FS_Union DEF Slots
    <3>2. Cardinality(new) \in Nat /\ Cardinality(run \cap new) \in Nat
      BY <1>8, FS_Intersection, FS_CardinalityType
    <3> QED BY <1>6, <1>7, <1>8, <3>1, <3>2
  <2>2. new \subseteq Attempts
    BY <1>2 DEF Attempts, Sound, Shaped
  <2> QED BY <1>1, <2>1, <2>2 DEF Slots
<1>10. stop => picked = {}
  BY <1>5, <1>2, FS_EmptySet DEF Picks
<1>11. stop => agents' = agents
  BY <1>1, <1>10
<1>12. \A n \in Nodes : st[n] # "READY" => status'[n] = st[n]
  BY <1>1, <1>4
<1>13. (\A n \in Nodes : st[n] # "READY") => running' = run
  <2>1. (\A n \in Nodes : st[n] # "READY") => picked = {}
    BY <1>2, <1>4
  <2> QED BY <1>1, <2>1
<1> QED BY <1>3, <1>9, <1>11, <1>12, <1>13

\* The loop of execute() leaves off only when every node has ended: of the
\* nodes that wait one waits for none of the others, so that something it
\* depends on has failed, and then it has failed too.
LEMMA NothingWaits ==
    ASSUME NEW st, NEW q, NEW lv, NEW rc, NEW er, Sound(st, q, lv, rc, er), lv = {},
           \A n \in Nodes : q[n] = 0
    PROVE  \A n \in Nodes : st[n] \in Terminal
<1> DEFINE P == {n \in Nodes : st[n] = "PENDING"}
<1>1. \A n \in Nodes : st[n] \in {"PENDING"} \cup Terminal
  BY DEF Sound, Shaped, Statuses, Terminal, QueueMatches, LiveMatches
<1>2. P = {}
  <2> SUFFICES ASSUME P # {}
               PROVE  FALSE
    OBVIOUS
  <2>1. PICK n \in P : Deps[n] \cap P = {}
    BY DagAssumption
  <2>2. PICK d \in Deps[n] : st[d] # "COMPLETED"
    BY DEF Sound, PendingWaits
  <2>3. d \in Nodes /\ d \notin P
    BY <2>1, <2>2, DagAssumption
  <2>4. st[d] = "FAILED"
    BY <1>1, <2>2, <2>3 DEF Terminal
  <2>5. er[n] = "dependency"
    BY <2>2, <2>4 DEF Sound, ErrorsMatch
  <2> QED BY <2>1, <2>5 DEF Sound, ErrorsMatch
<1> QED BY <1>1, <1>2

\* The return to the loop of run() keeps its place, what it raced and what it
\* reports well formed.
LEMMA LoopSound ==
    ASSUME Sound(status, queued, live, retryCount, error)', Slots(running, live, agents)',
           Loop, report \subseteq Nodes
    PROVE  /\ pc' \in {"waiting", "returned"}
           /\ raced' \subseteq Attempts
           /\ report' \subseteq Nodes
           /\ ReportIsFinal'
<1>1. CASE pc' = "returned" /\ raced' = {} /\ report' = Completed(status)'
              /\ (\/ \A n \in Nodes : status'[n] \in Terminal
                  \/ aborted'
                  \/ running' = {} /\ \A n \in Nodes : queued'[n] = 0)
  <2>1. (running' = {} /\ \A n \in Nodes : queued'[n] = 0) =>
            \A n \in Nodes : status'[n] \in Terminal
    BY NothingWaits DEF Slots
  <2> QED BY <1>1, <2>1 DEF ReportIsFinal, Completed
<1>2. CASE pc' = "waiting" /\ raced' = running' /\ UNCHANGED report
  BY <1>2 DEF ReportIsFinal, Slots
<1> QED BY <1>1, <1>2 DEF Loop, Completed

\* A callback that settles attempt p: what the catch callback does.
LEMMA FailsSound ==
    ASSUME IInv, pc # "idle", NEW p \in live, Fails(p), agents' \in {agents, agents \ {p}}
    PROVE  /\ Sound(status', queued', live', retryCount', error')
           /\ Slots(running', live', agents')
<1>1. Sound(status, queued, live, retryCount, error)
  BY DEF IInv
<1>2. live' = live \ {p} /\ running' = running
  BY DEF Fails
<1>3. Slots(running', live', agents')
  BY <1>2 DEF IInv, Slots
<1>4. CASE Retry(p[1])
  <2>1. Sound([status EXCEPT ![p[1]] = "READY"], [queued EXCEPT ![p[1]] = @ + 1],
              live \ {p}, [retryCount EXCEPT ![p[1]] = @ + 1], error)
    BY <1>1, <1>4, RetrySound DEF Retry, canRetry
  <2> QED BY <1>2, <1>3, <1>4, <2>1 DEF Retry
<1>5. CASE FailForGood(p[1])
  <2> DEFINE failed == [status EXCEPT ![p[1]] = "FAILED"]
             D == Doomed(p[1], failed)
  <2>1. \A n \in Nodes : failed[n] = IF n = p[1] THEN "FAILED" ELSE status[n]
    BY <1>1, LiveAttempt DEF Sound, Shaped
  <2> HIDE DEF failed
  <2>2. Sound([n \in Nodes |-> IF n \in D THEN "FAILED" ELSE failed[n]], queued, live \ {p},
              retryCount,
              [n \in Nodes |-> IF n = p[1] THEN "own"
                               ELSE IF n \in D THEN "dependency" ELSE error[n]])
    BY <1>1, <1>5, <2>1, FailSound DEF FailForGood, canRetry
  <2> QED BY <1>2, <1>3, <1>5, <2>2 DEF FailForGood, failed
<1> QED BY <1>4, <1>5 DEF Fails

\* Where every node has ended, no step of a callback changes the graph.
LEMMA ReportStays ==
    ASSUME IInv, pc # "idle", UNCHANGED <<pc, report>>, aborted' = aborted,
           \A n \in Nodes : status[n] \in Terminal => status'[n] = status[n]
    PROVE  ReportIsFinal'
BY DEF IInv, ReportIsFinal, Completed

\* The inductive invariant holds before run() is called.
LEMMA Initially == Init => IInv
<1> SUFFICES ASSUME Init PROVE IInv
  OBVIOUS
<1>1. Cardinality({}) = 0 /\ IsFiniteSet({})
  BY FS_EmptySet
<1>2. Slots(running, live, agents)
  BY <1>1, DagAssumption DEF Init, Slots
<1> QED BY <1>2 DEF Init, IInv, Fresh, ReportIsFinal

\* Every step of the loop, of an agent and of abort() keeps it.
LEMMA Steps == IInv /\ [Next]_vars => IInv'
<1> SUFFICES ASSUME IInv, [Next]_vars PROVE IInv'
  OBVIOUS
<1>1. CASE Execute
  <2> DEFINE roots == {n \in Nodes : Deps[n] = {}}
             st == [n \in Nodes |-> IF n \in roots THEN "READY" ELSE status[n]]
             q == [n \in Nodes |-> IF n \in roots THEN 1 ELSE 0]
  <2>1. Fresh /\ report \subseteq Nodes
    BY <1>1 DEF Execute, IInv
  <2>2. \A n \in Nodes : st[n] = IF Deps[n] = {} THEN "READY" ELSE "PENDING"
    BY <2>1 DEF Fresh
  <2>3. \A n \in Nodes : q[n] = IF Deps[n] = {} THEN 1 ELSE 0
    OBVIOUS
  <2>4. Completed(st) = {}
    BY <2>2 DEF Completed
  <2>5. Shaped(st, q, live, retryCount, error)
    BY <2>1, <2>2, <2>3 DEF Shaped, Fresh, Statuses
  <2> HIDE DEF st, q
  <2>6. Sound(st, q, live, retryCount, error)
    <3>1. DepsDone(st)
      BY <2>2, <2>4 DEF DepsDone
    <3>2. PendingWaits(st)
      BY <2>2, DagAssumption DEF PendingWaits
    <3>3. QueueMatches(st, q)
      BY <2>2, <2>3 DEF QueueMatches
    <3>4. LiveMatches(st, live, retryCount)
      BY <2>1, <2>2 DEF LiveMatches, Fresh
    <3>5. ErrorsMatch(st, retryCount, error) /\ OwnFault(st, error)
      BY <2>1, <2>2, DagAssumption DEF ErrorsMatch, OwnFault, Fresh
    <3>6. RetriesBounded(retryCount)
      BY <2>1, DagAssumption DEF RetriesBounded, Fresh
    <3> QED BY <2>5, <3>1, <3>2, <3>3, <3>4, <3>5, <3>6 DEF Sound
  <2>7. Slots({}, live, agents)
    BY <2>1 DEF IInv, Fresh, Slots
  <2>8. Drain(st, q, {}, FALSE) /\ UNCHANGED <<retryCount, error>> /\ Loop /\ aborted' = FALSE
    BY <1>1 DEF Execute, st, q
  <2>9. /\ Sound(status', queued', live', retryCount', error')
        /\ Slots(running', live', agents')
    BY <2>6, <2>7, <2>8, DrainSound
  <2>10. /\ pc' \in {"waiting", "returned"} /\ raced' \subseteq Attempts
         /\ report' \subseteq Nodes /\ ReportIsFinal'
    BY <2>1, <2>8, <2>9, LoopSound
  <2> QED BY <2>8, <2>9, <2>10 DEF IInv
<1>2. CASE Wake
  <2>1. /\ Sound(status, queued, live, retryCount, error) /\ Slots(running, live, agents)
        /\ report \subseteq Nodes /\ aborted \in BOOLEAN
    BY <1>2 DEF Wake, IInv
  <2>2. /\ Sound(status', queued', live', retryCount', error')
        /\ Slots(running', live', agents')
    BY <1>2, <2>1, DrainSound DEF Wake
  <2>3. /\ pc' \in {"waiting", "returned"} /\ raced' \subseteq Attempts
        /\ report' \subseteq Nodes /\ ReportIsFinal'
    BY <1>2, <2>1, <2>2, LoopSound DEF Wake
  <2> QED BY <1>2, <2>1, <2>2, <2>3 DEF IInv, Wake
<1>3. CASE Abort
  BY <1>3 DEF Abort, IInv, ReportIsFinal
<1>4. ASSUME NEW p \in live, Answer(p)
      PROVE  IInv'
  <2>1. pc # "idle" /\ Sound(status, queued, live, retryCount, error)
    BY <1>4 DEF IInv, Fresh
  <2> DEFINE done == [status EXCEPT ![p[1]] = "COMPLETED"]
             R == NewlyReady(done)
  <2>2. \A n \in Nodes : done[n] = IF n = p[1] THEN "COMPLETED" ELSE status[n]
    BY <2>1 DEF Sound, Shaped
  <2>3. /\ status' = [n \in Nodes |-> IF n \in R THEN "READY" ELSE done[n]]
        /\ queued' = [n \in Nodes |-> IF n \in R THEN queued[n] + 1 ELSE queued[n]]
        /\ live' = live \ {p} /\ agents' = agents \ {p}
        /\ UNCHANGED <<retryCount, error, running, aborted, pc, raced, report>>
    BY <1>4 DEF Answer
  <2> HIDE DEF done
  <2>4. Sound(status', queued', live', retryCount', error')
    BY <2>1, <2>2, <2>3, AnswerSound
  <2>5. Slots(running', live', agents')
    BY <2>3 DEF IInv, Slots
  <2>6. \A n \in Nodes : status[n] \in Terminal => status'[n] = status[n]
    <3>1. status[p[1]] = "RUNNING"
      BY <2>1, LiveAttempt
    <3>2. \A n \in R : done[n] = "PENDING"
      BY DEF NewlyReady
    <3> QED BY <2>2, <2>3, <3>1, <3>2 DEF Terminal
  <2>7. ReportIsFinal'
    BY <2>1, <2>3, <2>6, ReportStays
  <2> QED BY <2>1, <2>3, <2>4, <2>5, <2>7 DEF IInv
<1>5. ASSUME NEW p \in live, Fails(p), agents' \in {agents, agents \ {p}}
      PROVE  IInv'
  <2>1. pc # "idle" /\ Sound(status, queued, live, retryCount, error)
    BY <1>5 DEF IInv, Fresh
  <2>2. /\ Sound(status', queued', live', retryCount', error')
        /\ Slots(running', live', agents')
    BY <1>5, <2>1, FailsSound
  <2>3. UNCHANGED <<running, aborted, pc, raced, report>>
    BY <1>5 DEF Fails
  <2>4. status[p[1]] = "RUNNING" /\ p[1] \in Nodes
    BY <2>1, LiveAttempt
  <2>5. ReportIsFinal'
    BY <2>1, <2>3, <2>4 DEF IInv, ReportIsFinal, Terminal
  <2> QED BY <2>1, <2>2, <2>3, <2>5 DEF IInv
<1>6. ASSUME NEW p \in agents, EndsUnheard(p)
      PROVE  IInv'
  <2>1. pc # "idle"
    BY <1>6 DEF IInv, Fresh
  <2>2. /\ agents' = agents \ {p} /\ p \notin live
        /\ UNCHANGED <<status, retryCount, error, queued, running, live, aborted, pc, raced, report>>
    BY <1>6 DEF EndsUnheard
  <2>3. Slots(running', live', agents')
    BY <2>2 DEF IInv, Slots
  <2> QED BY <2>1, <2>2, <2>3 DEF IInv, ReportIsFinal, Completed
<1>7. ASSUME NEW p \in running, Release(p)
      PROVE  IInv'
  <2>1. pc # "idle" /\ Sound(status, queued, live, retryCount, error)
    BY <1>7 DEF IInv, Fresh
  <2>2. /\ p \notin live /\ Drain(status, queued, running \ {p}, aborted)
        /\ UNCHANGED <<retryCount, error, aborted, pc, raced, report>>
    BY <1>7 DEF Release
  <2>3. Slots(running \ {p}, live, agents)
    <3>1. /\ IsFiniteSet(running \ {p}) /\ Cardinality(running) \in Nat
          /\ Cardinality(running \ {p}) = Cardinality(running) - 1
      BY FS_RemoveElement, FS_CardinalityType DEF IInv, Slots
    <3>2. Cardinality(running \ {p}) <= Max
      BY <3>1, DagAssumption DEF IInv, Slots
    <3> QED BY <2>2, <3>1, <3>2 DEF IInv, Slots
  <2>4. /\ Sound(status', queued', live', retryCount', error')
        /\ Slots(running', live', agents')
        /\ \A n \in Nodes : status[n] # "READY" => status'[n] = status[n]
    BY <2>1, <2>2, <2>3, DrainSound
  <2>5. ReportIsFinal'
    BY <2>1, <2>2, <2>4, ReportStays DEF Terminal
  <2> QED BY <2>1, <2>2, <2>4, <2>5 DEF IInv
<1>8. CASE UNCHANGED vars
  BY <1>8 DEF vars, IInv, Fresh, ReportIsFinal, Completed
<1>9. ASSUME NEW p \in live, Throws(p) \/ Expire(p)
      PROVE  Fails(p) /\ agents' \in {agents, agents \ {p}}
  BY <1>9 DEF Throws, Expire
<1> QED BY <1>1, <1>2, <1>3, <1>4, <1>5, <1>6, <1>7, <1>8, <1>9 DEF Next

\* So it holds throughout every run of the scheduler.
LEMMA Invariant == Spec => []IInv
BY Initially, Steps, PTL DEF Spec
-----------------------------------------------------------------------------
(* The theorems *)

\* In any acyclic graph no task is queued or run before all it depends on has
\* completed, however often attempts fail, time out and are tried again.
THEOREM DependenciesFirst == Spec => []DepsFirst
<1>1. IInv => DepsFirst
  BY DEF IInv, Fresh, Sound, DepsDone, DepsFirst
<1> QED BY <1>1, Invariant, PTL

\* The attempts that hold a slot never exceed maxConcurrentWorkers.
THEOREM NeverTooMany == Spec => []WorkerBound
<1>1. IInv => WorkerBound
  BY DEF IInv, Slots, WorkerBound
<1> QED BY <1>1, Invariant, PTL

\* A RUNNING task has exactly one unsettled attempt, and only RUNNING tasks do;
\* the ready queue holds every READY task once and nothing else.
THEOREM Accounted == Spec => []NodesAccounted
<1>1. IInv => RunningIsLive
  BY DEF IInv, Fresh, Sound, LiveMatches, RunningIsLive
<1>2. IInv => QueueIsReady
  BY DEF IInv, Fresh, Sound, QueueMatches, QueueIsReady
<1> QED BY <1>1, <1>2, Invariant, PTL DEF NodesAccounted

\* A task fails on its last retry or with a dependency, and always with one.
THEOREM FailuresExplained == Spec => []FailureIsExplained
<1>1. IInv => FailureIsExplained
  BY DagAssumption DEF IInv, Fresh, Sound, ErrorsMatch, FailureIsExplained
<1> QED BY <1>1, Invariant, PTL

\* execute() returns only when every task has ended, and its report stays true.
THEOREM NothingAbandoned == Spec => []ReportIsFinal
<1>1. IInv => ReportIsFinal
  BY DEF IInv
<1> QED BY <1>1, Invariant, PTL

\* After abort() no callback starts an agent.
THEOREM AbortStarts == Spec => AbortStops
<1>1. IInv /\ [Next]_vars => [aborted /\ pc # "idle" => agents' \subseteq agents]_vars
  <2> SUFFICES ASSUME IInv, Next, aborted, pc # "idle"
               PROVE  agents' \subseteq agents
    BY DEF vars
  <2>1. Sound(status, queued, live, retryCount, error) /\ Slots(running, live, agents)
    BY DEF IInv
  <2>2. CASE Wake
    BY <2>1, <2>2, DrainSound DEF Wake
  <2>3. ASSUME NEW p \in running, Release(p)
        PROVE  agents' \subseteq agents
    <3>1. \E picked \in Picks(queued, running \ {p}, aborted) :
             agents' = agents \cup {<<n, retryCount[n]>> : n \in picked}
      BY <2>3 DEF Release, Drain
    <3>2. \A picked \in Picks(queued, running \ {p}, aborted) : picked = {}
      <4>1. \A S \in SUBSET Waiting(queued) : IsFiniteSet(S)
        BY FS_Subset, DagAssumption DEF Waiting
      <4> QED BY <4>1, FS_EmptySet DEF Picks
    <3> QED BY <3>1, <3>2
  <2> QED BY <2>2, <2>3 DEF Next, Execute, Abort, Answer, Throws, Expire, Fails, EndsUnheard
<1> QED BY <1>1, Invariant, PTL DEF Spec, AbortStops

\* Every variable stays in its domain.
LEMMA Typing == Spec => []TypeOK
<1>1. IInv => TypeOK
  <2> SUFFICES ASSUME IInv PROVE TypeOK
    OBVIOUS
  <2>1. /\ status \in [Nodes -> Statuses]
        /\ retryCount \in [Nodes -> Nat]
        /\ error \in [Nodes -> {"none", "own", "dependency"}]
        /\ queued \in [Nodes -> Nat]
    <3>1. CASE pc = "idle"
      BY <3>1 DEF IInv, Fresh, Statuses
    <3>2. CASE pc # "idle"
      BY <3>2 DEF IInv, Sound, Shaped
    <3> QED BY <3>1, <3>2
  <2> QED BY <2>1 DEF IInv, Slots, TypeOK
<1> QED BY <1>1, Invariant, PTL

\* Nodes, promises and the ready queue stay in step, within the bound.
THEOREM StaysInStep == Spec => []SchedulerSound
BY Typing, NeverTooMany, Accounted, PTL DEF SchedulerSound

\* The report of execute() and the effect of abort() are final.
THEOREM FinalEnd == Spec => EndIsFinal
BY NothingAbandoned, AbortStarts, PTL DEF EndIsFinal
=============================================================================
