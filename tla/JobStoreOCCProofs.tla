-------------------------- MODULE JobStoreOCCProofs --------------------------
(***************************************************************************)
(* The optimistic loops implement the atomic store, for any number of      *)
(* callers, rows, boots and retries.  The argument: a copy that still has  *)
(* the row's version is the row (CopyIsCurrent), so the put that succeeds  *)
(* is the atomic step taken at that moment.                                *)
(***************************************************************************)
EXTENDS JobStoreOCC, TLAPS

\* A caller about to put read an existing row, and rows are never removed.
PutsExistingRow ==
    \A c \in Callers : call[c].at = "put" => db[call[c].job] # NoJob /\ call[c].copy \in Docs

IInv == TypeOK /\ CopyIsCurrent /\ PutsExistingRow

\* What each transition of a row yields is a row.
LEMMA UpdatedType ==
    ASSUME NEW op \in Ops, NEW d \in Docs, NEW b \in Boots
    PROVE  Updated(op, d, b) \in Docs
<1>1. d.attempts + 1 \in Nat /\ d.retry + 1 \in Nat
  BY DEF Docs
<1>2. ASSUME NEW s \in Statuses PROVE Released(d, s) \in Docs
  BY <1>2 DEF Released, Docs
<1>3. Claimed(d, b) \in Docs
  BY <1>1 DEF Claimed, Docs, Statuses
<1>4. Renewed(d) \in Docs
  BY DEF Renewed, Docs
<1>5. Completed(d) \in Docs /\ Failed(d) \in Docs /\ Cancelled(d) \in Docs
  BY <1>2 DEF Completed, Failed, Cancelled, Statuses
<1>6. Reclaimed(d) \in Docs
  BY <1>2 DEF Reclaimed, Statuses
<1>7. FailedOrRetried(d) \in Docs
  <2>1. [Released(d, "pending") EXCEPT !.retry = @ + 1, !.due = FALSE] \in Docs
    BY <1>1 DEF Released, Docs, Statuses
  <2>2. Released(d, "failed") \in Docs
    BY <1>2 DEF Statuses
  <2>3. QED
    BY <2>1, <2>2 DEF FailedOrRetried
<1>8. QED
  BY <1>3, <1>4, <1>5, <1>6, <1>7 DEF Updated, Ops

\* Time changes no guard from true to false and keeps a row a row.
LEMMA AgedGuard ==
    ASSUME NEW d \in Docs
    PROVE  /\ Due(d) \in Docs
           /\ Lapsed(d) \in Docs
           /\ \A op \in Ops, b \in Boots :
                 Guard(op, d, b) => Guard(op, Due(d), b) /\ Guard(op, Lapsed(d), b)
<1>1. Due(d) \in Docs
  BY DEF Due, Docs
<1>2. Lapsed(d) \in Docs
  BY DEF Lapsed, Docs
<1>3. ASSUME NEW op \in Ops, NEW b \in Boots, Guard(op, d, b)
      PROVE  Guard(op, Due(d), b) /\ Guard(op, Lapsed(d), b)
  <2>1. /\ Due(d).status = d.status /\ Due(d).boot = d.boot /\ Due(d).lease = d.lease
        /\ Due(d).due = TRUE
    BY DEF Due, Docs
  <2>2. /\ Lapsed(d).status = d.status /\ Lapsed(d).boot = d.boot /\ Lapsed(d).due = d.due
        /\ d.lease = "expired" => Lapsed(d).lease = "expired"
    BY DEF Lapsed, Docs
  <2>3. QED
    BY <1>3, <2>1, <2>2 DEF Guard, Ops, Claimable, Owned, Reclaimable, Cancellable
<1>4. QED
  BY <1>1, <1>2, <1>3

\* create() writes a well-formed row.
LEMMA NewDocType ==
    ASSUME NEW info \in Infos, NEW due \in BOOLEAN
    PROVE  NewDoc(info, due) \in Docs
BY DEF NewDoc, Docs, Statuses

\* A caller that does nothing is well formed.
LEMMA IdleType == Idle \in Calls /\ Idle.at = "idle"
<1>1. (CHOOSE j \in JobIds : TRUE) \in JobIds /\ (CHOOSE b \in Boots : TRUE) \in Boots
  BY JobStoreOCCAssumption
<1>2. QED
  BY <1>1 DEF Idle, Calls, Ops

-----------------------------------------------------------------------------
\* The inductive invariant holds of the empty store.
LEMMA IInvInit == Init => IInv
BY IdleType, JobStoreOCCAssumption DEF Init, IInv, TypeOK, CopyIsCurrent, PutsExistingRow

\* A fresh row under an unused id: nobody holds a copy of it.
LEMMA CreateStep ==
    ASSUME IInv, NEW j \in JobIds, NEW info \in Infos, NEW due \in BOOLEAN, Create(j, info, due)
    PROVE  IInv'
<1>1. TypeOK'
  BY NewDocType DEF IInv, TypeOK, Create
<1>2. ASSUME NEW c \in Callers, call[c].at = "put"
      PROVE  call[c].job # j
  BY <1>2 DEF IInv, PutsExistingRow, Create
<1>3. CopyIsCurrent'
  BY <1>2 DEF IInv, TypeOK, Calls, CopyIsCurrent, Create, Accepts
<1>4. PutsExistingRow'
  BY <1>2 DEF IInv, TypeOK, Calls, PutsExistingRow, Create
<1>5. QED
  BY <1>1, <1>3, <1>4 DEF IInv

\* A caller that starts an operation has read nothing yet.
LEMMA BeginStep ==
    ASSUME IInv, NEW c \in Callers, NEW op \in Ops, NEW j \in JobIds, NEW b \in Boots,
           Begin(c, op, j, b)
    PROVE  IInv'
<1>1. TypeOK'
  BY JobStoreOCCAssumption DEF IInv, TypeOK, Calls, Begin
<1>2. CopyIsCurrent' /\ PutsExistingRow'
  BY DEF IInv, TypeOK, CopyIsCurrent, PutsExistingRow, Begin, Accepts
<1>3. QED
  BY <1>1, <1>2 DEF IInv

\* The copy is taken together with the version it belongs to.
LEMMA ReadStep ==
    ASSUME IInv, NEW c \in Callers, Read(c)
    PROVE  IInv'
<1> DEFINE k == call[c]
<1>1. k \in Calls /\ db[k.job] \in Docs \cup {NoJob} /\ ver[k.job] \in Nat
  BY DEF IInv, TypeOK, Calls
<1>2. CASE Admits(k.op, db[k.job], k.boot)
  <2> DEFINE n == [k EXCEPT !.at = "put", !.copy = db[k.job], !.version = ver[k.job]]
  <2>1. call' = [call EXCEPT ![c] = n] /\ UNCHANGED <<db, ver, calls, wins>>
    BY <1>2 DEF Read
  <2>2. /\ n \in Calls
        /\ n.at = "put" /\ n.copy = db[k.job] /\ n.version = ver[k.job]
        /\ n.job = k.job /\ n.op = k.op /\ n.boot = k.boot
    BY <1>1 DEF Calls
  <2>3. db[k.job] # NoJob /\ Guard(k.op, db[k.job], k.boot)
    BY <1>2 DEF Admits
  <2>4. TypeOK'
    BY <2>1, <2>2 DEF IInv, TypeOK
  <2>5. CopyIsCurrent'
    BY <1>1, <2>1, <2>2, <2>3 DEF IInv, TypeOK, CopyIsCurrent, Accepts
  <2>6. PutsExistingRow'
    BY <1>1, <2>1, <2>2, <2>3 DEF IInv, TypeOK, PutsExistingRow
  <2>7. QED
    BY <2>4, <2>5, <2>6 DEF IInv
<1>3. CASE ~Admits(k.op, db[k.job], k.boot)
  <2>1. call' = [call EXCEPT ![c] = Idle] /\ UNCHANGED <<db, ver, calls, wins>>
    BY <1>3 DEF Read
  <2>2. QED
    BY <2>1, IdleType DEF IInv, TypeOK, CopyIsCurrent, PutsExistingRow, Accepts
<1>4. QED
  BY <1>2, <1>3

\* The put that succeeds outdates every other copy of the row.
LEMMA PutOkStep ==
    ASSUME IInv, NEW c \in Callers, PutOk(c)
    PROVE  IInv'
<1> DEFINE k == call[c]
           j == k.job
           n == Updated(k.op, k.copy, k.boot)
<1>1. k \in Calls /\ j \in JobIds /\ k.copy \in Docs /\ ver[j] \in Nat /\ wins[j] \in Nat
  BY DEF IInv, TypeOK, Calls, PutsExistingRow, PutOk
<1>2. n \in Docs /\ n # NoJob
  BY <1>1, UpdatedType, JobDocAssumption DEF Calls
<1>3. /\ db' = [db EXCEPT ![j] = n]
      /\ ver' = [ver EXCEPT ![j] = @ + 1]
      /\ call' = [call EXCEPT ![c] = Idle]
      /\ UNCHANGED calls
  BY DEF PutOk
<1>4. wins' \in [JobIds -> Nat]
  BY <1>1 DEF PutOk, IInv, TypeOK
<1>5. TypeOK'
  <2>1. db' \in [JobIds -> Docs \cup {NoJob}]
    BY <1>1, <1>2, <1>3 DEF IInv, TypeOK
  <2>2. ver' \in [JobIds -> Nat]
    BY <1>1, <1>3 DEF IInv, TypeOK
  <2>3. call' \in [Callers -> Calls] /\ calls' \in 0..MaxCalls
    BY <1>3, IdleType DEF IInv, TypeOK
  <2>4. QED
    BY <1>4, <2>1, <2>2, <2>3 DEF TypeOK
<1>6. CopyIsCurrent'
  <2> SUFFICES ASSUME NEW e \in Callers, call'[e].at = "put"
               PROVE  /\ call'[e].version <= ver'[call'[e].job]
                      /\ Guard(call'[e].op, call'[e].copy, call'[e].boot)
                      /\ call'[e].version = ver'[call'[e].job] => call'[e].copy = db'[call'[e].job]
    BY DEF CopyIsCurrent, Accepts
  <2>1. e # c /\ call'[e] = call[e]
    BY <1>3, IdleType DEF IInv, TypeOK
  <2>2. /\ call[e].version \in Nat /\ call[e].job \in JobIds
        /\ call[e].version <= ver[call[e].job]
        /\ Guard(call[e].op, call[e].copy, call[e].boot)
        /\ call[e].version = ver[call[e].job] => call[e].copy = db[call[e].job]
    BY <2>1 DEF IInv, TypeOK, Calls, CopyIsCurrent, Accepts
  <2>3. CASE call[e].job = j
    <3>1. ver'[j] = ver[j] + 1
      BY <1>1, <1>3 DEF IInv, TypeOK
    <3>2. QED
      BY <1>1, <2>1, <2>2, <2>3, <3>1
  <2>4. CASE call[e].job # j
    BY <1>3, <2>1, <2>2, <2>4 DEF IInv, TypeOK
  <2>5. QED
    BY <2>3, <2>4
<1>7. PutsExistingRow'
  BY <1>1, <1>2, <1>3, IdleType DEF IInv, TypeOK, Calls, PutsExistingRow
<1>8. QED
  BY <1>5, <1>6, <1>7 DEF IInv

\* A put that loses against a newer revision changes no row and reads again or
\* gives up.
LEMMA PutConflictStep ==
    ASSUME IInv, NEW c \in Callers, PutConflict(c)
    PROVE  IInv'
<1> DEFINE n == IF call[c].attempt + 1 < MAX_RETRIES
                THEN [call[c] EXCEPT !.at = "read", !.copy = NoJob, !.attempt = call[c].attempt + 1]
                ELSE Idle
<1>1. call' = [call EXCEPT ![c] = n] /\ UNCHANGED <<db, ver, calls, wins>>
  BY DEF PutConflict
<1>2. call[c] \in Calls /\ call[c].attempt + 1 \in Nat
  BY DEF IInv, TypeOK, Calls
<1>3. n \in Calls /\ n.at # "put"
  BY <1>2, IdleType DEF Calls
<1>4. QED
  BY <1>1, <1>3 DEF IInv, TypeOK, CopyIsCurrent, PutsExistingRow, Accepts

\* A copy and the row it was read from age together.
LEMMA AgeStep ==
    ASSUME IInv, NEW j \in JobIds, BecomeDue(j) \/ LeaseLapse(j)
    PROVE  IInv'
<1>1. PICK isDue \in BOOLEAN :
         /\ db' = [db EXCEPT ![j] = IF isDue THEN Due(@) ELSE Lapsed(@)]
         /\ call' = [c \in Callers |->
                       IF call[c].at = "put" /\ call[c].job = j
                       THEN [call[c] EXCEPT !.copy = IF isDue THEN Due(@) ELSE Lapsed(@)]
                       ELSE call[c]]
  <2>1. CASE BecomeDue(j)
    BY <2>1 DEF BecomeDue, Aged
  <2>2. CASE LeaseLapse(j)
    BY <2>2 DEF LeaseLapse, Aged
  <2>3. QED
    BY <2>1, <2>2
<1>2. UNCHANGED <<ver, calls, wins>> /\ db[j] \in Docs
  BY DEF BecomeDue, LeaseLapse, Aged, IInv, TypeOK
<1> DEFINE f(d) == IF isDue THEN Due(d) ELSE Lapsed(d)
<1>3. \A d \in Docs : f(d) \in Docs /\ f(d) # NoJob
  BY AgedGuard, JobDocAssumption
<1>4. \A d \in Docs, op \in Ops, b \in Boots : Guard(op, d, b) => Guard(op, f(d), b)
  BY AgedGuard
<1>5. ASSUME NEW c \in Callers, call[c].at = "put", call[c].job = j
      PROVE  /\ call'[c] \in Calls
             /\ call'[c].copy = f(call[c].copy) /\ call[c].copy \in Docs
             /\ call'[c].at = "put" /\ call'[c].job = j /\ call'[c].op = call[c].op
             /\ call'[c].boot = call[c].boot /\ call'[c].version = call[c].version
  <2>1. call'[c] = [call[c] EXCEPT !.copy = f(@)]
    BY <1>1, <1>5
  <2>2. call[c] \in Calls /\ call[c].copy \in Docs
    BY <1>5 DEF IInv, TypeOK, PutsExistingRow
  <2>3. f(call[c].copy) \in Docs
    BY <1>3, <2>2
  <2>4. QED
    BY <1>5, <2>1, <2>2, <2>3 DEF Calls
<1>6. ASSUME NEW c \in Callers, ~(call[c].at = "put" /\ call[c].job = j)
      PROVE  call'[c] = call[c]
  BY <1>1, <1>6
<1>7. \A i \in JobIds : db'[i] = IF i = j THEN f(db[j]) ELSE db[i]
  BY <1>1 DEF IInv, TypeOK
<1>8. TypeOK'
  <2>1. db' \in [JobIds -> Docs \cup {NoJob}]
    BY <1>1, <1>2, <1>3 DEF IInv, TypeOK
  <2>2. \A c \in Callers : call'[c] \in Calls
    BY <1>5, <1>6 DEF IInv, TypeOK
  <2>3. call' \in [Callers -> Calls]
    BY <1>1, <2>2
  <2>4. QED
    BY <1>2, <2>1, <2>3 DEF IInv, TypeOK
<1>9. CopyIsCurrent' /\ PutsExistingRow'
  <2> SUFFICES ASSUME NEW c \in Callers, call'[c].at = "put"
               PROVE  /\ call'[c].version <= ver'[call'[c].job]
                      /\ Guard(call'[c].op, call'[c].copy, call'[c].boot)
                      /\ call'[c].version = ver'[call'[c].job] => call'[c].copy = db'[call'[c].job]
                      /\ db'[call'[c].job] # NoJob /\ call'[c].copy \in Docs
    BY DEF CopyIsCurrent, PutsExistingRow, Accepts
  <2>1. call[c].at = "put" /\ call[c] \in Calls
    BY <1>5, <1>6 DEF IInv, TypeOK
  <2>2. /\ call[c].version <= ver[call[c].job]
        /\ Guard(call[c].op, call[c].copy, call[c].boot)
        /\ call[c].version = ver[call[c].job] => call[c].copy = db[call[c].job]
        /\ db[call[c].job] # NoJob /\ call[c].copy \in Docs
    BY <2>1 DEF IInv, CopyIsCurrent, PutsExistingRow, Accepts
  <2>3. CASE call[c].job = j
    BY <1>2, <1>3, <1>4, <1>5, <1>7, <2>1, <2>2, <2>3 DEF Calls
  <2>4. CASE call[c].job # j
    BY <1>2, <1>6, <1>7, <2>1, <2>2, <2>4 DEF Calls
  <2>5. QED
    BY <2>3, <2>4
<1>10. QED
  BY <1>8, <1>9 DEF IInv

\* Every step of the optimistic store keeps the inductive invariant.
LEMMA IInvStep == IInv /\ [Next]_occVars => IInv'
<1>1. SUFFICES ASSUME IInv, [Next]_occVars
               PROVE  IInv'
  OBVIOUS
<1>2. CASE \E j \in JobIds, info \in Infos, due \in BOOLEAN : Create(j, info, due)
  BY <1>1, <1>2, CreateStep
<1>3. CASE \E c \in Callers, op \in Ops, j \in JobIds, b \in Boots : Begin(c, op, j, b)
  BY <1>1, <1>3, BeginStep
<1>4. CASE \E c \in Callers : Step(c)
  BY <1>1, <1>4, ReadStep, PutOkStep, PutConflictStep DEF Step
<1>5. CASE \E j \in JobIds : BecomeDue(j) \/ LeaseLapse(j)
  BY <1>1, <1>5, AgeStep
<1>6. CASE UNCHANGED occVars
  BY <1>1, <1>6 DEF occVars, IInv, TypeOK, CopyIsCurrent, PutsExistingRow, Accepts
<1>7. QED
  BY <1>1, <1>2, <1>3, <1>4, <1>5, <1>6 DEF Next

\* So it holds of every execution.
LEMMA IInvAlways == Spec => []IInv
BY IInvInit, IInvStep, PTL DEF Spec

\* A copy whose version is still the row's version is the row itself, and the
\* guard under which it was read still holds: no put acts on stale data.
THEOREM NoStalePut == Spec => []CopyIsCurrent
<1>1. IInv => CopyIsCurrent
  BY DEF IInv
<1>2. QED
  BY <1>1, IInvAlways, PTL

\* The put of each operation is that operation's atomic step.
LEMMA PutOkRefines ==
    ASSUME IInv, NEW c \in Callers, PutOk(c)
    PROVE  Store!Next
<1> DEFINE k == call[c]
           j == k.job
<1>1. /\ j \in JobIds /\ k.boot \in Boots /\ k.op \in Ops
      /\ db[j] # NoJob
      /\ k.copy = db[j]
      /\ Guard(k.op, db[j], k.boot)
      /\ db' = [db EXCEPT ![j] = Updated(k.op, db[j], k.boot)]
  BY DEF IInv, TypeOK, Calls, CopyIsCurrent, PutsExistingRow, PutOk
<1>2. CASE k.op = "claim"
  <2>1. Store!Claim(j, k.boot)
    BY <1>1, <1>2 DEF Guard, Updated, Store!Claim, Store!Exists, Store!Write,
                      Store!Claimable, Store!Claimed,
                      Claimable, Claimed
  <2>2. QED
    BY <1>1, <2>1 DEF Store!Next
<1>3. CASE k.op = "renew"
  <2>1. Store!RenewLease(j, k.boot)
    BY <1>1, <1>3 DEF Guard, Updated, Store!RenewLease, Store!Exists, Store!Write,
                      Store!Owned, Store!Renewed,
                      Owned, Renewed
  <2>2. QED
    BY <1>1, <2>1 DEF Store!Next
<1>4. CASE k.op = "complete"
  <2>1. Store!Complete(j, k.boot)
    BY <1>1, <1>4 DEF Guard, Updated, Store!Complete, Store!Exists, Store!Write,
                      Store!Owned, Store!Completed, Store!Released,
                      Owned, Completed, Released
  <2>2. QED
    BY <1>1, <2>1 DEF Store!Next
<1>5. CASE k.op = "fail"
  <2>1. Store!Fail(j, k.boot)
    BY <1>1, <1>5 DEF Guard, Updated, Store!Fail, Store!Exists, Store!Write,
                      Store!Owned, Store!Failed, Store!Released,
                      Owned, Failed, Released
  <2>2. QED
    BY <1>1, <2>1 DEF Store!Next
<1>6. CASE k.op = "failOrRetry"
  <2>1. Store!FailOrRetry(j, k.boot)
    BY <1>1, <1>6 DEF Guard, Updated, Store!FailOrRetry, Store!Exists, Store!Write,
                      Store!Owned, Store!FailedOrRetried, Store!Released,
                      Owned, FailedOrRetried, Released
  <2>2. QED
    BY <1>1, <2>1 DEF Store!Next
<1>7. CASE k.op = "reclaim"
  <2>1. Store!Reclaim(j, FALSE)
    BY <1>1, <1>7 DEF Guard, Updated, Store!Reclaim, Store!Exists, Store!Write,
                      Store!Reclaimable, Store!Reclaimed, Store!Released,
                      Reclaimable, Reclaimed, Released
  <2>2. QED
    BY <1>1, <2>1 DEF Store!Next
<1>8. CASE k.op = "forceReclaim"
  <2>1. Store!Reclaim(j, TRUE)
    BY <1>1, <1>8 DEF Guard, Updated, Store!Reclaim, Store!Exists, Store!Write,
                      Store!Reclaimable, Store!Reclaimed, Store!Released,
                      Reclaimable, Reclaimed, Released
  <2>2. QED
    BY <1>1, <2>1 DEF Store!Next
<1>9. CASE k.op = "cancel"
  <2>1. Store!Cancel(j)
    BY <1>1, <1>9 DEF Guard, Updated, Store!Cancel, Store!Exists, Store!Write,
                      Store!Cancellable, Store!Cancelled, Store!Released,
                      Cancellable, Cancelled, Released
  <2>2. QED
    BY <1>1, <2>1 DEF Store!Next
<1>10. QED
  BY <1>1, <1>2, <1>3, <1>4, <1>5, <1>6, <1>7, <1>8, <1>9 DEF Ops

\* Every step of the loops is a step of the atomic store or leaves the rows
\* alone, so every guarantee of JobStore holds of the interleaved program.
THEOREM Implements == Spec => ImplementsStore
<1>1. Init => Store!Init
  BY DEF Init, Store!Init
<1>2. ASSUME IInv, [Next]_occVars
      PROVE  [Store!Next]_db
  <2>1. ASSUME NEW j \in JobIds, NEW info \in Infos, NEW due \in BOOLEAN, Create(j, info, due)
        PROVE  Store!Next
    <3>1. Store!Create(j, info, due)
      BY <2>1 DEF Create, Store!Create, Store!Exists, Store!Write, NewDoc, Store!NewDoc
    <3>2. QED
      BY <3>1 DEF Store!Next
  <2>2. ASSUME NEW c \in Callers, Step(c)
        PROVE  [Store!Next]_db
    BY <1>2, <2>2, PutOkRefines DEF Step, Read, PutConflict
  <2>3. ASSUME NEW j \in JobIds, BecomeDue(j) \/ LeaseLapse(j)
        PROVE  Store!Next
    <3>1. Store!BecomeDue(j) \/ Store!LeaseLapse(j)
      BY <1>2, <2>3 DEF BecomeDue, LeaseLapse, Aged, Due, Lapsed, Store!BecomeDue,
                        Store!LeaseLapse, Store!Exists, Store!Write
    <3>2. QED
      BY <3>1 DEF Store!Next
  <2>4. QED
    BY <1>2, <2>1, <2>2, <2>3 DEF Next, Begin, occVars
<1>3. QED
  BY <1>1, <1>2, IInvAlways, PTL DEF Spec, ImplementsStore, Store!Spec

-----------------------------------------------------------------------------
\* Only a claim counts a start.
LEMMA UpdatedAttempts ==
    ASSUME NEW op \in Ops, NEW d \in Docs, NEW b \in Boots
    PROVE  Updated(op, d, b).attempts = IF op = "claim" THEN d.attempts + 1 ELSE d.attempts
BY DEF Updated, Ops, Docs, Claimed, Renewed, Completed, Failed, FailedOrRetried, Reclaimed,
       Cancelled, Released

\* Among callers that claim one start of a row, no second one is ever told it
\* won.
LEMMA OneWinnerStep == IInv /\ OneWinnerPerStart /\ [Next]_occVars => OneWinnerPerStart'
<1>1. SUFFICES ASSUME IInv, OneWinnerPerStart, [Next]_occVars
               PROVE  OneWinnerPerStart'
  OBVIOUS
<1>2. ASSUME NEW j \in JobIds, NEW info \in Infos, NEW due \in BOOLEAN, Create(j, info, due)
      PROVE  OneWinnerPerStart'
  <2>1. NewDoc(info, due) # NoJob /\ NewDoc(info, due).attempts = 0
    BY NewDocType, JobDocAssumption DEF NewDoc
  <2>2. QED
    BY <1>1, <1>2, <2>1 DEF IInv, TypeOK, OneWinnerPerStart, Create
<1>3. ASSUME NEW c \in Callers, PutOk(c)
      PROVE  OneWinnerPerStart'
  <2> DEFINE k == call[c]
             j == k.job
             n == Updated(k.op, db[j], k.boot)
  <2>1. /\ j \in JobIds /\ k.op \in Ops /\ k.boot \in Boots
        /\ db[j] \in Docs /\ db[j] # NoJob /\ k.copy = db[j]
    BY <1>1, <1>3 DEF IInv, TypeOK, Calls, CopyIsCurrent, PutsExistingRow, PutOk
  <2>2. n \in Docs /\ n # NoJob
    BY <2>1, UpdatedType, JobDocAssumption
  <2>3. /\ db' = [db EXCEPT ![j] = n]
        /\ wins' = [wins EXCEPT ![j] = IF k.op = "claim" THEN wins[j] + 1 ELSE wins[j]]
    BY <1>3, <2>1 DEF PutOk
  <2>4. n.attempts = IF k.op = "claim" THEN db[j].attempts + 1 ELSE db[j].attempts
    BY <2>1, UpdatedAttempts
  <2>5. /\ db'[j] = n
        /\ wins'[j] = IF k.op = "claim" THEN wins[j] + 1 ELSE wins[j]
        /\ \A i \in JobIds \ {j} : db'[i] = db[i] /\ wins'[i] = wins[i]
    BY <1>1, <2>1, <2>3 DEF IInv, TypeOK
  <2>6. wins[j] = db[j].attempts
    BY <1>1, <2>1 DEF OneWinnerPerStart
  <2>7. QED
    BY <1>1, <2>1, <2>2, <2>4, <2>5, <2>6 DEF OneWinnerPerStart
<1>4. ASSUME NEW j \in JobIds, BecomeDue(j) \/ LeaseLapse(j)
      PROVE  OneWinnerPerStart'
  <2>1. PICK d \in Docs : db' = [db EXCEPT ![j] = d] /\ d.attempts = db[j].attempts
    <3>1. db[j] \in Docs
      BY <1>1, <1>4 DEF IInv, TypeOK, BecomeDue, LeaseLapse
    <3>2. /\ Due(db[j]) \in Docs /\ Due(db[j]).attempts = db[j].attempts
          /\ Lapsed(db[j]) \in Docs /\ Lapsed(db[j]).attempts = db[j].attempts
      BY <3>1, AgedGuard DEF Due, Lapsed, Docs
    <3>3. CASE BecomeDue(j)
      BY <3>2, <3>3 DEF BecomeDue, Aged
    <3>4. CASE LeaseLapse(j)
      BY <3>2, <3>4 DEF LeaseLapse, Aged
    <3>5. QED
      BY <1>4, <3>3, <3>4
  <2>2. wins' = wins /\ db[j] # NoJob /\ d # NoJob
    BY <1>4, JobDocAssumption DEF BecomeDue, LeaseLapse, Aged
  <2>3. QED
    BY <1>1, <2>1, <2>2 DEF IInv, TypeOK, OneWinnerPerStart
<1>5. CASE UNCHANGED <<db, wins>>
  BY <1>1, <1>5 DEF OneWinnerPerStart
<1>6. ASSUME NEW c \in Callers, Step(c)
      PROVE  OneWinnerPerStart'
  BY <1>3, <1>5, <1>6 DEF Step, Read, PutConflict
<1>7. QED
  BY <1>1, <1>2, <1>4, <1>5, <1>6 DEF Next, Begin, occVars

\* However many callers race, each start of a job is handed to exactly one of
\* them.
THEOREM OneWinner == Spec => []OneWinnerPerStart
<1>1. Init => OneWinnerPerStart
  BY DEF Init, OneWinnerPerStart
<1>2. QED
  BY <1>1, IInvAlways, OneWinnerStep, PTL DEF Spec

\* No accepted put is stale and no start has two winners.
THEOREM NoStaleWinners == Spec => []NoStaleWinner
BY NoStalePut, OneWinner, PTL DEF NoStaleWinner
=============================================================================
