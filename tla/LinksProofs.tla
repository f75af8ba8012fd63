----------------------------- MODULE LinksProofs -----------------------------
(***************************************************************************)
(* Safety of the three parts MCLinks explores, for any number of           *)
(* delegations, syncs, calls, tasks and workers and for any limits, and of *)
(* the pool of tool workers, for any batches, calls and number of workers. *)
(*                                                                         *)
(* The MCP server: as long as nothing happens that LeaseHonored excepts,   *)
(* one actor at a time connects or closes (Alone), and a lease, or a       *)
(* delegation about to store one, means a connected server (Leased), so    *)
(* that nobody has to connect a server in use.  Seats says where actors    *)
(* may be.  The exceptions are never forgotten, hence the premise Calm is  *)
(* true of every state before one of which it is true.                     *)
(*                                                                         *)
(* The circuit breaker: the counter of the code and the probes that are    *)
(* really in flight differ by the strays; the bound holds because strays   *)
(* are successes.                                                          *)
(*                                                                         *)
(* The worker pool: idle and busy share the workers and busy workers and   *)
(* running tasks belong to each other (Manned); the loop keeps the         *)
(* promises of the first Concurrency - 1 tasks and of the newest           *)
(* (Expected), so that whatever came after the first has ended unless one  *)
(* of them has (Awaited).                                                  *)
(*                                                                         *)
(* The pool of tool workers: distinct calls sit in distinct places of the  *)
(* queue and the slots (Pool), and a call has a place exactly while its    *)
(* batch waits for it (ToolInv).  What drain() does to such a pool is      *)
(* DrainFacts, by counting the free places before a place (Rank); what an  *)
(* abort takes out is WithoutLeft.                                         *)
(***************************************************************************)
EXTENDS McpLinks, CircuitBreaker, WorkerPool, ToolWorkerPool, FiniteSetTheorems, SequenceTheorems, TLAPS

(* The MCP server *)

\* Nothing happened that LeaseHonored excepts.
Calm == upset \cap {"overlap", "late", "toggled"} = {}
Using == Held \cup Leaked

Seat == [at : {"idle", "row", "connect", "lease", "held", "leaked", "refused", "gone",
               "check", "config", "again", "close", "end"},
         next : {"idle", "lease", "again", "end"},
         gen : Nat, client : Nat, saw : BOOLEAN]

\* Where an actor may be, and what it carries, while the row is on.
Suits(a, r) ==
    /\ a \in Holders =>
          /\ r.at \in {"idle", "row", "connect", "lease", "held", "leaked", "refused", "gone"}
          /\ r.at = "connect" => r.next = "lease"
    /\ a \in Syncs =>
          /\ r.at \in {"idle", "check", "config", "connect", "again", "end"}
          /\ r.at # "idle" => r.saw = TRUE
          /\ r.at = "connect" => r.next \in {"again", "end"}
    /\ a = "timer" => r.at \in {"idle", "close"}
    /\ a = "turn" => r.at \in {"idle", "connect"} /\ r.next = "idle"

Seats ==
    /\ enabled = TRUE
    /\ act \in [Actors -> Seat]
    /\ \A a \in Actors : Suits(a, act[a])

Server == [known : BOOLEAN, gen : Nat, client : Nat, tools : BOOLEAN,
           status : {"disconnected", "connecting", "connected", "error"}]

\* One connects or closes at a time; while somebody connects, that is what the
\* server is doing.
Alone ==
    /\ srv \in Server
    /\ \A a, b \in Actors :
          act[a].at \in {"connect", "close"} /\ act[b].at \in {"connect", "close"} => a = b
    /\ \A a \in Actors : act[a].at = "connect" =>
          srv.known /\ srv.status = "connecting" /\ act[a].gen = srv.gen

LeaseType == [refs : Nat, timer : BOOLEAN, here : BOOLEAN]

\* A lease, or a delegation about to store one, means a connected server; the
\* timer only closes it when nobody uses it.
Leased ==
    /\ lease \in LeaseType
    /\ lease.here => Connected
    /\ lease.refs > 0 => lease.here
    /\ \A h \in Holders : act[h].at = "lease" => Connected
    /\ act["timer"].at = "close" =>
          lease.here /\ lease.refs = 0 /\ \A h \in Holders : act[h].at # "lease"
    /\ IsFiniteSet(Using) /\ lease.refs = Cardinality(Using)

Orderly == Seats /\ Alone /\ Leased
McpInv == Calm => Orderly

\* Who is who.
LEMMA Kinds ==
    /\ \A h \in Holders : h \in Actors /\ h \notin Syncs /\ h # "timer" /\ h # "turn"
    /\ \A s \in Syncs : s \in Actors /\ s \notin Holders /\ s # "timer" /\ s # "turn"
    /\ "timer" \in Actors /\ "timer" \notin Holders \cup Syncs
    /\ "turn" \in Actors /\ "turn" \notin Holders \cup Syncs
    /\ \A a \in Actors : a \in Holders \/ a \in Syncs \/ a = "timer" \/ a = "turn"
BY McpLinksAssumption DEF McpLinksAssumption, Actors

\* The parts of a lease.
LEMMA LeaseParts ==
    ASSUME NEW l \in LeaseType
    PROVE  l.refs \in Nat /\ l.timer \in BOOLEAN /\ l.here \in BOOLEAN
BY DEF LeaseType

\* Counting and arming the timer leave a lease where it is.
LEMMA LeaseFields ==
    ASSUME NEW l \in LeaseType, NEW n \in Nat, NEW t \in BOOLEAN
    PROVE  /\ [l EXCEPT !.refs = n, !.timer = t] \in LeaseType
           /\ [l EXCEPT !.refs = n, !.timer = t].refs = n
           /\ [l EXCEPT !.refs = n, !.timer = t].here = l.here
           /\ [l EXCEPT !.refs = n] \in LeaseType
           /\ [l EXCEPT !.refs = n].refs = n
           /\ [l EXCEPT !.refs = n].here = l.here
           /\ [l EXCEPT !.timer = t] \in LeaseType
           /\ [l EXCEPT !.timer = t].refs = l.refs
           /\ [l EXCEPT !.timer = t].here = l.here
<1>1. PICK a : a = [l EXCEPT !.refs = n, !.timer = t]
  OBVIOUS
<1>2. PICK b : b = [l EXCEPT !.refs = n]
  OBVIOUS
<1>3. PICK c : c = [l EXCEPT !.timer = t]
  OBVIOUS
<1>4. a \in LeaseType /\ a.refs = n /\ a.here = l.here
  BY <1>1 DEF LeaseType
<1>5. b \in LeaseType /\ b.refs = n /\ b.here = l.here
  BY <1>2 DEF LeaseType
<1>6. c \in LeaseType /\ c.refs = l.refs /\ c.here = l.here
  BY <1>3 DEF LeaseType
<1> QED
  BY <1>1, <1>2, <1>3, <1>4, <1>5, <1>6

\* Nothing that upset the peace is ever forgotten, but that a preparation failed.
LEMMA CalmBefore == McpNext /\ Calm' => Calm
<1>1. McpNext => upset \ {"unprepared"} \subseteq upset'
  <2>1. \A a \in Actors : ConnectOk(a) \/ ConnectFails(a) => upset' = upset
    BY DEF ConnectOk, ConnectFails
  <2>2. ASSUME NEW a, NEW s, NEW n, StartConnect(a, s, n) PROVE upset \ {"unprepared"} \subseteq upset'
    BY <2>2 DEF StartConnect
  <2>3. ASSUME NEW h, Delegation(h) PROVE upset \ {"unprepared"} \subseteq upset'
    BY <2>2, <2>3 DEF Delegation, Ask, Acquire, StoreLease, Leak, Release
  <2>4. ASSUME NEW s, Scan(s) \/ SyncStep(s) PROVE upset \ {"unprepared"} \subseteq upset'
    BY <2>2, <2>4 DEF Scan, SyncStep, Check, PrepareFails, Configure, ConnectAgain, RemoveServer, EndSync
  <2>5. Toggle \/ Timer \/ Wake => upset \ {"unprepared"} \subseteq upset'
    BY <2>2 DEF Toggle, Timer, Expire, DropLease, Wake
  <2> QED
    BY <2>1, <2>3, <2>4, <2>5 DEF McpNext, Connecting
<1> QED
  BY <1>1 DEF Calm

\* A step of one actor that neither connects nor holds anything, before or after:
\* only one about to store a lease needs a server.
LEMMA Walks ==
    ASSUME Orderly, NEW a \in Actors,
           act[a].at \notin {"connect", "close", "held", "leaked"},
           act' \in [Actors -> Seat], \A b \in Actors : b # a => act'[b] = act[b],
           act'[a].at \notin {"connect", "close", "held", "leaked"},
           Suits(a, act'[a]),
           act'[a].at = "lease" => Connected /\ ~lease.here,
           enabled' = enabled, srv' = srv, lease' = lease
    PROVE  Orderly'
<1>1. Seats'
  BY DEF Orderly, Seats
<1>2. Alone'
  BY DEF Orderly, Alone
<1>3. Using' = Using
  BY Kinds DEF Using, Held, Leaked, At
<1>4. Leased'
  <2>1. act'["timer"].at = "close" => act["timer"].at = "close"
    BY Kinds
  <2>2. \A h \in Holders : act'[h].at = "lease" => act[h].at = "lease" \/ (Connected /\ ~lease.here)
    BY Kinds
  <2> QED
    BY <1>3, <2>1, <2>2 DEF Orderly, Leased, Connected
<1> QED
  BY <1>1, <1>2, <1>4 DEF Orderly

\* connectServer begins: nobody else connects or closes, and since the server is
\* not connected nobody has a lease of it.
LEMMA Begins ==
    ASSUME Orderly, NEW a \in Actors,
           act[a].at \notin {"connect", "close", "held", "leaked"},
           \A b \in Actors : b # a => act[b].at \notin {"connect", "close"},
           ~Connected,
           act' \in [Actors -> Seat], \A b \in Actors : b # a => act'[b] = act[b],
           act'[a].at = "connect", Suits(a, act'[a]),
           srv' \in Server, srv'.known, srv'.status = "connecting", act'[a].gen = srv'.gen,
           enabled' = enabled, lease' = lease
    PROVE  Orderly'
<1>1. Seats'
  BY DEF Orderly, Seats
<1>2. Alone'
  BY DEF Orderly, Alone
<1>3. Using' = Using
  BY Kinds DEF Using, Held, Leaked, At
<1>4. Leased'
  <2>1. ~lease.here /\ \A h \in Holders : act[h].at # "lease"
    BY DEF Orderly, Leased
  <2>2. act'["timer"].at # "close"
    BY Kinds
  <2>3. \A h \in Holders : act'[h].at # "lease"
    BY Kinds, <2>1
  <2> QED
    BY <1>3, <2>1, <2>2, <2>3 DEF Orderly, Leased
<1> QED
  BY <1>1, <1>2, <1>4 DEF Orderly

\* connectServer up to its await, for a caller that holds nothing.
LEMMA StartGood ==
    ASSUME Orderly, Calm', NEW a \in Actors,
           act[a].at \notin {"connect", "close", "held", "leaked"},
           NEW n \in {"idle", "lease", "again", "end"},
           a \in Holders => n = "lease" /\ ~lease.here,
           a \in Syncs => n \in {"again", "end"} /\ act[a].saw = TRUE,
           a = "turn" => n = "idle", a # "timer",
           NEW s \in Server, s = srv \/ (~srv.known /\ s.known /\ s.status # "connected"),
           StartConnect(a, s, n), enabled' = enabled, lease' = lease
    PROVE  Orderly'
<1>1. act \in [Actors -> Seat]
  BY DEF Orderly, Seats
<1>2. CASE s.known /\ s.status # "connected"
  <2>1. /\ srv' = [s EXCEPT !.status = "connecting"]
        /\ act' = [act EXCEPT ![a] = [@ EXCEPT !.at = "connect", !.next = n, !.gen = s.gen]]
        /\ (\E b \in Actors \ {a} : act[b].at \in {"connect", "close"}) => "overlap" \in upset'
    BY <1>2 DEF StartConnect
  <2>2. \A b \in Actors : b # a => act[b].at \notin {"connect", "close"}
    BY <2>1 DEF Calm
  <2>3. srv' \in Server /\ srv'.known /\ srv'.status = "connecting" /\ srv'.gen = s.gen
    BY <1>2, <2>1 DEF Server
  <2>4. act' \in [Actors -> Seat]
    BY <1>1, <2>1, ZenonT(30) DEF Seat, Server
  <2>5. act'[a] = [act[a] EXCEPT !.at = "connect", !.next = n, !.gen = s.gen]
    BY <1>1, <2>1
  <2>6. act'[a].at = "connect" /\ act'[a].next = n /\ act'[a].gen = s.gen /\ act'[a].saw = act[a].saw
    BY <1>1, <2>5 DEF Seat
  <2>7. \A b \in Actors : b # a => act'[b] = act[b]
    BY <1>1, <2>1
  <2>8. Suits(a, act'[a])
    BY <2>6, Kinds DEF Suits
  <2>9. ~Connected
    BY <1>2 DEF Connected
  <2> QED
    BY <2>2, <2>3, <2>4, <2>6, <2>7, <2>8, <2>9, Begins
<1>3. CASE ~(s.known /\ s.status # "connected")
  <2>1. PICK x : x = IF s.known THEN n ELSE AfterError(a, n)
    OBVIOUS
  <2>2. /\ act' = [act EXCEPT ![a] = [@ EXCEPT !.at = x]] /\ srv' = srv /\ s = srv
    BY <1>3, <2>1 DEF StartConnect, Goto
  <2>3. /\ a \in Holders => x \in {"lease", "refused"}
        /\ a \in Syncs => x \in {"again", "end"}
        /\ a = "turn" => x = "idle"
        /\ x = "lease" => Connected /\ ~lease.here
    BY <1>3, <2>1, <2>2, Kinds DEF AfterError, Connected
  <2>4. x \in {"idle", "lease", "again", "end", "refused"}
    BY <2>3, Kinds
  <2>5. act' \in [Actors -> Seat]
    BY <1>1, <2>2, <2>4 DEF Seat
  <2>6. act'[a].at = x /\ act'[a].next = act[a].next /\ act'[a].saw = act[a].saw
    BY <1>1, <2>2 DEF Seat
  <2>7. \A b \in Actors : b # a => act'[b] = act[b]
    BY <1>1, <2>2
  <2>8. Suits(a, act'[a])
    BY <2>3, <2>6, Kinds DEF Suits, Orderly, Seats
  <2> QED
    BY <2>2, <2>3, <2>4, <2>5, <2>6, <2>7, <2>8, Walks
<1> QED
  BY <1>2, <1>3

\* A connect comes to an end: only who connects was connecting, so that nobody
\* has a lease that a failure could break.
LEMMA ConnectedGood ==
    ASSUME Orderly, NEW a \in Actors, ConnectOk(a) \/ ConnectFails(a)
    PROVE  Orderly'
<1>1. /\ act \in [Actors -> Seat] /\ srv \in Server /\ act[a].at = "connect" /\ act[a] \in Seat
      /\ act[a].gen = srv.gen /\ srv.known /\ srv.status = "connecting"
  BY DEF Orderly, Seats, Alone, ConnectOk, ConnectFails, At
<1>2. PICK x : x = IF ConnectOk(a) THEN act[a].next ELSE AfterError(a, act[a].next)
  OBVIOUS
<1>3. /\ act' = [act EXCEPT ![a] = [Rest EXCEPT !.at = x, !.saw = act[a].saw]]
      /\ UNCHANGED <<enabled, lease>>
  <2>1. CASE ConnectOk(a)
    BY <1>2, <2>1 DEF ConnectOk
  <2>2. CASE ~ConnectOk(a)
    BY <1>2, <2>2 DEF ConnectFails
  <2> QED
    BY <2>1, <2>2
<1>4. /\ a \in Holders => x \in {"lease", "refused"} /\ (x = "lease" => ConnectOk(a))
      /\ a \in Syncs => x \in {"again", "end"}
      /\ a = "turn" => x = "idle"
      /\ a # "timer"
  BY <1>1, <1>2, Kinds DEF Orderly, Seats, Suits, AfterError
<1>5. x \in {"lease", "refused", "again", "end", "idle"}
  BY <1>4, Kinds
<1>6. /\ act' \in [Actors -> Seat] /\ \A b \in Actors : b # a => act'[b] = act[b]
      /\ act'[a].at = x /\ act'[a].saw = act[a].saw /\ act'[a].next = "idle"
  BY <1>1, <1>3, <1>5 DEF Seat, Rest
<1>7. Suits(a, act'[a])
  BY <1>1, <1>4, <1>6, Kinds DEF Suits, Orderly, Seats
<1>8. Seats'
  BY <1>3, <1>6, <1>7 DEF Orderly, Seats
<1>9. /\ srv' \in Server /\ (ConnectOk(a) => srv'.known /\ srv'.status = "connected")
  <2>1. CASE ConnectOk(a)
    <3>1. PICK c \in 1..MaxOpen : srv' = [srv EXCEPT !.client = c, !.status = "connected", !.tools = TRUE]
      BY <1>1, <2>1 DEF ConnectOk
    <3>2. c \in Nat
      BY McpLinksAssumption DEF McpLinksAssumption
    <3> QED
      BY <1>1, <3>1, <3>2 DEF Server
  <2>2. CASE ~ConnectOk(a)
    <3>1. srv' = [srv EXCEPT !.status = "error"]
      BY <1>1, <2>2 DEF ConnectFails
    <3> QED
      BY <1>1, <2>2, <3>1 DEF Server
  <2> QED
    BY <2>1, <2>2
<1>10. \A b \in Actors : act'[b].at \notin {"connect", "close"}
  BY <1>1, <1>5, <1>6 DEF Orderly, Alone
<1>11. Alone'
  BY <1>9, <1>10 DEF Alone
<1>12. ~lease.here /\ \A h \in Holders : act[h].at # "lease"
  BY <1>1 DEF Orderly, Leased, Connected
<1>13. Using' = Using
  BY <1>1, <1>5, <1>6, Kinds DEF Using, Held, Leaked, At
<1>14. Leased'
  <2>1. \A h \in Holders : act'[h].at = "lease" => Connected'
    BY <1>4, <1>6, <1>9, <1>12, Kinds DEF Connected
  <2>2. act'["timer"].at # "close"
    BY <1>10, Kinds
  <2> QED
    BY <1>3, <1>12, <1>13, <2>1, <2>2 DEF Orderly, Leased
<1> QED
  BY <1>8, <1>11, <1>14 DEF Orderly

\* A delegation takes, stores, loses and gives back its lease.
LEMMA DelegationGood ==
    ASSUME Orderly, Calm', NEW h \in Holders, Delegation(h)
    PROVE  Orderly'
<1>1. /\ act \in [Actors -> Seat] /\ srv \in Server /\ h \in Actors /\ act[h] \in Seat
      /\ enabled = TRUE /\ Suits(h, act[h]) /\ h \notin Syncs /\ h # "timer" /\ h # "turn"
  BY Kinds DEF Orderly, Seats, Alone
<1>2. ASSUME NEW x \in {"row", "lease", "held", "leaked", "refused", "gone"}, Goto(h, x)
      PROVE  /\ act' \in [Actors -> Seat] /\ \A b \in Actors : b # h => act'[b] = act[b]
             /\ act'[h].at = x /\ Suits(h, act'[h])
  <2>1. /\ act' \in [Actors -> Seat] /\ \A b \in Actors : b # h => act'[b] = act[b]
        /\ act'[h].at = x
    BY <1>1, <1>2 DEF Goto, Seat
  <2> QED
    BY <1>1, <2>1 DEF Suits
<1>3. ASSUME NEW x \in {"held", "leaked", "gone"}, Goto(h, x), act[h].at \notin {"connect", "close"},
             UNCHANGED <<enabled, srv>>
      PROVE  Seats' /\ Alone'
  <2>1. /\ act' \in [Actors -> Seat] /\ \A b \in Actors : b # h => act'[b] = act[b]
        /\ act'[h].at = x /\ Suits(h, act'[h])
    BY <1>2, <1>3
  <2>2. Seats'
    BY <1>3, <2>1 DEF Orderly, Seats
  <2>3. \A b \in Actors : act'[b].at \in {"connect", "close"} => act'[b] = act[b]
    BY <2>1
  <2>4. Alone'
    BY <1>3, <2>3 DEF Orderly, Alone
  <2> QED
    BY <2>2, <2>4
<1>4. CASE Ask(h)
  <2>1. act[h].at = "idle" /\ Goto(h, "row") /\ UNCHANGED <<enabled, srv, lease>>
    BY <1>4 DEF Ask, At
  <2> QED
    BY <1>1, <1>2, <2>1, Walks
<1>5. CASE Acquire(h)
  <2>1. act[h].at = "row" /\ enabled' = enabled
    BY <1>5 DEF Acquire, At
  <2>2. CASE lease.here
    <3>1. /\ lease' = [lease EXCEPT !.refs = @ + 1, !.timer = FALSE] /\ Goto(h, "held")
          /\ upset' = (IF At("timer", "close") THEN upset \cup {"late"} ELSE upset) /\ srv' = srv
      BY <1>1, <1>5, <2>2 DEF Acquire
    <3>2. act["timer"].at # "close"
      BY <3>1 DEF Calm, At
    <3>3. Seats' /\ Alone'
      BY <1>3, <2>1, <3>1
    <3>4. /\ act'[h].at = "held" /\ \A b \in Actors : b # h => act'[b] = act[b]
      BY <1>2, <3>1
    <3>5. /\ lease'.refs = lease.refs + 1 /\ lease'.here
          /\ lease' \in LeaseType
      <4>1. lease \in LeaseType
        BY DEF Orderly, Leased
      <4>2. PICK n : n = lease.refs + 1
        OBVIOUS
      <4>3. n \in Nat
        BY <4>1, <4>2, LeaseParts
      <4>4. lease' = [lease EXCEPT !.refs = n, !.timer = FALSE]
        BY <3>1, <4>2
      <4>5. lease' \in LeaseType /\ lease'.refs = n /\ lease'.here = lease.here
        BY <4>1, <4>3, <4>4, LeaseFields
      <4> QED
        BY <2>2, <4>2, <4>5
    <3>6. Using' = Using \cup {h} /\ h \notin Using
      BY <2>1, <3>4, Kinds DEF Using, Held, Leaked, At
    <3>7. IsFiniteSet(Using') /\ Cardinality(Using') = Cardinality(Using) + 1
      BY <3>6, FS_AddElement DEF Orderly, Leased
    <3>8. act'["timer"].at # "close"
      BY <1>1, <3>2, <3>4, Kinds
    <3>9. \A g \in Holders : act'[g].at = "lease" => act[g].at = "lease"
      BY <3>4, Kinds
    <3> QED
      BY <2>2, <3>1, <3>3, <3>5, <3>7, <3>8, <3>9 DEF Orderly, Leased, Connected
  <2>3. CASE ~lease.here
    <3>1. StartConnect(h, srv, "lease") /\ lease' = lease
      BY <1>1, <1>5, <2>3 DEF Acquire
    <3> QED
      BY <1>1, <2>1, <2>3, <3>1, StartGood
  <2> QED
    BY <2>2, <2>3
<1>6. CASE StoreLease(h)
  <2>1. /\ act[h].at = "lease" /\ lease' = [refs |-> 1, timer |-> FALSE, here |-> TRUE]
        /\ upset' = (IF lease.here THEN upset \cup {"overlap"} ELSE upset) /\ Goto(h, "held")
        /\ UNCHANGED <<enabled, srv>>
    BY <1>6 DEF StoreLease, At
  <2>2. ~lease.here
    BY <2>1 DEF Calm
  <2>3. Connected /\ act["timer"].at # "close"
    BY <2>1, <2>2 DEF Orderly, Leased
  <2>4. Using = {}
    <3>1. lease.refs = 0
      BY <2>2, LeaseParts DEF Orderly, Leased
    <3> QED
      BY <3>1, FS_EmptySet DEF Orderly, Leased
  <2>5. Seats' /\ Alone'
    BY <1>3, <2>1
  <2>6. act'[h].at = "held" /\ \A b \in Actors : b # h => act'[b] = act[b]
    BY <1>2, <2>1
  <2>7. Using' = {h}
    BY <2>4, <2>6, Kinds DEF Using, Held, Leaked, At
  <2>8. IsFiniteSet(Using') /\ Cardinality(Using') = 1
    BY <2>7, FS_Singleton
  <2>9. act'["timer"].at # "close"
    BY <1>1, <2>3, <2>6, Kinds
  <2> QED
    BY <2>1, <2>3, <2>5, <2>8, <2>9 DEF Orderly, Leased, Connected, LeaseType
<1>7. CASE Leak(h)
  <2>1. act[h].at = "held" /\ Goto(h, "leaked") /\ UNCHANGED <<enabled, srv, lease>>
    BY <1>7 DEF Leak, At
  <2>2. Seats' /\ Alone'
    BY <1>3, <2>1
  <2>3. act'[h].at = "leaked" /\ \A b \in Actors : b # h => act'[b] = act[b]
    BY <1>2, <2>1
  <2>4. Using' = Using
    BY <2>1, <2>3, Kinds DEF Using, Held, Leaked, At
  <2>5. act'["timer"] = act["timer"] /\ \A g \in Holders : act'[g].at = "lease" => act[g].at = "lease"
    BY <1>1, <2>3, Kinds
  <2> QED
    BY <2>1, <2>2, <2>4, <2>5 DEF Orderly, Leased, Connected
<1>8. CASE Release(h)
  <2>1. /\ act[h].at = "held" /\ Goto(h, "gone") /\ UNCHANGED <<enabled, srv>>
        /\ lease' = IF ~lease.here THEN lease ELSE Released
    BY <1>8 DEF Release, At
  <2>2. Seats' /\ Alone'
    BY <1>3, <2>1
  <2>3. act'[h].at = "gone" /\ \A b \in Actors : b # h => act'[b] = act[b]
    BY <1>2, <2>1
  <2>4. Using' = Using \ {h} /\ h \in Using
    BY <2>1, <2>3, Kinds DEF Using, Held, Leaked, At
  <2>5. /\ IsFiniteSet(Using') /\ Cardinality(Using') = Cardinality(Using) - 1
        /\ Cardinality(Using) > 0
    <3>1. Cardinality(Using) \in Nat /\ Cardinality(Using) # 0
      BY <2>4, FS_CardinalityType, FS_EmptySet DEF Orderly, Leased
    <3> QED
      BY <2>4, <3>1, FS_RemoveElement DEF Orderly, Leased
  <2>6. lease.here /\ lease' = Released
    BY <2>1, <2>5 DEF Orderly, Leased
  <2>7. /\ lease'.refs = lease.refs - 1 /\ lease'.here
        /\ lease' \in LeaseType
    <3>1. lease \in LeaseType /\ lease.refs > 0
      BY <2>5 DEF Orderly, Leased
    <3>2. PICK n : n = lease.refs - 1
      OBVIOUS
    <3>3. n \in Nat /\ lease.refs \in Nat
      BY <3>1, <3>2, LeaseParts
    <3>4. lease' \in LeaseType /\ lease'.refs = n /\ lease'.here = lease.here
      <4>1. CASE lease.refs > 1
        <5>1. lease' = [lease EXCEPT !.refs = n]
          BY <2>6, <3>2, <4>1 DEF Released
        <5> QED
          BY <3>1, <3>3, <5>1, LeaseFields
      <4>2. CASE lease.refs = 1
        <5>1. lease' = [lease EXCEPT !.refs = n, !.timer = TRUE]
          BY <2>6, <3>2, <4>2 DEF Released
        <5> QED
          BY <3>1, <3>3, <5>1, LeaseFields
      <4> QED
        BY <3>1, <3>3, <4>1, <4>2
    <3> QED
      BY <2>6, <3>2, <3>4
  <2>8. act'["timer"].at # "close"
    BY <1>1, <2>3, <2>5, Kinds DEF Orderly, Leased
  <2>9. \A g \in Holders : act'[g].at = "lease" => act[g].at = "lease"
    BY <2>3, Kinds
  <2> QED
    BY <2>1, <2>2, <2>5, <2>6, <2>7, <2>8, <2>9 DEF Orderly, Leased, Connected
<1> QED
  BY <1>4, <1>5, <1>6, <1>7, <1>8 DEF Delegation

\* The idle timer closes only a server that nobody uses, and while it does
\* nobody begins to.
LEMMA TimerGood ==
    ASSUME Orderly, Calm', Timer
    PROVE  Orderly'
<1>1. /\ act \in [Actors -> Seat] /\ srv \in Server /\ enabled = TRUE
      /\ lease \in LeaseType
      /\ IsFiniteSet(Using) /\ lease.refs = Cardinality(Using)
  BY DEF Orderly, Seats, Alone, Leased
<1>2. NoLease \in LeaseType /\ NoLease.refs = 0 /\ ~NoLease.here
  BY DEF NoLease, LeaseType
<1>3. Closed(srv) \in Server
  BY <1>1 DEF Closed, Server
<1>4. ASSUME srv' = Closed(srv) \/ srv' = srv, lease' = NoLease, lease.refs = 0,
             \A h \in Holders : act'[h].at # "lease", \A h \in Holders : act'[h] = act[h],
             act'["timer"].at # "close"
      PROVE  Leased'
  <2>1. Using' = Using
    BY <1>4, Kinds DEF Using, Held, Leaked, At
  <2>2. lease' \in LeaseType /\ lease'.refs = 0 /\ ~lease'.here
    BY <1>2, <1>4
  <2>3. IsFiniteSet(Using') /\ lease'.refs = Cardinality(Using')
    BY <1>1, <1>4, <2>1, <2>2
  <2> QED
    BY <1>4, <2>2, <2>3 DEF Leased
<1>5. CASE Expire
  <2>1. /\ act["timer"].at = "idle" /\ \A h \in Holders : act[h].at # "lease"
        /\ enabled' = enabled
    BY <1>5 DEF Expire, At
  <2>2. CASE lease.refs > 0 \/ ~lease.here
    <3>1. lease' = [lease EXCEPT !.timer = FALSE] /\ UNCHANGED <<srv, act>>
      BY <1>5, <2>2 DEF Expire
    <3>2. /\ lease' \in LeaseType
          /\ lease'.refs = lease.refs /\ lease'.here = lease.here
      BY <1>1, <3>1, LeaseFields
    <3>3. Using' = Using
      BY <3>1 DEF Using, Held, Leaked, At
    <3>4. Leased'
      BY <2>1, <3>1, <3>2, <3>3 DEF Orderly, Leased, Connected
    <3> QED
      BY <2>1, <3>1, <3>4 DEF Orderly, Seats, Alone
  <2>3. CASE ~(lease.refs > 0 \/ ~lease.here) /\ srv.client = 0
    <3>1. lease' = NoLease /\ srv' = Closed(srv) /\ UNCHANGED act
      BY <1>5, <2>3 DEF Expire
    <3>2. Leased'
      <4>1. lease.refs = 0
        BY <1>1, <2>3, LeaseParts
      <4>2. act'["timer"].at # "close" /\ \A h \in Holders : act'[h] = act[h] /\ act'[h].at # "lease"
        BY <2>1, <3>1
      <4> QED
        BY <1>4, <3>1, <4>1, <4>2
    <3>3. \A a \in Actors : act[a].at # "connect"
      BY <2>3 DEF Orderly, Alone, Leased, Connected
    <3>4. Alone'
      BY <1>3, <3>1, <3>3 DEF Orderly, Alone
    <3> QED
      BY <2>1, <3>1, <3>2, <3>4 DEF Orderly, Seats
  <2>4. CASE ~(lease.refs > 0 \/ ~lease.here) /\ srv.client # 0
    <3>1. lease' = [lease EXCEPT !.timer = FALSE] /\ StartClose("timer") /\ UNCHANGED srv
      BY <1>5, <2>4 DEF Expire
    <3>2. /\ lease' \in LeaseType
          /\ lease'.refs = lease.refs /\ lease'.here = lease.here /\ lease.here /\ lease.refs = 0
      <4>1. lease.here /\ lease.refs = 0
        BY <1>1, <2>4, LeaseParts
      <4>2. lease' \in LeaseType /\ lease'.refs = lease.refs /\ lease'.here = lease.here
        BY <1>1, <3>1, LeaseFields, LeaseParts
      <4> QED
        BY <4>1, <4>2
    <3>3. /\ act' \in [Actors -> Seat] /\ \A b \in Actors : b # "timer" => act'[b] = act[b]
          /\ act'["timer"].at = "close" /\ act'["timer"].next = act["timer"].next
      <4>1. PICK r : r = [act["timer"] EXCEPT !.at = "close", !.gen = srv.gen, !.client = srv.client]
        OBVIOUS
      <4>2. act["timer"] \in Seat /\ srv.gen \in Nat /\ srv.client \in Nat
        BY <1>1, Kinds DEF Server
      <4>3. r \in Seat /\ r.at = "close" /\ r.next = act["timer"].next
        BY <4>1, <4>2 DEF Seat
      <4>4. act' = [act EXCEPT !["timer"] = r]
        BY <3>1, <4>1 DEF StartClose
      <4> QED
        BY <1>1, <4>3, <4>4, Kinds
    <3>4. \A a \in Actors : act[a].at \notin {"connect", "close"}
      <4>1. ASSUME NEW a \in Actors PROVE act[a].at # "close"
        <5>1. a # "timer" => act[a].at # "close"
          BY Kinds DEF Orderly, Seats, Suits
        <5> QED
          BY <2>1, <5>1
      <4>2. \A a \in Actors : act[a].at # "connect"
        BY <3>2 DEF Orderly, Alone, Leased, Connected
      <4> QED
        BY <4>1, <4>2
    <3>5. Seats'
      <4>1. Suits("timer", act'["timer"])
        BY <3>3, Kinds DEF Suits
      <4> QED
        BY <2>1, <3>3, <4>1 DEF Orderly, Seats
    <3>6. Alone'
      BY <3>1, <3>3, <3>4 DEF Orderly, Alone
    <3>7. Using' = Using /\ \A h \in Holders : act'[h].at # "lease"
      BY <2>1, <3>3, Kinds DEF Using, Held, Leaked, At
    <3>8. Leased'
      BY <1>1, <3>1, <3>2, <3>7 DEF Orderly, Leased, Connected
    <3> QED
      BY <3>5, <3>6, <3>8 DEF Orderly
  <2> QED
    BY <2>2, <2>3, <2>4
<1>6. CASE DropLease
  <2>1. /\ act["timer"].at = "close" /\ enabled' = enabled
        /\ srv' = IF act["timer"].gen = srv.gen THEN Closed(srv) ELSE srv
        /\ lease' = NoLease /\ act' = [act EXCEPT !["timer"] = Rest]
    BY <1>6 DEF DropLease, At
  <2>2. lease.refs = 0 /\ \A h \in Holders : act[h].at # "lease"
    BY <2>1 DEF Orderly, Leased
  <2>3. \A a \in Actors : a # "timer" => act[a].at \notin {"connect", "close"}
    BY <2>1, Kinds DEF Orderly, Alone
  <2>4. /\ act' \in [Actors -> Seat] /\ \A b \in Actors : b # "timer" => act'[b] = act[b]
        /\ act'["timer"].at = "idle"
    BY <1>1, <2>1, Kinds DEF Rest, Seat
  <2>5. Seats'
    <3>1. Suits("timer", act'["timer"])
      BY <2>4, Kinds DEF Suits
    <3> QED
      BY <2>1, <2>4, <3>1 DEF Orderly, Seats
  <2>6. Alone'
    <3>1. srv' \in Server
      BY <1>1, <1>3, <2>1
    <3>2. \A a \in Actors : act'[a].at \notin {"connect", "close"}
      BY <2>3, <2>4
    <3> QED
      BY <3>1, <3>2 DEF Alone
  <2>7. \A h \in Holders : act'[h] = act[h]
    BY <2>4, Kinds
  <2>8. Leased'
    BY <1>4, <2>1, <2>2, <2>4, <2>7
  <2> QED
    BY <2>5, <2>6, <2>8 DEF Orderly
<1> QED
  BY <1>5, <1>6 DEF Timer

\* A sync of a row that is on connects the server and never takes it away.
LEMMA SyncGood ==
    ASSUME Orderly, Calm', NEW s \in Syncs, Scan(s) \/ SyncStep(s)
    PROVE  Orderly'
<1>1. /\ act \in [Actors -> Seat] /\ srv \in Server /\ s \in Actors /\ act[s] \in Seat
      /\ enabled = TRUE /\ Suits(s, act[s]) /\ s \notin Holders /\ s # "timer" /\ s # "turn"
  BY Kinds DEF Orderly, Seats, Alone
<1>2. ASSUME NEW r \in Seat, act' = [act EXCEPT ![s] = r], r.at \in {"idle", "check", "config", "end"},
             r.at # "idle" => r.saw = TRUE, act[s].at \notin {"connect", "close"},
             UNCHANGED <<enabled, srv, lease>>
      PROVE  Orderly'
  <2>1. /\ act' \in [Actors -> Seat] /\ \A b \in Actors : b # s => act'[b] = act[b] /\ act'[s] = r
    BY <1>1, <1>2
  <2>2. Suits(s, act'[s])
    BY <1>1, <1>2, <2>1 DEF Suits
  <2>3. act[s].at \notin {"connect", "close", "held", "leaked"}
    BY <1>1, <1>2 DEF Suits
  <2> QED
    BY <1>1, <1>2, <2>1, <2>2, <2>3, Walks
<1>3. CASE Scan(s)
  <2>1. PICK r : r = [Rest EXCEPT !.at = "check", !.saw = enabled]
    OBVIOUS
  <2>2. /\ act' = [act EXCEPT ![s] = r] /\ act[s].at = "idle" /\ UNCHANGED <<enabled, srv, lease>>
    BY <1>3, <2>1 DEF Scan, At
  <2>3. r \in Seat /\ r.at = "check" /\ r.saw = TRUE
    BY <1>1, <2>1 DEF Rest, Seat
  <2> QED
    BY <1>2, <2>2, <2>3
<1>4. CASE Check(s)
  <2>1. act[s].at = "check" /\ act[s].saw = TRUE /\ UNCHANGED <<enabled, lease>>
    BY <1>1, <1>4 DEF Check, At, Suits
  <2>2. PICK x \in {"config", "end"} : Goto(s, x) /\ UNCHANGED srv
    BY <1>4, <2>1 DEF Check
  <2>3. PICK r : r = [act[s] EXCEPT !.at = x]
    OBVIOUS
  <2>4. act' = [act EXCEPT ![s] = r] /\ r \in Seat /\ r.at = x /\ r.saw = TRUE
    BY <1>1, <2>1, <2>2, <2>3 DEF Goto, Seat
  <2> QED
    BY <1>2, <2>1, <2>2, <2>4
<1>5. CASE Configure(s)
  <2>1. act[s].at = "config" /\ act[s].saw = TRUE /\ UNCHANGED <<enabled, lease>>
    BY <1>1, <1>5 DEF Configure, At, Suits
  <2>2. CASE srv.known
    <3>1. StartConnect(s, srv, "end")
      BY <1>5, <2>2 DEF Configure
    <3> QED
      BY <1>1, <2>1, <3>1, StartGood
  <2>3. CASE ~srv.known
    <3>1. PICK n : n = [Absent EXCEPT !.known = TRUE, !.gen = srv.gen + 1]
      OBVIOUS
    <3>2. StartConnect(s, n, "again")
      BY <1>5, <2>3, <3>1 DEF Configure
    <3>3. n \in Server /\ n.known /\ n.status # "connected"
      <4>1. n = [known |-> TRUE, gen |-> srv.gen + 1, status |-> "disconnected",
                 client |-> 0, tools |-> FALSE]
        BY <3>1 DEF Absent
      <4> QED
        BY <1>1, <4>1 DEF Server
    <3> QED
      BY <1>1, <2>1, <2>3, <3>2, <3>3, StartGood
  <2> QED
    BY <2>2, <2>3
<1>6. CASE ConnectAgain(s)
  <2>1. /\ act[s].at = "again" /\ act[s].saw = TRUE /\ UNCHANGED <<enabled, lease>>
        /\ StartConnect(s, srv, "end")
    BY <1>1, <1>6 DEF ConnectAgain, At, Suits
  <2> QED
    BY <1>1, <2>1, StartGood
<1>7. CASE RemoveServer(s)
  BY <1>1, <1>7 DEF RemoveServer, At, Suits
<1>8. CASE EndSync(s)
  <2>1. act' = [act EXCEPT ![s] = Rest] /\ act[s].at = "end" /\ UNCHANGED <<enabled, srv, lease>>
    BY <1>8 DEF EndSync, At
  <2>2. Rest \in Seat /\ Rest.at = "idle"
    BY DEF Rest, Seat
  <2> QED
    BY <1>2, <2>1, <2>2
<1>9. CASE PrepareFails(s)
  <2>1. act[s].at = "config" /\ act[s].saw = TRUE /\ UNCHANGED <<enabled, srv, lease>>
    BY <1>1, <1>9 DEF PrepareFails, At, Suits
  <2>2. PICK r : r = [act[s] EXCEPT !.at = "end"]
    OBVIOUS
  <2>3. act' = [act EXCEPT ![s] = r] /\ r \in Seat /\ r.at = "end" /\ r.saw = TRUE
    BY <1>1, <1>9, <2>1, <2>2 DEF PrepareFails, Goto, Seat
  <2> QED
    BY <1>2, <2>1, <2>3
<1> QED
  BY <1>3, <1>4, <1>5, <1>6, <1>7, <1>8, <1>9 DEF SyncStep

\* The coordinator wakes a dormant server.
LEMMA WakeGood ==
    ASSUME Orderly, Calm', Wake
    PROVE  Orderly'
<1>1. /\ act["turn"].at = "idle" /\ StartConnect("turn", srv, "idle") /\ UNCHANGED <<enabled, lease>>
  BY DEF Wake, At
<1>2. srv \in Server
  BY DEF Orderly, Alone
<1> QED
  BY <1>1, <1>2, Kinds, StartGood

\* Nobody has anything when the server starts.
LEMMA McpStarts == McpInit => McpInv
<1> SUFFICES ASSUME McpInit PROVE Orderly
  BY DEF McpInv
<1>1. \A a \in Actors : act[a] = Rest
  BY DEF McpInit
<1>2. Rest \in Seat /\ Rest.at = "idle" /\ Rest.next = "idle"
  BY DEF Rest, Seat
<1>3. Seats
  <2>1. act \in [Actors -> Seat]
    BY <1>2 DEF McpInit
  <2>2. \A a \in Actors : Suits(a, act[a])
    BY <1>1, <1>2 DEF Suits
  <2> QED
    BY <2>1, <2>2 DEF McpInit, Seats
<1>4. Alone
  <2>1. srv \in Server
    BY DEF McpInit, Absent, Server
  <2> QED
    BY <1>1, <1>2, <2>1 DEF Alone
<1>5. Leased
  <2>1. Using = {}
    BY <1>1, <1>2, Kinds DEF Using, Held, Leaked, At
  <2>2. IsFiniteSet(Using) /\ Cardinality(Using) = 0
    BY <2>1, FS_EmptySet
  <2>3. /\ lease \in LeaseType
        /\ lease.refs = 0 /\ ~lease.here
    BY DEF McpInit, NoLease, LeaseType
  <2> QED
    BY <1>1, <1>2, <2>2, <2>3, Kinds DEF Leased
<1> QED
  BY <1>3, <1>4, <1>5 DEF Orderly

\* No step of anybody loses the order, unless it is one of those excepted.
LEMMA McpPreserved == McpInv /\ [McpNext]_mcpVars => McpInv'
<1> SUFFICES ASSUME McpInv, [McpNext]_mcpVars, Calm' PROVE Orderly'
  BY DEF McpInv
<1>1. CASE McpNext
  <2>1. Orderly
    BY <1>1, CalmBefore DEF McpInv
  <2>2. ~Toggle
    BY DEF Toggle, Calm
  <2>3. CASE Connecting
    BY <2>1, <2>3, ConnectedGood DEF Connecting
  <2>4. CASE Timer
    BY <2>1, <2>4, TimerGood
  <2>5. CASE Wake
    BY <2>1, <2>5, WakeGood
  <2>6. ASSUME NEW h \in Holders, Delegation(h) PROVE Orderly'
    BY <2>1, <2>6, DelegationGood
  <2>7. ASSUME NEW s \in Syncs, Scan(s) \/ SyncStep(s) PROVE Orderly'
    BY <2>1, <2>7, SyncGood
  <2> QED
    BY <1>1, <2>2, <2>3, <2>4, <2>5, <2>6, <2>7 DEF McpNext
<1>2. CASE UNCHANGED mcpVars
  <2>1. Orderly
    BY <1>2 DEF McpInv, Calm, mcpVars
  <2>2. Using' = Using
    BY <1>2 DEF mcpVars, Using, Held, Leaked, At
  <2> QED
    BY <1>2, <2>1, <2>2 DEF mcpVars, Orderly, Seats, Alone, Leased, Connected
<1> QED
  BY <1>1, <1>2

\* While a delegation holds its lease the server is connected and the count
\* tells how many hold it, for any number of delegations and syncs, as long as
\* connects do not overlap, nobody acquires while the idle timer closes, and the
\* row stays as it is (delegation-runtime.ts:144, :157).
THEOREM LeaseIsHonored == McpSpec => []LeaseHonored
<1>1. McpSpec => []McpInv
  BY McpStarts, McpPreserved, PTL DEF McpSpec
<1>2. McpInv => LeaseHonored
  <2> SUFFICES ASSUME Orderly, Held # {}
               PROVE  Connected /\ lease.here /\ lease.refs = Cardinality(Held \cup Leaked)
    BY DEF McpInv, Calm, LeaseHonored
  <2>1. Using # {} /\ IsFiniteSet(Using) /\ lease.refs = Cardinality(Using)
    BY DEF Using, Orderly, Leased
  <2>2. lease.refs \in Nat /\ lease.refs # 0
    BY <2>1, FS_EmptySet, FS_CardinalityType
  <2>3. lease.here /\ Connected
    BY <2>2 DEF Orderly, Leased
  <2> QED
    BY <2>1, <2>3 DEF Using
<1> QED
  BY <1>1, <1>2, PTL

-----------------------------------------------------------------------------
(* The circuit breaker *)

\* The inductive invariant of the breaker.
BreakerInv == BreakerTypeOK /\ ProbesCounted

\* Sets of calls are finite; adding or removing one changes the count by one.
LEMMA CallsCounted ==
    ASSUME NEW S \in SUBSET Calls
    PROVE  /\ IsFiniteSet(S) /\ Cardinality(S) \in Nat
           /\ \A c \in Calls : c \notin S => Cardinality(S \cup {c}) = Cardinality(S) + 1
           /\ \A c \in S : Cardinality(S \ {c}) = Cardinality(S) - 1
<1>1. IsFiniteSet(S)
  BY FS_Subset, BreakerAssumption DEF BreakerAssumption
<1>2. Cardinality(S) \in Nat
  BY <1>1, FS_CardinalityType
<1>3. \A c \in Calls : c \notin S => Cardinality(S \cup {c}) = Cardinality(S) + 1
  BY <1>1, FS_AddElement
<1>4. \A c \in S : Cardinality(S \ {c}) = Cardinality(S) - 1
  BY <1>1, FS_RemoveElement
<1> QED
  BY <1>1, <1>2, <1>3, <1>4

\* A breaker starts closed, with nothing counted.
LEMMA BreakerStarts == BreakerInit => BreakerInv
BY BreakerAssumption
DEF BreakerInit, BreakerInv, BreakerTypeOK, ProbesCounted, BreakerAssumption

\* Every step of a call, of the clock and of an operator keeps the counters
\* and the probes together.
LEMMA BreakerPreserved == BreakerInv /\ [BreakerNext]_breakerVars => BreakerInv'
<1> SUFFICES ASSUME BreakerInv, [BreakerNext]_breakerVars PROVE BreakerInv'
  OBVIOUS
<1> USE BreakerAssumption DEF BreakerAssumption
<1>0. Cardinality({}) = 0
  BY FS_EmptySet
<1>1. /\ IsFiniteSet(probes) /\ Cardinality(probes) \in Nat
      /\ \A c \in Calls : c \notin probes =>
            Cardinality(probes \cup {c}) = Cardinality(probes) + 1
      /\ \A c \in probes : Cardinality(probes \ {c}) = Cardinality(probes) - 1
  <2>1. probes \in SUBSET Calls
    BY DEF BreakerInv, BreakerTypeOK
  <2> QED
    BY <2>1, CallsCounted
<1>2. ASSUME NEW c \in Calls, AdmitClosed(c) PROVE BreakerInv'
  BY <1>2 DEF AdmitClosed, BreakerInv, BreakerTypeOK, ProbesCounted
<1>3. ASSUME NEW c \in Calls, AdmitProbe(c) PROVE BreakerInv'
  <2>1. c \notin probes
    BY <1>3 DEF AdmitProbe, BreakerInv, BreakerTypeOK
  <2>2. Cardinality(probes') = Cardinality(probes) + 1
    BY <1>1, <1>3, <2>1 DEF AdmitProbe
  <2>3. halfOpenCalls = Cardinality(probes) - strays
    <3>1. CASE state = "half-open"
      BY <3>1 DEF BreakerInv, ProbesCounted
    <3>2. CASE state # "half-open"
      <4>1. probes = {} /\ halfOpenCalls = 0 /\ strays = 0
        BY <3>2 DEF BreakerInv, ProbesCounted
      <4>2. Cardinality(probes) = 0
        BY <1>0, <4>1
      <4> QED
        BY <4>1, <4>2
    <3> QED
      BY <3>1, <3>2
  <2>4. strays <= successes /\ successes < SuccessThreshold
    BY <1>3 DEF AdmitProbe, BreakerInv, BreakerTypeOK, ProbesCounted
  <2>5. BreakerTypeOK'
    BY <1>3 DEF AdmitProbe, BreakerInv, BreakerTypeOK
  <2>6. ProbesCounted'
    BY <1>1, <1>3, <2>2, <2>3, <2>4
    DEF AdmitProbe, BreakerInv, BreakerTypeOK, ProbesCounted
  <2> QED
    BY <2>5, <2>6 DEF BreakerInv
<1>4. ASSUME NEW c \in Calls, Succeed(c) PROVE BreakerInv'
  <2>1. CASE state # "half-open"
    BY <1>4, <2>1 DEF Succeed, BreakerInv, BreakerTypeOK, ProbesCounted
  <2>2. CASE state = "half-open" /\ successes + 1 >= SuccessThreshold
    BY <1>0, <1>4, <2>2 DEF Succeed, Close, BreakerInv, BreakerTypeOK, ProbesCounted
  <2>3. CASE state = "half-open" /\ ~(successes + 1 >= SuccessThreshold)
    <3>1. BreakerTypeOK'
      BY <1>4, <2>3 DEF Succeed, BreakerInv, BreakerTypeOK
    <3>2. CASE c \in probes
      <4>1. Cardinality(probes') = Cardinality(probes) - 1 /\ strays' = strays
        BY <1>1, <1>4, <2>3, <3>2 DEF Succeed
      <4> QED
        BY <1>1, <1>4, <2>3, <3>1, <4>1
        DEF Succeed, BreakerInv, BreakerTypeOK, ProbesCounted
    <3>3. CASE c \notin probes
      <4>1. probes' = probes /\ strays' = strays + 1
        BY <1>4, <2>3, <3>3 DEF Succeed
      <4> QED
        BY <1>1, <1>4, <2>3, <3>1, <4>1
        DEF Succeed, BreakerInv, BreakerTypeOK, ProbesCounted
    <3> QED
      BY <3>2, <3>3
  <2> QED
    BY <2>1, <2>2, <2>3
<1>5. ASSUME NEW c \in Calls, Fail(c) PROVE BreakerInv'
  <2>1. elapsed' \in BOOLEAN
    BY <1>5 DEF Fail
  <2>2. inFlight' = inFlight \ {c} /\ failures' \in Nat
    BY <1>5 DEF Fail, BreakerInv, BreakerTypeOK
  <2>3. CASE Open
    <3>1. BreakerTypeOK'
      BY <2>1, <2>2, <2>3 DEF Open, BreakerInv, BreakerTypeOK
    <3>2. ProbesCounted'
      BY <2>3 DEF Open, ProbesCounted
    <3> QED
      BY <3>1, <3>2 DEF BreakerInv
  <2>4. CASE /\ UNCHANGED <<state, successes, halfOpenCalls, probes, strays>>
             /\ state # "half-open"
    <3>1. BreakerTypeOK'
      BY <2>1, <2>2, <2>4 DEF BreakerInv, BreakerTypeOK, ProbesCounted
    <3>2. ProbesCounted'
      BY <2>4 DEF BreakerInv, ProbesCounted
    <3> QED
      BY <3>1, <3>2 DEF BreakerInv
  <2> QED
    BY <1>5, <2>3, <2>4 DEF Fail
<1>6. CASE TimeIsUp
  BY <1>6 DEF TimeIsUp, BreakerInv, BreakerTypeOK, ProbesCounted
<1>7. CASE Reset
  BY <1>7 DEF Reset, Close, BreakerInv, BreakerTypeOK, ProbesCounted
<1>8. CASE ForceOpen
  <2>1. elapsed' \in BOOLEAN
    BY <1>8 DEF ForceOpen
  <2>2. BreakerTypeOK'
    BY <1>8, <2>1 DEF ForceOpen, Open, BreakerInv, BreakerTypeOK
  <2>3. ProbesCounted'
    BY <1>8 DEF ForceOpen, Open, ProbesCounted
  <2> QED
    BY <2>2, <2>3 DEF BreakerInv
<1>9. CASE UNCHANGED breakerVars
  BY <1>9 DEF breakerVars, BreakerInv, BreakerTypeOK, ProbesCounted
<1> QED
  BY <1>2, <1>3, <1>4, <1>5, <1>6, <1>7, <1>8, <1>9 DEF BreakerNext

\* The counter together with the strays bounds the probes.
LEMMA CountedIsBounded == BreakerInv => ProbesBounded
<1> SUFFICES ASSUME BreakerInv, state = "half-open"
             PROVE  /\ halfOpenCalls <= Cardinality(probes)
                    /\ Cardinality(probes) <= HalfOpenMaxCalls + SuccessThreshold - 1
  BY DEF ProbesBounded
<1>1. Cardinality(probes) \in Nat
  BY CallsCounted DEF BreakerInv, BreakerTypeOK
<1> QED
  BY <1>1, BreakerAssumption
  DEF BreakerInv, BreakerTypeOK, ProbesCounted, BreakerAssumption

\* However calls of earlier periods interfere, a half-open breaker never has
\* more than halfOpenMaxCalls + successThreshold - 1 probes in flight
\* (circuit-breaker.ts:67, :94).
THEOREM ProbesStayFew == BreakerSpec => []ProbesBounded
<1>1. BreakerSpec => []BreakerInv
  BY BreakerStarts, BreakerPreserved, PTL DEF BreakerSpec
<1> QED
  BY <1>1, CountedIsBounded, PTL

-----------------------------------------------------------------------------
(* The worker pool *)

\* Task i runs on worker w.
Running(i, w) == task[i].at = "running" /\ task[i].worker = w
\* Tasks whose promise has settled, and the tasks the limit depends on.
Ended == Done \cup Thrown
Early == 1..(Concurrency - 1)

\* What the variables of the pool may hold.
Stocked ==
    /\ created \in Nat
    /\ workers \in SUBSET (1..created)
    /\ busy \in SUBSET (1..created)
    /\ idle \in Seq(1..created)
    /\ task \in [TaskIds -> [at : {"new", "waiting", "running", "done", "thrown"},
                             worker : 0..created]]
    /\ down \in BOOLEAN

\* And those of the loop: exactly the tasks it has launched have begun.
Looped ==
    /\ launched \in 0..Tasks
    /\ \A i \in TaskIds : i > launched <=> task[i].at = "new"
    /\ batch \in {"looping", "racing", "returned", "thrown"}

\* Until a shutdown idle and busy share the workers, and busy workers and
\* running tasks belong to each other.
Manned ==
    ~down =>
        /\ workers = 1..created /\ created <= MaxWorkers
        /\ \A k \in 1..Len(idle) : idle[k] \notin busy
        /\ \A k, l \in 1..Len(idle) : idle[k] = idle[l] => k = l
        /\ \A w \in workers : w \in busy \/ \E k \in 1..Len(idle) : idle[k] = w
        /\ \A i \in TaskIds : task[i].at = "running" => task[i].worker \in busy
        /\ \A i, j \in TaskIds :
              /\ task[i].at = "running" /\ task[j].at = "running"
              /\ task[i].worker = task[j].worker
              => i = j
        /\ \A w \in busy : \E i \in TaskIds : Running(i, w)
        /\ \A i \in TaskIds : task[i].at = "waiting" => created = MaxWorkers

\* The promises the loop still has: the first ones, and while it races the one
\* launched last.
Expected ==
    /\ batch = "looping" => executing = IF launched < Concurrency THEN 1..launched ELSE Early
    /\ batch = "racing" => launched >= Concurrency /\ executing = Early \cup {launched}

\* Unless one of the first has ended, everything launched after them has, but
\* for what the loop waits for.
Awaited ==
    Early \cap Ended = {} =>
        \A j \in Concurrency..launched : j \in Ended \/ (j = launched /\ batch # "looping")

PoolInv == Stocked /\ Manned /\ Looped /\ Expected /\ Awaited

\* The last worker of idle goes, the others stay where they are.
LEMMA LastTaken ==
    ASSUME NEW S, NEW s \in Seq(S), s # <<>>
    PROVE  /\ Len(s) \in Nat \ {0} /\ Last(s) = s[Len(s)] /\ Last(s) \in S
           /\ Front(s) \in Seq(S) /\ Len(Front(s)) = Len(s) - 1
           /\ \A k \in 1..(Len(s) - 1) : Front(s)[k] = s[k]
<1>1. Len(s) \in Nat /\ Len(s) # 0
  BY EmptySeq, LenProperties
<1>2. Front(s) = SubSeq(s, 1, Len(s) - 1)
  BY DEF Front
<1>3. Last(s) = s[Len(s)] /\ Last(s) \in S
  BY <1>1, ElementOfSeq DEF Last
<1>4. /\ Front(s) \in Seq(S) /\ Len(Front(s)) = Len(s) - 1
      /\ \A k \in 1..(Len(s) - 1) : Front(s)[k] = s[k]
  <2>1. PICK m : m = Len(s) - 1
    OBVIOUS
  <2>2. m \in Nat /\ 1 <= m + 1 /\ m <= Len(s) /\ m - 1 + 1 = m
    BY <1>1, <2>1
  <2>3. /\ SubSeq(s, 1, m) \in Seq(S) /\ Len(SubSeq(s, 1, m)) = m
        /\ \A k \in 1..m : SubSeq(s, 1, m)[k] = s[k]
    BY <1>1, <2>2
  <2> QED
    BY <1>2, <2>1, <2>3
<1> QED
  BY <1>1, <1>3, <1>4

\* A task begins to wait only if it has none, and to run by Use.
LEMMA TakeIdleKeeps ==
    ASSUME Stocked, Manned, NEW i \in TaskIds, task[i].at \in {"new", "waiting"},
           TakeIdle(i), down' = down
    PROVE  Stocked' /\ Manned'
<1> DEFINE n == Len(idle)
<1>1. /\ idle # <<>> /\ idle' = Front(idle) /\ created' = created /\ workers' = workers
      /\ busy' = busy \cup {Last(idle)}
      /\ task' = [task EXCEPT ![i] =
            [at |-> "running", worker |-> IF Last(idle) \in workers THEN Last(idle) ELSE Nobody]]
  BY DEF TakeIdle, Use
<1>2. /\ n \in Nat \ {0} /\ Last(idle) = idle[n] /\ Last(idle) \in 1..created
      /\ idle' \in Seq(1..created) /\ Len(idle') = n - 1
      /\ \A k \in 1..(n - 1) : idle'[k] = idle[k]
  BY <1>1, LastTaken DEF Stocked
<1> HIDE DEF n
<1>3. PICK w : w = Last(idle)
  OBVIOUS
<1>4. Stocked'
  <2>1. task' \in [TaskIds -> [at : {"new", "waiting", "running", "done", "thrown"},
                               worker : 0..created]]
    BY <1>1, <1>2 DEF Stocked, Nobody
  <2>2. busy' \in SUBSET (1..created)
    BY <1>1, <1>2 DEF Stocked
  <2> QED
    BY <1>1, <1>2, <2>1, <2>2 DEF Stocked
<1>5. ASSUME ~down PROVE Manned'
  <2>1. /\ workers = 1..created /\ created <= MaxWorkers
        /\ \A k \in 1..n : idle[k] \notin busy
        /\ \A k, l \in 1..n : idle[k] = idle[l] => k = l
        /\ \A v \in workers : v \in busy \/ \E k \in 1..n : idle[k] = v
        /\ \A j \in TaskIds : task[j].at = "running" => task[j].worker \in busy
        /\ \A j, l \in TaskIds :
              /\ task[j].at = "running" /\ task[l].at = "running"
              /\ task[j].worker = task[l].worker
              => j = l
        /\ \A v \in busy : \E j \in TaskIds : task[j].at = "running" /\ task[j].worker = v
        /\ \A j \in TaskIds : task[j].at = "waiting" => created = MaxWorkers
    BY <1>5 DEF Manned, Running, n
  <2>2. /\ task'[i].at = "running" /\ task'[i].worker = w
        /\ \A j \in TaskIds : j # i => task'[j] = task[j]
    BY <1>1, <1>2, <1>3, <2>1 DEF Stocked
  <2>3. w \notin busy /\ w = idle[n]
    BY <1>2, <1>3, <2>1
  <2>4. task[i].at # "running"
    OBVIOUS
  <2>5. /\ \A k \in 1..(n - 1) : idle'[k] \notin busy'
        /\ \A k, l \in 1..(n - 1) : idle'[k] = idle'[l] => k = l
    BY <1>1, <1>2, <1>3, <2>1, <2>3
  <2>6. \A v \in workers : v \in busy' \/ \E k \in 1..(n - 1) : idle'[k] = v
    BY <1>1, <1>2, <1>3, <2>1, <2>3
  <2>7. \A j \in TaskIds : task'[j].at = "running" => task'[j].worker \in busy'
    BY <1>1, <1>3, <2>1, <2>2
  <2>8. \A j, l \in TaskIds :
              /\ task'[j].at = "running" /\ task'[l].at = "running"
              /\ task'[j].worker = task'[l].worker
              => j = l
    BY <2>1, <2>2, <2>3
  <2>9. \A v \in busy' : \E j \in TaskIds : task'[j].at = "running" /\ task'[j].worker = v
    BY <1>1, <1>3, <2>1, <2>2, <2>4
  <2>10. \A j \in TaskIds : task'[j].at = "waiting" => created = MaxWorkers
    BY <2>1, <2>2
  <2> QED
    BY <1>1, <1>2, <2>1, <2>5, <2>6, <2>7, <2>8, <2>9, <2>10 DEF Manned, Running
<1> QED
  BY <1>4, <1>5 DEF Manned

\* The other two ways of acquireWorker: a new worker, and waiting for one.
LEMMA AcquireKeeps ==
    ASSUME Stocked, Manned, NEW i \in TaskIds, task[i].at = "new",
           AcquireWorker(i), down' = down
    PROVE  Stocked' /\ Manned'
<1>1. CASE TakeIdle(i)
  BY <1>1, TakeIdleKeeps
<1>2. CASE /\ idle = <<>> /\ Cardinality(workers) < MaxWorkers
           /\ created' = created + 1 /\ workers' = workers \cup {created + 1}
           /\ Use(i, created + 1)
           /\ UNCHANGED idle
  <2>1. /\ busy' = busy \cup {created + 1} /\ created + 1 \in workers'
        /\ task' = [task EXCEPT ![i] = [at |-> "running", worker |-> created + 1]]
    BY <1>2 DEF Use
  <2>2. Stocked'
    <3>1. idle' \in Seq(1..created')
      BY <1>2
    <3> QED
      BY <1>2, <2>1, <3>1 DEF Stocked
  <2>3. ASSUME ~down PROVE Manned'
    <3>1. Cardinality(workers) = created
      BY <2>3, FS_Interval DEF Manned, Stocked
    <3>2. created' <= MaxWorkers /\ workers' = 1..created'
      BY <1>2, <2>3, <3>1, PoolAssumption DEF Manned, Stocked, PoolAssumption
    <3>3. /\ task'[i].at = "running" /\ task'[i].worker = created + 1
          /\ \A j \in TaskIds : j # i => task'[j] = task[j]
      BY <2>1 DEF Stocked
    <3>4. Len(idle') = 0
      BY <1>2
    <3>5. created + 1 \notin busy
      BY DEF Stocked
    <3>6. created # MaxWorkers
      BY <1>2, <3>1 DEF Stocked
    <3>7. /\ \A j \in TaskIds : task'[j].at = "running" => task'[j].worker \in busy'
          /\ \A j, l \in TaskIds :
              /\ task'[j].at = "running" /\ task'[l].at = "running"
              /\ task'[j].worker = task'[l].worker
              => j = l
      BY <2>1, <2>3, <3>3, <3>5 DEF Manned
    <3>8. \A v \in busy' : \E j \in TaskIds : task'[j].at = "running" /\ task'[j].worker = v
      BY <2>1, <2>3, <3>3 DEF Manned, Running
    <3>9. \A j \in TaskIds : task'[j].at # "waiting"
      BY <2>3, <3>3, <3>6 DEF Manned
    <3>10. \A v \in workers' : v \in busy'
      <4>1. \A v \in workers : v \in busy
        BY <1>2, <2>3 DEF Manned
      <4> QED
        BY <1>2, <2>1, <4>1
    <3> QED
      BY <3>2, <3>4, <3>7, <3>8, <3>9, <3>10 DEF Manned, Running
  <2> QED
    BY <2>2, <2>3 DEF Manned
<1>3. CASE /\ idle = <<>> /\ Cardinality(workers) >= MaxWorkers
           /\ task' = [task EXCEPT ![i].at = "waiting"]
           /\ UNCHANGED <<workers, created, idle, busy>>
  <2>1. Stocked'
    BY <1>3 DEF Stocked
  <2>2. ASSUME ~down PROVE Manned'
    <3>1. Cardinality(workers) = created
      BY <2>2, FS_Interval DEF Manned, Stocked
    <3>2. created = MaxWorkers
      BY <1>3, <2>2, <3>1, PoolAssumption DEF Manned, Stocked, PoolAssumption
    <3>3. /\ task'[i].at = "waiting" /\ \A j \in TaskIds : j # i => task'[j] = task[j]
      BY <1>3 DEF Stocked
    <3> QED
      BY <1>3, <2>2, <3>2, <3>3 DEF Manned, Running
  <2> QED
    BY <2>1, <2>2 DEF Manned
<1> QED
  BY <1>1, <1>2, <1>3 DEF AcquireWorker

\* A task that has ended stays so, and none begins twice: what the loop knows
\* of its promises survives every step of a task.
LEMMA LoopKept ==
    ASSUME Stocked, Looped, Expected, Awaited,
           UNCHANGED <<launched, executing, batch>>, DOMAIN task' = TaskIds,
           \A j \in TaskIds :
              /\ task'[j].at = "new" <=> task[j].at = "new"
              /\ j \in Ended => task'[j].at \in {"done", "thrown"}
    PROVE  Looped' /\ Expected' /\ Awaited'
<1>1. Looped'
  BY DEF Looped
<1>2. Expected'
  BY DEF Expected
<1>3. \A j \in Ended : j \in Ended'
  BY DEF Ended, Done, Thrown
<1>4. Awaited'
  <2>1. SUFFICES ASSUME Early \cap Ended' = {}, NEW j \in Concurrency..launched
                 PROVE  j \in Ended' \/ (j = launched /\ batch # "looping")
    BY DEF Awaited, Early
  <2>2. Early \cap Ended = {}
    BY <1>3, <2>1
  <2> QED
    BY <1>3, <2>1, <2>2 DEF Awaited
<1> QED
  BY <1>1, <1>2, <1>4

\* The parameters one by one.
LEMMA PoolSizes ==
    /\ Tasks \in Nat /\ Concurrency \in Nat /\ MaxWorkers \in Nat
    /\ Tasks # 0 /\ Concurrency # 0 /\ MaxWorkers # 0
BY PoolAssumption DEF PoolAssumption

\* There are Concurrency - 1 first ones.
LEMMA EarlyCounted == IsFiniteSet(Early) /\ Cardinality(Early) = Concurrency - 1
<1>1. PICK n : n = Concurrency - 1
  OBVIOUS
<1>2. n \in Int /\ n >= 0
  BY <1>1, PoolSizes
<1>3. IsFiniteSet(1..n) /\ Cardinality(1..n) = n
  BY <1>2, FS_Interval
<1> QED
  BY <1>1, <1>3 DEF Early

\* A batch starts with nothing.
LEMMA PoolStarts == PoolInit => PoolInv
<1> SUFFICES ASSUME PoolInit PROVE PoolInv
  OBVIOUS
<1> USE PoolSizes
<1>1. Stocked
  <2>1. task \in [TaskIds -> [at : {"new", "waiting", "running", "done", "thrown"},
                              worker : 0..0]]
    BY DEF PoolInit, Nobody
  <2>2. <<>> \in Seq(1..0)
    OBVIOUS
  <2> QED
    BY <2>1, <2>2 DEF PoolInit, Stocked
<1>2. Manned
  BY DEF PoolInit, Manned, TaskIds, Running
<1>3. Looped
  BY DEF PoolInit, Looped, TaskIds
<1>4. Expected
  BY DEF PoolInit, Expected
<1>5. Awaited
  BY DEF PoolInit, Awaited
<1> QED
  BY <1>1, <1>2, <1>3, <1>4, <1>5 DEF PoolInv

\* One turn of the loop: its task begins, and the loop goes on to race as soon
\* as it has as many promises as it may.
LEMMA LaunchKeeps == PoolInv /\ Launch => PoolInv'
<1> SUFFICES ASSUME PoolInv, Launch PROVE PoolInv'
  OBVIOUS
<1> USE PoolSizes
<1>1. PICK i : i = launched + 1
  OBVIOUS
<1>2. /\ i \in TaskIds /\ task[i].at = "new" /\ launched' = i
      /\ batch = "looping" /\ executing' = executing \cup {i} /\ AcquireWorker(i) /\ down' = down
      /\ batch' = IF Cardinality(executing') >= Concurrency THEN "racing" ELSE "looping"
  BY <1>1 DEF Launch, PoolInv, Looped, TaskIds
<1>3. Stocked' /\ Manned'
  BY <1>2, AcquireKeeps DEF PoolInv
<1>4. /\ task'[i].at \in {"waiting", "running"}
      /\ \A j \in TaskIds : j # i => task'[j] = task[j]
  BY <1>2 DEF AcquireWorker, TakeIdle, Use, PoolInv, Stocked
<1>5. Looped'
  BY <1>1, <1>2, <1>4 DEF PoolInv, Looped, TaskIds
<1>6. \/ executing' = 1..i /\ Cardinality(executing') = i /\ i <= Concurrency
      \/ i > Concurrency /\ executing' = Early \cup {i} /\ Cardinality(executing') = Concurrency
  <2>1. CASE launched < Concurrency
    <3>1. executing' = 1..i
      BY <1>1, <1>2, <2>1 DEF PoolInv, Expected, Looped
    <3>2. i \in Int /\ 1 <= i /\ i <= Concurrency
      BY <1>1, <1>2, <2>1 DEF TaskIds, PoolInv, Looped
    <3>3. Cardinality(1..i) = i
      BY <3>2, FS_Interval
    <3> QED
      BY <3>1, <3>2, <3>3
  <2>2. CASE launched >= Concurrency
    <3>1. executing' = Early \cup {i} /\ i > Concurrency
      BY <1>1, <1>2, <2>2 DEF PoolInv, Expected, Looped
    <3>2. IsFiniteSet(Early) /\ Cardinality(Early) = Concurrency - 1
      BY EarlyCounted
    <3>3. i \notin Early
      BY <1>2, <3>1 DEF Early, TaskIds
    <3>4. Cardinality(Early \cup {i}) = Concurrency
      BY <3>2, <3>3, FS_AddElement
    <3> QED
      BY <3>1, <3>4
  <2> QED
    BY <2>1, <2>2 DEF PoolInv, Looped
<1>7. Expected'
  BY <1>2, <1>6 DEF Expected, Early, TaskIds
<1>8. Awaited'
  <2>1. SUFFICES ASSUME Early \cap Ended' = {}, NEW j \in Concurrency..i
                 PROVE  j \in Ended' \/ (j = i /\ batch' # "looping")
    BY <1>2 DEF Awaited, Early
  <2>2. \A l \in Ended : l \in Ended'
    BY <1>2, <1>4 DEF Ended, Done, Thrown
  <2>3. CASE j = i
    BY <1>2, <1>6, <2>1, <2>3 DEF TaskIds
  <2>4. CASE j # i
    <3>1. j \in Concurrency..launched
      <4>1. launched \in Int
        BY DEF PoolInv, Looped
      <4> QED
        BY <1>1, <2>1, <2>4, <4>1
    <3>2. Early \cap Ended = {}
      BY <2>1, <2>2
    <3> QED
      BY <1>2, <2>2, <3>1, <3>2 DEF PoolInv, Awaited
  <2> QED
    BY <2>3, <2>4
<1> QED
  BY <1>3, <1>5, <1>7, <1>8 DEF PoolInv

\* The race is over: the newest promise is forgotten, and unless one of the
\* first has ended it is the one that did.
LEMMA RaceKeeps == PoolInv /\ RaceEnds => PoolInv'
<1> SUFFICES ASSUME PoolInv, RaceEnds PROVE PoolInv'
  OBVIOUS
<1> USE PoolSizes
<1>1. /\ batch = "racing" /\ launched \in 0..Tasks /\ launched >= Concurrency
      /\ executing = Early \cup {launched}
      /\ UNCHANGED <<workers, created, idle, busy, task, launched, down>>
  BY DEF RaceEnds, PoolInv, Looped, Expected
<1>2. Stocked' /\ Manned'
  BY <1>1 DEF PoolInv, Stocked, Manned, Running
<1>3. batch' \in {"looping", "thrown"}
  BY DEF RaceEnds
<1>4. Looped'
  BY <1>1, <1>3 DEF PoolInv, Looped
<1>5. Expected'
  <2>1. CASE batch' = "thrown"
    BY <2>1 DEF Expected
  <2>2. CASE batch' = "looping"
    <3>1. executing' = executing \ {launched}
      BY <2>2 DEF RaceEnds
    <3>2. launched \notin Early
      BY <1>1 DEF Early
    <3>3. executing' = Early
      BY <1>1, <3>1, <3>2
    <3> QED
      BY <1>1, <2>2, <3>3 DEF Expected
  <2> QED
    BY <1>3, <2>1, <2>2
<1>6. Awaited'
  <2>1. CASE batch' = "thrown"
    BY <1>1, <2>1 DEF PoolInv, Awaited, Ended, Done, Thrown
  <2>2. CASE batch' = "looping"
    <3>1. Early \cap Ended = {} => launched \in Ended
      BY <1>1, <2>2 DEF RaceEnds, Ended
    <3>2. Ended' = Ended
      BY <1>1 DEF Ended, Done, Thrown
    <3> QED
      BY <1>1, <3>1, <3>2 DEF PoolInv, Awaited
  <2> QED
    BY <1>3, <2>1, <2>2
<1> QED
  BY <1>2, <1>4, <1>5, <1>6 DEF PoolInv

\* A task that ends gives its worker back, if a shutdown has left it one.
LEMMA FinishKeeps == PoolInv /\ (\E i \in TaskIds : Finish(i)) => PoolInv'
<1> SUFFICES ASSUME PoolInv, NEW i \in TaskIds, Finish(i) PROVE PoolInv'
  OBVIOUS
<1>1. PICK w : w = task[i].worker
  OBVIOUS
<1>2. /\ task[i].at = "running" /\ w \in 0..created /\ created \in Nat
      /\ UNCHANGED <<workers, created, launched, executing, batch, down>>
      /\ task \in [TaskIds -> [at : {"new", "waiting", "running", "done", "thrown"},
                               worker : 0..created]]
  BY <1>1 DEF Finish, PoolInv, Stocked
<1>3. PICK a : a = IF w # Nobody THEN "done" ELSE "thrown"
  OBVIOUS
<1>4. task' = [task EXCEPT ![i].at = a]
  BY <1>1, <1>3 DEF Finish
<1>5. /\ task'[i].at = a /\ task'[i].worker = w /\ a \in {"done", "thrown"}
      /\ \A j \in TaskIds : j # i => task'[j] = task[j]
      /\ DOMAIN task' = TaskIds
  BY <1>1, <1>2, <1>3, <1>4
<1>6. Looped' /\ Expected' /\ Awaited'
  <2>1. \A j \in TaskIds :
              /\ task'[j].at = "new" <=> task[j].at = "new"
              /\ j \in Ended => task'[j].at \in {"done", "thrown"}
    BY <1>2, <1>5 DEF Ended, Done, Thrown
  <2> QED
    BY <1>2, <1>5, <2>1, LoopKept DEF PoolInv
<1>7. CASE w = Nobody
  <2>1. idle' = idle /\ busy' = busy
    BY <1>1, <1>7 DEF Finish
  <2>2. Stocked'
    BY <1>2, <1>4, <1>5, <2>1 DEF PoolInv, Stocked
  <2>3. down
    <3>1. 0 \notin busy
      BY <1>2 DEF PoolInv, Stocked
    <3> QED
      BY <1>1, <1>2, <1>7, <3>1, ZenonT(30) DEF PoolInv, Manned, Nobody
  <2> QED
    BY <1>2, <1>6, <2>2, <2>3 DEF PoolInv, Manned
<1>8. CASE w # Nobody
  <2>1. busy' = busy \ {w} /\ idle' = Append(idle, w) /\ w \in 1..created
    BY <1>1, <1>2, <1>8 DEF Finish, ReleaseWorker, Nobody
  <2>2. PICK n : n = Len(idle)
    OBVIOUS
  <2>3. /\ n \in Nat /\ idle' \in Seq(1..created) /\ Len(idle') = n + 1 /\ idle'[n + 1] = w
        /\ \A k \in 1..n : idle'[k] = idle[k]
    BY <2>1, <2>2, AppendProperties, LenProperties DEF PoolInv, Stocked
  <2>4. Stocked'
    <3>1. busy' \in SUBSET (1..created)
      BY <2>1 DEF PoolInv, Stocked
    <3> QED
      BY <1>2, <1>4, <1>5, <2>3, <3>1 DEF PoolInv, Stocked
  <2>5. ASSUME ~down PROVE Manned'
    <3>1. /\ workers = 1..created /\ created <= MaxWorkers
          /\ \A k \in 1..n : idle[k] \notin busy
          /\ \A k, l \in 1..n : idle[k] = idle[l] => k = l
          /\ \A v \in workers : v \in busy \/ \E k \in 1..n : idle[k] = v
          /\ \A j \in TaskIds : task[j].at = "running" => task[j].worker \in busy
          /\ \A j, l \in TaskIds :
                /\ task[j].at = "running" /\ task[l].at = "running"
                /\ task[j].worker = task[l].worker
                => j = l
          /\ \A v \in busy : \E j \in TaskIds : task[j].at = "running" /\ task[j].worker = v
          /\ \A j \in TaskIds : task[j].at = "waiting" => created = MaxWorkers
      BY <2>2, <2>5 DEF PoolInv, Manned, Running
    <3>2. w \in busy
      BY <1>1, <1>2, <3>1
    <3>3. \A k \in 1..(n + 1) : k \in 1..n \/ k = n + 1
      BY <2>3
    <3>4. /\ \A k \in 1..(n + 1) : idle'[k] \notin busy'
          /\ \A k, l \in 1..(n + 1) : idle'[k] = idle'[l] => k = l
      BY <2>1, <2>3, <3>1, <3>2, <3>3
    <3>5. \A v \in workers : v \in busy' \/ \E k \in 1..(n + 1) : idle'[k] = v
      BY <2>1, <2>3, <3>1, <3>3
    <3>6. \A j \in TaskIds : task'[j].at = "running" => task[j].at = "running" /\ j # i
      BY <1>5
    <3>7. \A j \in TaskIds : task'[j].at = "running" => task'[j].worker \in busy'
      BY <1>1, <1>2, <1>5, <2>1, <3>1, <3>6
    <3>8. \A j, l \in TaskIds :
                /\ task'[j].at = "running" /\ task'[l].at = "running"
                /\ task'[j].worker = task'[l].worker
                => j = l
      BY <1>5, <3>1, <3>6
    <3>9. \A v \in busy' : \E j \in TaskIds : task'[j].at = "running" /\ task'[j].worker = v
      BY <1>1, <1>5, <2>1, <3>1
    <3>10. \A j \in TaskIds : task'[j].at = "waiting" => created = MaxWorkers
      BY <1>5, <3>1
    <3> QED
      BY <1>2, <2>3, <3>1, <3>4, <3>5, <3>7, <3>8, <3>9, <3>10 DEF Manned, Running
  <2> QED
    BY <1>2, <1>6, <2>4, <2>5 DEF PoolInv, Manned
<1> QED
  BY <1>7, <1>8

\* Every step of the batch, of a task and of shutdown() keeps the pool in order.
LEMMA PoolPreserved == PoolInv /\ [PoolNext]_poolVars => PoolInv'
<1> SUFFICES ASSUME PoolInv, [PoolNext]_poolVars PROVE PoolInv'
  OBVIOUS
<1>1. CASE Launch
  BY <1>1, LaunchKeeps
<1>2. CASE RaceEnds
  BY <1>2, RaceKeeps
<1>3. CASE Return
  <2>1. /\ batch' \in {"returned", "thrown"} /\ batch = "looping"
        /\ UNCHANGED <<workers, created, idle, busy, task, launched, executing, down>>
    BY <1>3 DEF Return
  <2>2. Stocked' /\ Manned' /\ Looped'
    BY <2>1 DEF PoolInv, Stocked, Manned, Looped, Running
  <2>3. Expected'
    BY <2>1 DEF Expected
  <2>4. Awaited'
    BY <2>1 DEF PoolInv, Awaited, Ended, Done, Thrown
  <2> QED
    BY <2>2, <2>3, <2>4 DEF PoolInv
<1>4. CASE Shutdown
  <2>1. Stocked' /\ Manned'
    BY <1>4 DEF Shutdown, PoolInv, Stocked, Manned
  <2>2. Looped' /\ Expected' /\ Awaited'
    BY <1>4 DEF Shutdown, PoolInv, Looped, Expected, Awaited, Ended, Done, Thrown
  <2> QED
    BY <2>1, <2>2 DEF PoolInv
<1>5. ASSUME NEW i \in TaskIds, Poll(i) PROVE PoolInv'
  <2>1. /\ task[i].at = "waiting" /\ TakeIdle(i)
        /\ UNCHANGED <<launched, executing, batch, down>>
    BY <1>5 DEF Poll
  <2>2. Stocked' /\ Manned'
    BY <2>1, TakeIdleKeeps DEF PoolInv
  <2>3. /\ task'[i].at = "running" /\ \A j \in TaskIds : j # i => task'[j] = task[j]
        /\ DOMAIN task' = TaskIds
    BY <2>1 DEF TakeIdle, Use, PoolInv, Stocked
  <2>4. \A j \in TaskIds :
              /\ task'[j].at = "new" <=> task[j].at = "new"
              /\ j \in Ended => task'[j].at \in {"done", "thrown"}
    BY <2>1, <2>3 DEF Ended, Done, Thrown
  <2>5. Looped' /\ Expected' /\ Awaited'
    BY <2>1, <2>3, <2>4, LoopKept DEF PoolInv
  <2> QED
    BY <2>2, <2>5 DEF PoolInv
<1>6. CASE \E i \in TaskIds : Finish(i)
  BY <1>6, FinishKeeps
<1>7. CASE UNCHANGED poolVars
  <2>1. Stocked' /\ Manned'
    BY <1>7 DEF poolVars, PoolInv, Stocked, Manned, Running
  <2>2. Looped' /\ Expected' /\ Awaited'
    BY <1>7 DEF poolVars, PoolInv, Looped, Expected, Awaited, Ended, Done, Thrown
  <2> QED
    BY <2>1, <2>2 DEF PoolInv
<1> QED
  BY <1>1, <1>2, <1>3, <1>4, <1>5, <1>6, <1>7 DEF PoolNext

\* What the workers of a batch do follows from the invariant.
LEMMA WorkersInOrder == PoolInv => WorkersAccounted
<1> SUFFICES ASSUME PoolInv, ~down PROVE WorkersAccounted
  BY DEF WorkersAccounted
<1>1. PICK n : n = Len(idle)
  OBVIOUS
<1>2. /\ workers = 1..created /\ created <= MaxWorkers
      /\ \A k \in 1..n : idle[k] \notin busy
      /\ \A k, l \in 1..n : idle[k] = idle[l] => k = l
      /\ \A v \in workers : v \in busy \/ \E k \in 1..n : idle[k] = v
      /\ \A j, l \in TaskIds :
            /\ task[j].at = "running" /\ task[l].at = "running"
            /\ task[j].worker = task[l].worker
            => j = l
      /\ \A v \in busy : \E j \in TaskIds : task[j].at = "running" /\ task[j].worker = v
      /\ \A j \in TaskIds : task[j].at = "waiting" => created = MaxWorkers
  BY <1>1 DEF PoolInv, Manned, Running
<1>3. /\ n \in Nat /\ DOMAIN idle = 1..n /\ busy \subseteq 1..created
      /\ \A k \in 1..n : idle[k] \in 1..created
  BY <1>1, LenProperties, ElementOfSeq DEF PoolInv, Stocked
<1>4. ToSet(idle) = {idle[k] : k \in 1..n}
  BY <1>3 DEF ToSet
<1>5. busy \cap ToSet(idle) = {} /\ busy \cup ToSet(idle) = workers
  <2>1. busy \cap ToSet(idle) = {}
    BY <1>2, <1>4
  <2>2. ToSet(idle) \subseteq workers /\ busy \subseteq workers
    BY <1>2, <1>3, <1>4
  <2>3. workers \subseteq busy \cup ToSet(idle)
    BY <1>2, <1>4
  <2> QED
    BY <2>1, <2>2, <2>3
<1>6. Cardinality(ToSet(idle)) = n
  <2>1. PICK f : f = [k \in 1..n |-> idle[k]]
    OBVIOUS
  <2>2. f \in [1..n -> ToSet(idle)]
    BY <1>4, <2>1
  <2>3. \A k, l \in 1..n : f[k] = f[l] => k = l
    BY <1>2, <2>1
  <2>4. \A t \in ToSet(idle) : \E k \in 1..n : f[k] = t
    BY <1>4, <2>1
  <2>5. f \in Bijection(1..n, ToSet(idle))
    BY <2>2, <2>3, <2>4 DEF Bijection, Injection, Surjection, IsInjective
  <2>6. IsFiniteSet(1..n) /\ Cardinality(1..n) = n
    BY <1>3, FS_Interval
  <2> QED
    BY <2>5, <2>6, FS_Bijection DEF ExistsBijection
<1>7. ASSUME NEW w \in busy
      PROVE  \E i \in TaskIds : \A j \in TaskIds :
                (task[j].at = "running" /\ task[j].worker = w) <=> j = i
  BY <1>2
<1> QED
  BY <1>1, <1>2, <1>5, <1>6, <1>7 DEF WorkersAccounted

\* As long as none of the first has ended, everything else in flight is the task
\* launched last.
LEMMA FirstOnesBound == PoolInv => LimitUntilFirstEnd
<1> SUFFICES ASSUME PoolInv, \A i \in Early : i \notin Ended
             PROVE  Cardinality(InFlight) <= Concurrency
  <2>1. Cardinality(InFlight) \in Nat
    <3>1. IsFiniteSet(TaskIds) /\ InFlight \in SUBSET TaskIds
      BY PoolAssumption, FS_Interval DEF PoolAssumption, TaskIds, InFlight
    <3> QED
      BY <3>1, FS_Subset, FS_CardinalityType
  <2> QED
    BY <2>1, PoolAssumption DEF LimitUntilFirstEnd, Early, Ended, PoolAssumption
<1> USE PoolSizes
<1>1. InFlight \subseteq Early \cup {launched}
  <2>1. ASSUME NEW i \in InFlight PROVE i \in Early \/ i = launched
    <3>1. i \in TaskIds /\ task[i].at \in {"waiting", "running"}
      BY DEF InFlight
    <3>3. i \notin Ended
      BY <3>1 DEF Ended, Done, Thrown
    <3>4. i <= launched /\ launched \in Int
      BY <3>1 DEF PoolInv, Looped, TaskIds
    <3>2. ASSUME i \notin Early PROVE i = launched
      <4>1. i \in Concurrency..launched
        BY <3>1, <3>2, <3>4 DEF Early, TaskIds
      <4> QED
        BY <3>3, <4>1 DEF PoolInv, Awaited
    <3> QED
      BY <3>2
  <2> QED
    BY <2>1
<1>2. IsFiniteSet(Early) /\ Cardinality(Early) = Concurrency - 1
  BY EarlyCounted
<1>3. /\ IsFiniteSet(Early \cup {launched})
      /\ Cardinality(Early \cup {launched}) <= Concurrency
  BY <1>2, FS_AddElement
<1>4. Cardinality(InFlight) <= Cardinality(Early \cup {launched})
  BY <1>1, <1>3, FS_Subset
<1>5. /\ Cardinality(InFlight) \in Nat /\ Cardinality(Early \cup {launched}) \in Nat
  BY <1>1, <1>3, FS_Subset, FS_CardinalityType
<1> QED
  BY <1>3, <1>4, <1>5

\* Until a shutdown workers and running tasks belong to each other, and the limit
\* holds until one of the first tasks has ended, for any number of tasks, workers
\* and any limit (WorkerPool.ts:100, :111, :142).
THEOREM PoolStaysSound == PoolSpec => []PoolSound
<1>1. PoolSpec => []PoolInv
  BY PoolStarts, PoolPreserved, PTL DEF PoolSpec
<1> QED
  BY <1>1, WorkersInOrder, FirstOnesBound, PTL DEF PoolSound
-----------------------------------------------------------------------------
(* The pool of tool workers *)

\* The rank numbers a set of positions from 1, in their order.
LEMMA RankFacts ==
    ASSUME NEW m \in Nat, NEW P \in SUBSET (1..m)
    PROVE  /\ IsFiniteSet(P) /\ Cardinality(P) \in Nat
           /\ \A i \in P : Rank(i, P) \in 1..Cardinality(P)
           /\ \A i, k \in P : Rank(i, P) = Rank(k, P) => i = k
           /\ \A i, k \in P : i <= k => Rank(i, P) <= Rank(k, P)
           /\ \A r \in 1..Cardinality(P) : \E i \in P : Rank(i, P) = r
<1> DEFINE U(i) == {k \in P : k <= i}
<1>0. \A i : Rank(i, P) = Cardinality(U(i))
  BY DEF Rank
<1> HIDE DEF U
<1>1. IsFiniteSet(P) /\ Cardinality(P) \in Nat
  <2>1. 1 \in Int /\ m \in Int /\ P \subseteq 1..m
    OBVIOUS
  <2>2. IsFiniteSet(1..m)
    BY <2>1, FS_Interval
  <2> QED BY <2>1, <2>2, FS_Subset, FS_CardinalityType
<1>2. ASSUME NEW i \in P
      PROVE  /\ i \in Nat /\ U(i) \subseteq P /\ i \in U(i) /\ IsFiniteSet(U(i))
             /\ Cardinality(U(i)) \in 1..Cardinality(P)
  <2>1. U(i) \subseteq P /\ i \in U(i) /\ i \in Nat
    BY DEF U
  <2>2. IsFiniteSet(U(i)) /\ Cardinality(U(i)) <= Cardinality(P) /\ Cardinality(U(i)) \in Nat
    BY <1>1, <2>1, FS_Subset, FS_CardinalityType
  <2>3. Cardinality(U(i)) # 0
    BY <2>1, <2>2, FS_EmptySet
  <2> QED BY <1>1, <2>1, <2>2, <2>3
<1>3. ASSUME NEW i \in P, NEW k \in P, i <= k
      PROVE  Cardinality(U(i)) <= Cardinality(U(k)) /\ (Cardinality(U(i)) = Cardinality(U(k)) => i = k)
  <2>1. U(i) \subseteq U(k)
    <3>1. i \in Nat /\ k \in Nat /\ \A x \in P : x \in Nat
      BY <1>2
    <3> SUFFICES ASSUME NEW x \in U(i) PROVE x \in U(k)
      OBVIOUS
    <3>2. x \in P /\ x <= i
      BY DEF U
    <3>3. x <= k
      BY <1>3, <3>1, <3>2
    <3> QED BY <3>2, <3>3 DEF U
  <2>2. Cardinality(U(i)) <= Cardinality(U(k)) /\ (Cardinality(U(i)) = Cardinality(U(k)) => U(i) = U(k))
    BY <1>2, <2>1, FS_Subset
  <2>3. U(i) = U(k) => i = k
    BY <1>2, <1>3 DEF U
  <2> QED BY <2>2, <2>3
<1>4. \A i, k \in P : Rank(i, P) = Rank(k, P) => i = k
  <2> SUFFICES ASSUME NEW i \in P, NEW k \in P, Rank(i, P) = Rank(k, P) PROVE i = k
    OBVIOUS
  <2>1. i <= k \/ k <= i
    BY <1>2
  <2> QED BY <1>0, <1>3, <2>1
<1>5. \A r \in 1..Cardinality(P) : \E i \in P : Rank(i, P) = r
  <2> DEFINE f == [i \in P |-> Cardinality(U(i))]
             T == 1..Cardinality(P)
  <2>1. f \in Injection(P, T)
    BY <1>0, <1>2, <1>4 DEF Injection, IsInjective
  <2>2. IsFiniteSet(T) /\ Cardinality(T) = Cardinality(P)
    BY <1>1, FS_Interval
  <2>3. f \in Surjection(P, T)
    BY <2>1, <2>2, FS_Injection
  <2> QED BY <1>0, <2>3 DEF Surjection
<1> QED BY <1>0, <1>1, <1>2, <1>3, <1>4, <1>5

\* Distinct calls in distinct places, of the queue and of the slots.
Apart(q, w) ==
    /\ \A i, k \in 1..Len(q) : q[i] = q[k] => i = k
    /\ \A i, k \in 1..Len(w) : w[i] = w[k] /\ w[i] # Idle => i = k
    /\ \A i \in 1..Len(q), k \in 1..Len(w) : q[i] # w[k]
Pool(q, w) ==
    /\ q \in Seq(ToolCalls) /\ w \in Seq(ToolCalls \cup {Idle}) /\ Len(w) <= PoolSize
    /\ Apart(q, w)

\* v is w without the members of S, in other positions.
Left(v, w, S) ==
    /\ Len(v) \in Nat /\ Len(v) <= Len(w)
    /\ \A n \in 1..Len(v) : \E i \in 1..Len(w) : v[n] = w[i] /\ w[i] \notin S
    /\ \A i \in 1..Len(w) : w[i] \notin S => \E n \in 1..Len(v) : v[n] = w[i]
    /\ \A n, o \in 1..Len(v) : \E i, k \in 1..Len(w) :
          v[n] = w[i] /\ v[o] = w[k] /\ (i = k => n = o)

\* Without leaves what it should, in distinct places.
LEMMA WithoutLeft ==
    ASSUME NEW X, NEW w \in Seq(X), NEW S
    PROVE  Without(w, S) \in Seq(X) /\ Left(Without(w, S), w, S)
<1> DEFINE K == {i \in 1..Len(w) : w[i] \notin S}
           c(n) == CHOOSE i \in K : Rank(i, K) = n
           v == Without(w, S)
<1>0. Len(w) \in Nat /\ K \in SUBSET (1..Len(w))
  BY LenProperties
<1>1. /\ IsFiniteSet(K) /\ Cardinality(K) \in Nat
      /\ \A i \in K : Rank(i, K) \in 1..Cardinality(K)
      /\ \A i, k \in K : Rank(i, K) = Rank(k, K) => i = k
      /\ \A r \in 1..Cardinality(K) : \E i \in K : Rank(i, K) = r
  <2> HIDE DEF K
  <2> QED BY <1>0, RankFacts
<1>2. \A n \in 1..Cardinality(K) : c(n) \in K /\ Rank(c(n), K) = n
  <2> HIDE DEF K
  <2> QED BY <1>1
<1>3. v = [n \in 1..Cardinality(K) |-> w[c(n)]]
  BY DEF Without
<1>4. Cardinality(K) <= Len(w)
  <2> HIDE DEF K
  <2>1. 1 \in Int /\ Len(w) \in Int /\ K \subseteq 1..Len(w)
    BY <1>0
  <2>2. /\ IsFiniteSet(1..Len(w))
        /\ Cardinality(1..Len(w)) = IF 1 > Len(w) THEN 0 ELSE Len(w) - 1 + 1
    BY <2>1, FS_Interval
  <2>3. Cardinality(1..Len(w)) = Len(w)
    BY <1>0, <2>2
  <2> QED BY <2>1, <2>2, <2>3, FS_Subset
<1> HIDE DEF c, v
<1>5. v \in Seq(X) /\ Len(v) = Cardinality(K)
  <2>1. \A n \in 1..Cardinality(K) : w[c(n)] \in X
    BY <1>2, ElementOfSeq
  <2> HIDE DEF K
  <2> QED BY <1>1, <1>3, <2>1, IsASeq, LenProperties
<1>6. \A n \in 1..Len(v) : c(n) \in 1..Len(w) /\ v[n] = w[c(n)] /\ w[c(n)] \notin S
  BY <1>2, <1>3, <1>5
<1>7. ASSUME NEW i \in 1..Len(w), w[i] \notin S PROVE \E n \in 1..Len(v) : v[n] = w[i]
  <2>1. i \in K
    BY <1>7
  <2>2. Rank(i, K) \in 1..Cardinality(K) /\ c(Rank(i, K)) = i
    BY <1>1, <1>2, <2>1
  <2> QED BY <1>5, <1>6, <2>2
<1>8. \A n, o \in 1..Len(v) : c(n) = c(o) => n = o
  BY <1>2, <1>5
<1>9. ASSUME NEW n \in 1..Len(v), NEW o \in 1..Len(v)
      PROVE  \E i, k \in 1..Len(w) : v[n] = w[i] /\ v[o] = w[k] /\ (i = k => n = o)
  BY <1>6, <1>8
<1>10. \A n \in 1..Len(v) : \E i \in 1..Len(w) : v[n] = w[i] /\ w[i] \notin S
  BY <1>6
<1>11. v \in Seq(X) /\ Left(v, w, S)
  BY <1>1, <1>4, <1>5, <1>7, <1>9, <1>10 DEF Left
<1> QED BY <1>11 DEF v

\* Positions after L that leave out none before them.
LEMMA NextPositions ==
    ASSUME NEW L \in Nat, NEW M \in Nat, L <= M, NEW D \in SUBSET ((L + 1)..M),
           \A k \in D : \A x \in (L + 1)..M : x <= k => x \in D
    PROVE  Cardinality(D) \in Nat /\ D = (L + 1)..(L + Cardinality(D)) /\ L + Cardinality(D) <= M
<1>0. /\ L + 1 \in Int /\ M \in Int /\ IsFiniteSet((L + 1)..M)
      /\ Cardinality((L + 1)..M) = IF L + 1 > M THEN 0 ELSE M - (L + 1) + 1
  BY FS_Interval
<1>1. IsFiniteSet(D) /\ Cardinality(D) \in Nat /\ Cardinality(D) <= M - L
  <2>1. IsFiniteSet(D) /\ Cardinality(D) <= Cardinality((L + 1)..M)
    BY <1>0, FS_Subset
  <2> QED BY <1>0, <2>1, FS_CardinalityType
<1>2. ASSUME NEW k \in D PROVE k <= L + Cardinality(D)
  <2>1. (L + 1)..k \subseteq D
    OBVIOUS
  <2>2. k \in Int /\ k >= L + 1 /\ Cardinality((L + 1)..k) = IF L + 1 > k THEN 0 ELSE k - (L + 1) + 1
    <3>1. k \in Int /\ L + 1 \in Int /\ k >= L + 1
      OBVIOUS
    <3> QED BY <3>1, FS_Interval
  <2>3. Cardinality((L + 1)..k) <= Cardinality(D)
    BY <1>1, <2>1, FS_Subset
  <2> QED BY <1>1, <2>2, <2>3
<1>3. ASSUME NEW k \in (L + 1)..(L + Cardinality(D)), k \notin D PROVE FALSE
  <2>1. k \in Int /\ k - 1 \in Int /\ L + 1 \in Int /\ k >= L + 1 /\ k <= M
    BY <1>1
  <2>2. D \subseteq (L + 1)..(k - 1)
    BY <1>3, <2>1
  <2>3. /\ IsFiniteSet((L + 1)..(k - 1))
        /\ Cardinality((L + 1)..(k - 1)) = IF L + 1 > k - 1 THEN 0 ELSE k - 1 - (L + 1) + 1
    BY <2>1, FS_Interval
  <2>4. Cardinality(D) <= Cardinality((L + 1)..(k - 1))
    BY <2>2, <2>3, FS_Subset
  <2> QED BY <1>1, <1>3, <2>1, <2>3, <2>4
<1> QED
  <2>1. \A k \in D : k \in (L + 1)..(L + Cardinality(D))
    BY <1>1, <1>2
  <2>2. \A k \in (L + 1)..(L + Cardinality(D)) : k \in D
    BY <1>3
  <2>3. D = (L + 1)..(L + Cardinality(D))
    <3> DEFINE I == (L + 1)..(L + Cardinality(D))
    <3>1. (\A k \in D : k \in I) /\ \A k \in I : k \in D
      BY <2>1, <2>2
    <3> HIDE DEF I
    <3>2. D = I
      BY <3>1
    <3> QED BY <3>2 DEF I
  <2> QED BY <1>1, <2>3

\* drain() moves the head of the queue to slots of its own, and leaves a call
\* in the queue only when every slot is at work.
LEMMA DrainFacts ==
    ASSUME NEW q, NEW w, Pool(q, w), Drain(q, w)
    PROVE  /\ Pool(queue', slots') /\ FullWhileQueued'
           /\ \A j \in ToolCalls : /\ In(j, queue') \/ In(j, slots') <=> In(j, q) \/ In(j, w)
                                   /\ In(j, queue') => In(j, q)
<1> DEFINE P == Places(w)
           n == IF Len(q) < Cardinality(P) THEN Len(q) ELSE Cardinality(P)
           R(i) == Rank(i, P)
           T == {i \in P : R(i) <= n}
           L == Len(w)
           D == {k \in T : k > L}
           m == Cardinality(D)
<1>0. PoolSize \in Nat /\ q \in Seq(ToolCalls) /\ w \in Seq(ToolCalls \cup {Idle}) /\ L \in Nat /\ L <= PoolSize
      /\ Len(q) \in Nat /\ Idle \notin ToolCalls
  BY ToolPoolAssumption, LenProperties DEF Pool, ToolPoolAssumption
<1>1. P \in SUBSET (1..PoolSize) /\ \A i \in 1..PoolSize : i \in P <=> (i > L \/ w[i] = Idle)
  BY DEF Places
<1>2. queue' = SubSeq(q, n + 1, Len(q)) /\ slots' = [i \in 1..(L + m) |-> IF i \in T THEN q[R(i)] ELSE w[i]]
  BY DEF Drain
<1> HIDE DEF P
<1>3. /\ IsFiniteSet(P) /\ Cardinality(P) \in Nat
      /\ \A i \in P : R(i) \in 1..Cardinality(P)
      /\ \A i, k \in P : R(i) = R(k) => i = k
      /\ \A i, k \in P : i <= k => R(i) <= R(k)
      /\ \A r \in 1..Cardinality(P) : \E i \in P : R(i) = r
  BY <1>0, <1>1, RankFacts
<1> HIDE DEF R
<1>4. n \in Nat /\ n <= Len(q) /\ n <= Cardinality(P) /\ (n < Len(q) => n = Cardinality(P))
  BY <1>0, <1>3
<1> HIDE DEF n
<1>5. /\ \A i \in T : i \in P /\ R(i) \in 1..n
      /\ \A r \in 1..n : \E i \in T : R(i) = r
      /\ n < Len(q) => T = P
  BY <1>3, <1>4
<1>6. m \in Nat /\ L + m <= PoolSize /\ D = (L + 1)..(L + m)
  <2>1. D \in SUBSET ((L + 1)..PoolSize)
    <3> SUFFICES ASSUME NEW k \in D PROVE k \in (L + 1)..PoolSize
      OBVIOUS
    <3>1. k \in P /\ k > L
      OBVIOUS
    <3>2. k \in 1..PoolSize
      BY <1>1, <3>1
    <3> QED BY <1>0, <3>1, <3>2
  <2>2. \A k \in D : \A x \in (L + 1)..PoolSize : x <= k => x \in D
    <3> SUFFICES ASSUME NEW k \in D, NEW x \in (L + 1)..PoolSize, x <= k PROVE x \in D
      OBVIOUS
    <3>0. k \in P /\ R(k) <= n /\ x \in 1..PoolSize /\ x > L
      BY <1>0
    <3>1. x \in P /\ k \in P /\ R(k) <= n
      BY <1>1, <3>0
    <3>2. R(x) <= R(k) /\ R(x) \in Nat /\ R(k) \in Nat
      BY <1>3, <3>1
    <3> QED BY <1>0, <1>4, <3>1, <3>2
  <2> HIDE DEF D
  <2> QED BY <1>0, <2>1, <2>2, NextPositions
<1>7. \A i \in T : i \in 1..(L + m)
  <2> SUFFICES ASSUME NEW i \in T PROVE i \in 1..(L + m)
    OBVIOUS
  <2>1. i \in 1..PoolSize /\ (i <= L \/ i \in D)
    BY <1>0, <1>1
  <2> QED BY <1>0, <1>6, <2>1
<1>8. \A i \in 1..(L + m) : i \notin T => i \in 1..L
  BY <1>0, <1>6
<1> HIDE DEF T, D, m
<1>9. /\ queue' \in Seq(ToolCalls) /\ Len(queue') = Len(q) - n
      /\ \A k \in 1..Len(queue') : queue'[k] = q[n + k] /\ n + k \in 1..Len(q)
  BY <1>0, <1>2, <1>4, SubSeqProperties
<1>10. \A i \in 1..(L + m) :
           /\ (i \in T => (slots'[i] = q[R(i)] /\ R(i) \in 1..Len(q) /\ slots'[i] \in ToolCalls))
           /\ (i \notin T => (slots'[i] = w[i] /\ slots'[i] \in ToolCalls \cup {Idle}))
  <2> SUFFICES ASSUME NEW i \in 1..(L + m)
               PROVE  /\ (i \in T => (slots'[i] = q[R(i)] /\ R(i) \in 1..Len(q) /\ slots'[i] \in ToolCalls))
                      /\ (i \notin T => (slots'[i] = w[i] /\ slots'[i] \in ToolCalls \cup {Idle}))
    OBVIOUS
  <2>1. i \in T => R(i) \in 1..Len(q)
    BY <1>0, <1>4, <1>5
  <2>2. i \in T => q[R(i)] \in ToolCalls
    BY <1>0, <2>1, ElementOfSeq
  <2>3. i \notin T => w[i] \in ToolCalls \cup {Idle}
    BY <1>0, <1>8, ElementOfSeq
  <2>4. slots'[i] = IF i \in T THEN q[R(i)] ELSE w[i]
    BY <1>2
  <2> QED BY <2>1, <2>2, <2>3, <2>4
<1>11. slots' \in Seq(ToolCalls \cup {Idle}) /\ Len(slots') = L + m
  <2>1. L + m \in Nat
    BY <1>0, <1>6
  <2> QED BY <1>2, <1>10, <2>1, IsASeq, LenProperties
<1>12. Apart(q, w)
  BY DEF Pool
<1>13. Apart(queue', slots')
  <2>1. \A i, k \in 1..Len(queue') : queue'[i] = queue'[k] => i = k
    BY <1>4, <1>9, <1>12 DEF Apart
  <2>2. ASSUME NEW i \in 1..(L + m), NEW k \in 1..(L + m), slots'[i] = slots'[k], slots'[i] # Idle
        PROVE  i = k
    <3>1. CASE i \in T /\ k \in T
      <4>1. R(i) = R(k)
        BY <1>10, <1>12, <2>2, <3>1 DEF Apart
      <4> QED BY <1>3, <1>5, <3>1, <4>1
    <3>2. CASE i \notin T /\ k \notin T
      BY <1>8, <1>10, <1>12, <2>2, <3>2 DEF Apart
    <3>3. CASE i \in T /\ k \notin T
      BY <1>8, <1>10, <1>12, <2>2, <3>3 DEF Apart
    <3>4. CASE i \notin T /\ k \in T
      BY <1>8, <1>10, <1>12, <2>2, <3>4 DEF Apart
    <3> QED BY <3>1, <3>2, <3>3, <3>4
  <2>3. ASSUME NEW i \in 1..Len(queue'), NEW k \in 1..(L + m), queue'[i] = slots'[k] PROVE FALSE
    <3>1. queue'[i] = q[n + i] /\ n + i \in 1..Len(q) /\ i \in Nat /\ i >= 1
      BY <1>9
    <3>2. CASE k \in T
      <4>1. R(k) \in 1..n /\ slots'[k] = q[R(k)] /\ R(k) \in 1..Len(q)
        BY <1>5, <1>10, <3>2
      <4>2. n + i = R(k)
        BY <1>12, <2>3, <3>1, <4>1 DEF Apart
      <4> QED BY <1>4, <3>1, <4>1, <4>2
    <3>3. CASE k \notin T
      BY <1>8, <1>10, <1>12, <2>3, <3>1, <3>3, ZenonT(30) DEF Apart
    <3> QED BY <3>2, <3>3
  <2> QED BY <1>11, <2>1, <2>2, <2>3 DEF Apart
<1>14. FullWhileQueued'
  <2> SUFFICES ASSUME queue' # <<>> PROVE Len(slots') = PoolSize /\ ~In(Idle, slots')
    BY DEF FullWhileQueued
  <2>1. n < Len(q)
    <3>1. Len(queue') # 0
      BY <1>9, EmptySeq
    <3> QED BY <1>0, <1>4, <1>9, <3>1
  <2>2. T = P
    BY <1>5, <2>1
  <2>3. Len(slots') = PoolSize
    <3>1. CASE L = PoolSize
      BY <1>0, <1>6, <1>11, <3>1
    <3>2. CASE L < PoolSize
      <4>1. PoolSize \in T
        BY <1>0, <1>1, <2>2, <3>2
      <4> QED BY <1>0, <1>6, <1>7, <1>11, <4>1
    <3> QED BY <1>0, <3>1, <3>2
  <2>4. ASSUME NEW i \in 1..Len(slots'), slots'[i] = Idle PROVE FALSE
    <3>1. i \notin T
      BY <1>0, <1>10, <1>11, <2>4
    <3>2. i \in 1..L /\ w[i] = Idle
      BY <1>8, <1>10, <1>11, <2>4, <3>1
    <3> QED BY <1>0, <1>1, <2>2, <3>1, <3>2
  <2> QED BY <2>3, <2>4 DEF In
<1>15. ASSUME NEW j \in ToolCalls
       PROVE  /\ In(j, queue') \/ In(j, slots') <=> In(j, q) \/ In(j, w)
              /\ In(j, queue') => In(j, q)
  <2>1. In(j, queue') => In(j, q)
    BY <1>9 DEF In
  <2>2. In(j, slots') => In(j, q) \/ In(j, w)
    BY <1>8, <1>10, <1>11 DEF In
  <2>3. In(j, w) => In(j, slots')
    <3> SUFFICES ASSUME NEW i \in 1..L, w[i] = j PROVE In(j, slots')
      BY DEF In
    <3>1. i \notin P
      BY <1>0, <1>1
    <3>2. i \in 1..(L + m) /\ i \notin T
      BY <1>0, <1>5, <1>6, <3>1
    <3> QED BY <1>10, <1>11, <3>2 DEF In
  <2>4. In(j, q) => In(j, queue') \/ In(j, slots')
    <3> SUFFICES ASSUME NEW r \in 1..Len(q), q[r] = j PROVE In(j, queue') \/ In(j, slots')
      BY DEF In
    <3>1. CASE r <= n
      <4>1. PICK i \in T : R(i) = r
        BY <1>4, <1>5, <3>1
      <4> QED BY <1>7, <1>10, <1>11, <4>1 DEF In
    <3>2. CASE r > n
      <4>1. r - n \in 1..Len(queue') /\ n + (r - n) = r
        BY <1>0, <1>4, <1>9, <3>2
      <4> QED BY <1>9, <4>1 DEF In
    <3> QED BY <1>0, <1>4, <3>1, <3>2
  <2> QED BY <2>1, <2>2, <2>3, <2>4
<1> QED BY <1>0, <1>6, <1>9, <1>11, <1>13, <1>14, <1>15 DEF Pool

\* A call belongs to one batch.
LEMMA BatchFacts ==
    /\ \A b \in Batches : CallsOf[b] \in Seq(ToolCalls)
    /\ \A b \in Batches : \A j : In(j, CallsOf[b]) => j \in ToolCalls /\ BatchOf(j) = b
    /\ \A j \in ToolCalls : BatchOf(j) \in Batches /\ In(j, CallsOf[BatchOf(j)])
<1>1. \A b \in Batches : CallsOf[b] \in Seq(ToolCalls)
  BY ToolPoolAssumption DEF ToolPoolAssumption
<1>2. ASSUME NEW b \in Batches, NEW j, In(j, CallsOf[b]) PROVE j \in ToolCalls
  BY <1>2 DEF In, ToolCalls
<1>3. ASSUME NEW j \in ToolCalls PROVE \E b \in Batches : In(j, CallsOf[b])
  BY DEF In, ToolCalls
<1>4. ASSUME NEW j \in ToolCalls PROVE BatchOf(j) \in Batches /\ In(j, CallsOf[BatchOf(j)])
  BY <1>3 DEF BatchOf
<1>5. ASSUME NEW b \in Batches, NEW j, In(j, CallsOf[b]) PROVE BatchOf(j) = b
  <2>1. \A c, d \in Batches : In(j, CallsOf[c]) /\ In(j, CallsOf[d]) => c = d
    BY <1>2, <1>5, ToolPoolAssumption DEF ToolPoolAssumption
  <2> QED BY <1>2, <1>4, <1>5, <2>1
<1> QED BY <1>1, <1>2, <1>4, <1>5

\* A call is in a place exactly while its batch waits for its answer.
Placed(j) == In(j, queue) \/ In(j, slots)
Owed(j) == stage[BatchOf(j)] = "out" /\ answer[j] = "none"
ToolInv ==
    /\ stage \in [Batches -> {"new", "out", "back"}]
    /\ signal \in [Batches -> BOOLEAN]
    /\ answer \in [ToolCalls -> Answers]
    /\ onMain \subseteq MainThread /\ replied \subseteq MainThread
    /\ Pool(queue, slots)
    /\ FullWhileQueued
    /\ \A j \in ToolCalls :
          /\ Placed(j) <=> Owed(j)
          /\ stage[BatchOf(j)] = "new" => answer[j] = "none"
          /\ signal[BatchOf(j)] => ~In(j, queue)

NoLate == \A j \in ToolCalls : signal'[BatchOf(j)] /\ ~AtWork(j) => ~AtWork(j)'

\* A step that ends in drain() is right if what it gives to drain() is.
LEMMA AfterDrain ==
    ASSUME ToolInv, NEW q, NEW w, Pool(q, w), Drain(q, w),
           stage' \in [Batches -> {"new", "out", "back"}],
           signal' \in [Batches -> BOOLEAN],
           answer' \in [ToolCalls -> Answers],
           onMain' \subseteq MainThread, replied' \subseteq MainThread,
           \A j \in ToolCalls : In(j, q) \/ In(j, w) <=> stage'[BatchOf(j)] = "out" /\ answer'[j] = "none",
           \A j \in ToolCalls : stage'[BatchOf(j)] = "new" => answer'[j] = "none",
           \A j \in ToolCalls : signal'[BatchOf(j)] => ~In(j, q),
           \A j \in ToolCalls : In(j, w) => In(j, slots)
    PROVE  ToolInv' /\ NoLate
<1>1. /\ Pool(queue', slots') /\ FullWhileQueued'
      /\ \A j \in ToolCalls : In(j, queue') \/ In(j, slots') <=> In(j, q) \/ In(j, w)
      /\ \A j \in ToolCalls : In(j, queue') => In(j, q)
  BY DrainFacts
<1>2. ToolInv'
  BY <1>1 DEF ToolInv, Placed, Owed
<1>3. NoLate
  BY <1>1 DEF NoLate, AtWork
<1> QED BY <1>2, <1>3

\* What is left is what was there, but for S.
LEMMA LeftIn ==
    ASSUME NEW v, NEW w, NEW S, Left(v, w, S), NEW j
    PROVE  In(j, v) <=> In(j, w) /\ j \notin S
<1>1. ASSUME In(j, v) PROVE In(j, w) /\ j \notin S
  <2>1. PICK n \in 1..Len(v) : v[n] = j
    BY <1>1 DEF In
  <2>2. PICK i \in 1..Len(w) : v[n] = w[i] /\ w[i] \notin S
    BY DEF Left
  <2> QED BY <2>1, <2>2 DEF In
<1>2. ASSUME In(j, w), j \notin S PROVE In(j, v)
  <2>1. PICK i \in 1..Len(w) : w[i] = j
    BY <1>2 DEF In
  <2>2. PICK n \in 1..Len(v) : v[n] = w[i]
    BY <1>2, <2>1 DEF Left
  <2> QED BY <2>1, <2>2 DEF In
<1> QED BY <1>1, <1>2

\* A proper pool stays one when calls leave the queue and slots are removed.
LEMMA LeftPool ==
    ASSUME NEW q, NEW w, Pool(q, w), NEW r, NEW v, NEW S, NEW T,
           r \in Seq(ToolCalls), v \in Seq(ToolCalls \cup {Idle}), Left(r, q, S), Left(v, w, T)
    PROVE  Pool(r, v)
<1>1. Apart(q, w) /\ Len(w) <= PoolSize /\ Len(w) \in Nat /\ PoolSize \in Nat
  BY ToolPoolAssumption, LenProperties DEF Pool, ToolPoolAssumption
<1>2. Len(v) <= PoolSize
  BY <1>1 DEF Left
<1>3. \A i, k \in 1..Len(r) : r[i] = r[k] => i = k
  BY <1>1 DEF Left, Apart
<1>4. ASSUME NEW i \in 1..Len(v), NEW k \in 1..Len(v), v[i] = v[k], v[i] # Idle PROVE i = k
  <2>1. PICK x, y \in 1..Len(w) : v[i] = w[x] /\ v[k] = w[y] /\ (x = y => i = k)
    BY DEF Left
  <2> QED BY <1>1, <1>4, <2>1 DEF Apart
<1>5. ASSUME NEW i \in 1..Len(r), NEW k \in 1..Len(v) PROVE r[i] # v[k]
  <2>1. PICK x \in 1..Len(q) : r[i] = q[x]
    BY DEF Left
  <2>2. PICK y \in 1..Len(w) : v[k] = w[y]
    BY DEF Left
  <2> QED BY <1>1, <2>1, <2>2 DEF Apart
<1> QED BY <1>2, <1>3, <1>4, <1>5 DEF Pool, Apart

\* Everything is left when nothing leaves.
LEMMA NothingLeft ==
    ASSUME NEW X, NEW w \in Seq(X)
    PROVE  Left(w, w, {})
BY LenProperties DEF Left

\* What the invariant says of the pool, for the steps below.
LEMMA ToolFacts ==
    ASSUME ToolInv
    PROVE  /\ queue \in Seq(ToolCalls) /\ slots \in Seq(ToolCalls \cup {Idle})
           /\ Len(queue) \in Nat /\ Len(slots) \in Nat /\ Len(slots) <= PoolSize /\ PoolSize \in Nat
           /\ Pool(queue, slots) /\ Apart(queue, slots) /\ Idle \notin ToolCalls
           /\ \A j \in ToolCalls : ~(In(j, queue) /\ In(j, slots))
           /\ \A j : In(j, slots) /\ j # Idle => j \in ToolCalls
           /\ \A j : In(j, queue) => j \in ToolCalls
<1>1. Pool(queue, slots) /\ Apart(queue, slots)
  BY DEF ToolInv, Pool
<1>2. queue \in Seq(ToolCalls) /\ slots \in Seq(ToolCalls \cup {Idle}) /\ Len(slots) <= PoolSize
  BY <1>1 DEF Pool
<1>3. Len(queue) \in Nat /\ Len(slots) \in Nat /\ PoolSize \in Nat /\ Idle \notin ToolCalls
  BY <1>2, LenProperties, ToolPoolAssumption DEF ToolPoolAssumption
<1>4. \A j \in ToolCalls : ~(In(j, queue) /\ In(j, slots))
  BY <1>1 DEF Apart, In
<1>5. \A j : In(j, slots) /\ j # Idle => j \in ToolCalls
  BY <1>2, ElementOfSeq DEF In
<1>6. \A j : In(j, queue) => j \in ToolCalls
  BY <1>2, ElementOfSeq DEF In
<1> QED BY <1>1, <1>2, <1>3, <1>4, <1>5, <1>6

\* The pool starts empty, before any batch.
LEMMA ToolInitially == Init => ToolInv
<1> SUFFICES ASSUME Init PROVE ToolInv
  OBVIOUS
<1>1. queue = <<>> /\ slots = <<>> /\ Len(queue) = 0 /\ Len(slots) = 0
  BY DEF Init
<1>2. PoolSize \in Nat
  BY ToolPoolAssumption DEF ToolPoolAssumption
<1>3. Pool(queue, slots)
  <2>1. queue \in Seq(ToolCalls) /\ slots \in Seq(ToolCalls \cup {Idle})
    BY <1>1, EmptySeq
  <2> QED BY <1>1, <1>2, <2>1 DEF Pool, Apart
<1>4. \A j : ~In(j, queue) /\ ~In(j, slots)
  BY <1>1 DEF In
<1>5. \A j \in ToolCalls : ~Owed(j) /\ answer[j] = "none" /\ ~signal[BatchOf(j)]
  BY BatchFacts DEF Init, Owed
<1> QED BY <1>1, <1>3, <1>4, <1>5 DEF Init, ToolInv, Answers, FullWhileQueued, Placed

\* Submit: the calls of a new batch are nowhere yet.
LEMMA SubmitStep ==
    ASSUME ToolInv, NEW b \in Batches, Submit(b)
    PROVE  ToolInv' /\ NoLate
<1> DEFINE C == CallsOf[b]
<1>0. /\ stage[b] = "new" /\ stage' = [stage EXCEPT ![b] = "out"]
      /\ signal' = signal /\ onMain' = onMain /\ replied' = replied
  BY DEF Submit
<1>1. \A j \in ToolCalls : In(j, C) <=> BatchOf(j) = b
  BY BatchFacts
<1>2. \A j \in ToolCalls : In(j, C) => ~Placed(j) /\ answer[j] = "none"
  BY <1>0, <1>1 DEF ToolInv, Owed
<1>3. /\ stage' \in [Batches -> {"new", "out", "back"}] /\ signal' \in [Batches -> BOOLEAN]
      /\ onMain' \subseteq MainThread /\ replied' \subseteq MainThread
      /\ \A j \in ToolCalls : stage'[BatchOf(j)] = IF In(j, C) THEN "out" ELSE stage[BatchOf(j)]
  BY <1>0, <1>1, BatchFacts DEF ToolInv
<1>4. CASE signal[b]
  <2>1. /\ queue' = queue /\ slots' = slots
        /\ answer' = [j \in ToolCalls |-> IF j \in {k \in ToolCalls : In(k, C)} THEN "aborted" ELSE answer[j]]
    BY <1>4 DEF Submit, Answered
  <2>2. answer' \in [ToolCalls -> Answers]
    BY <2>1 DEF ToolInv, Answers
  <2>3. \A j \in ToolCalls : answer'[j] = IF In(j, C) THEN "aborted" ELSE answer[j]
    BY <2>1
  <2>4. \A j \in ToolCalls : /\ Placed(j)' <=> Placed(j)
                             /\ Owed(j)' <=> ~In(j, C) /\ Owed(j)
                             /\ stage'[BatchOf(j)] = "new" => answer'[j] = "none"
    BY <1>3, <2>1, <2>3 DEF ToolInv, Placed, Owed
  <2>5. \A j \in ToolCalls : Placed(j)' <=> Owed(j)'
    BY <1>2, <2>4 DEF ToolInv
  <2>6. ToolInv'
    BY <1>0, <1>3, <2>1, <2>2, <2>4, <2>5 DEF ToolInv, FullWhileQueued
  <2> QED BY <2>1, <2>6 DEF NoLate, AtWork
<1>5. CASE ~signal[b]
  <2> DEFINE q == queue \o C
  <2>1. Drain(q, slots) /\ answer' = answer
    BY <1>5 DEF Submit
  <2>2. C \in Seq(ToolCalls) /\ Len(C) \in Nat
    BY BatchFacts, LenProperties
  <2>3. q \in Seq(ToolCalls) /\ Len(q) = Len(queue) + Len(C)
        /\ \A i \in 1..Len(q) : q[i] = IF i <= Len(queue) THEN queue[i] ELSE C[i - Len(queue)]
    BY <2>2, ToolFacts, ConcatProperties
  <2> HIDE DEF q
  <2>4. \A j : In(j, q) <=> In(j, queue) \/ In(j, C)
    <3>1. ASSUME NEW j, In(j, q) PROVE In(j, queue) \/ In(j, C)
      <4>1. PICK i \in 1..Len(q) : q[i] = j
        BY <3>1 DEF In
      <4>2. CASE i <= Len(queue)
        <5>1. i \in 1..Len(queue) /\ queue[i] = j
          BY <2>2, <2>3, <4>1, <4>2, ToolFacts
        <5> QED BY <5>1 DEF In
      <4>3. CASE ~(i <= Len(queue))
        <5>1. i - Len(queue) \in 1..Len(C) /\ C[i - Len(queue)] = j
          BY <2>2, <2>3, <4>1, <4>3, ToolFacts
        <5> QED BY <5>1 DEF In
      <4> QED BY <4>2, <4>3
    <3>2. ASSUME NEW j, In(j, queue) PROVE In(j, q)
      <4>1. PICK i \in 1..Len(queue) : queue[i] = j
        BY <3>2 DEF In
      <4>2. i \in 1..Len(q) /\ i <= Len(queue)
        BY <2>2, <2>3, ToolFacts
      <4> QED BY <2>3, <4>1, <4>2 DEF In
    <3>3. ASSUME NEW j, In(j, C) PROVE In(j, q)
      <4>1. PICK i \in 1..Len(C) : C[i] = j
        BY <3>3 DEF In
      <4>2. /\ Len(queue) + i \in 1..Len(q) /\ ~(Len(queue) + i <= Len(queue))
            /\ (Len(queue) + i) - Len(queue) = i
        BY <2>2, <2>3, ToolFacts
      <4> QED BY <2>3, <4>1, <4>2 DEF In
    <3> QED BY <3>1, <3>2, <3>3
  <2>5. Pool(q, slots)
    <3>1. ASSUME NEW i \in 1..Len(q), NEW k \in 1..Len(q), q[i] = q[k] PROVE i = k
      <4>1. CASE i <= Len(queue) /\ k <= Len(queue)
        BY <2>3, <3>1, <4>1, ToolFacts DEF Apart
      <4>2. CASE ~(i <= Len(queue)) /\ ~(k <= Len(queue))
        <5>1. i - Len(queue) \in 1..Len(C) /\ k - Len(queue) \in 1..Len(C)
          BY <2>2, <2>3, <4>2, ToolFacts
        <5>2. C[i - Len(queue)] = C[k - Len(queue)]
          BY <2>3, <3>1, <4>2
        <5>3. i - Len(queue) = k - Len(queue)
          BY <5>1, <5>2, ToolPoolAssumption DEF ToolPoolAssumption
        <5> QED BY <5>3, ToolFacts
      <4>3. ASSUME NEW x \in 1..Len(q), NEW y \in 1..Len(q), q[x] = q[y],
                   x <= Len(queue), ~(y <= Len(queue))
            PROVE  FALSE
        <5>1. x \in 1..Len(queue) /\ y - Len(queue) \in 1..Len(C)
          BY <2>2, <2>3, <4>3, ToolFacts
        <5>2. In(q[x], queue) /\ In(q[x], C)
          BY <2>3, <4>3, <5>1 DEF In
        <5> QED BY <1>2, <5>2, ToolFacts DEF Placed
      <4> QED BY <3>1, <4>1, <4>2, <4>3
    <3>2. ASSUME NEW i \in 1..Len(q), NEW k \in 1..Len(slots), q[i] = slots[k] PROVE FALSE
      <4>1. In(q[i], slots) /\ In(q[i], q)
        BY <3>2 DEF In
      <4> QED BY <1>2, <2>4, <4>1, ToolFacts, BatchFacts DEF Placed
    <3> QED BY <2>3, <3>1, <3>2, ToolFacts DEF Pool, Apart
  <2>6. \A j \in ToolCalls : In(j, q) \/ In(j, slots) <=> stage'[BatchOf(j)] = "out" /\ answer'[j] = "none"
    BY <1>2, <1>3, <2>1, <2>4 DEF ToolInv, Placed, Owed
  <2>7. \A j \in ToolCalls : stage'[BatchOf(j)] = "new" => answer'[j] = "none"
    BY <1>3, <2>1 DEF ToolInv
  <2>8. \A j \in ToolCalls : signal'[BatchOf(j)] => ~In(j, q)
    BY <1>0, <1>1, <1>5, <2>4 DEF ToolInv
  <2>9. answer' \in [ToolCalls -> Answers]
    BY <2>1 DEF ToolInv
  <2> QED BY <1>3, <2>1, <2>5, <2>6, <2>7, <2>8, <2>9, AfterDrain
<1> QED BY <1>4, <1>5

\* ReturnBatch: a batch that comes back has no call in the pool.
LEMMA ReturnStep ==
    ASSUME ToolInv, NEW b \in Batches, ReturnBatch(b)
    PROVE  ToolInv' /\ NoLate
<1>1. /\ stage' = [stage EXCEPT ![b] = "back"]
      /\ \A j \in ToolCalls : BatchOf(j) = b => answer[j] # "none"
      /\ signal' = signal /\ queue' = queue /\ slots' = slots /\ answer' = answer
      /\ onMain' = onMain /\ replied' = replied
  BY BatchFacts DEF ReturnBatch, In
<1>2. stage' \in [Batches -> {"new", "out", "back"}]
  BY <1>1 DEF ToolInv
<1>3. \A j \in ToolCalls : stage'[BatchOf(j)] = IF BatchOf(j) = b THEN "back" ELSE stage[BatchOf(j)]
  BY <1>1, BatchFacts DEF ToolInv
<1>4. \A j \in ToolCalls : (Placed(j)' <=> Placed(j)) /\ (Owed(j)' <=> Owed(j))
  BY <1>1, <1>3 DEF Placed, Owed
<1>5. \A j \in ToolCalls : stage'[BatchOf(j)] = "new" => answer'[j] = "none"
  BY <1>1, <1>3 DEF ToolInv
<1>6. ToolInv'
  BY <1>1, <1>2, <1>4, <1>5 DEF ToolInv, FullWhileQueued
<1> QED BY <1>1, <1>6 DEF NoLate, AtWork

\* finishJob: the call leaves its slot, which is idle again or removed.
LEMMA FinishStep ==
    ASSUME ToolInv, NEW j \in ToolCalls, NEW how \in Answers \ {"none"}, AtWork(j), FinishJob(j, how)
    PROVE  ToolInv' /\ NoLate
<1> DEFINE w == IF how = "result" THEN [i \in 1..Len(slots) |-> IF slots[i] = j THEN Idle ELSE slots[i]]
                                  ELSE Without(slots, {j})
<1>1. /\ answer' = [k \in ToolCalls |-> IF k \in {j} THEN how ELSE answer[k]] /\ Drain(queue, w)
      /\ stage' = stage /\ signal' = signal /\ onMain' = onMain /\ replied' = replied
  BY DEF FinishJob, Answered
<1>2. Pool(queue, w) /\ \A k \in ToolCalls : In(k, w) <=> In(k, slots) /\ k # j
  <2>1. CASE how = "result"
    <3>1. w = [i \in 1..Len(slots) |-> IF slots[i] = j THEN Idle ELSE slots[i]]
      BY <2>1
    <3> HIDE DEF w
    <3>2. \A i \in 1..Len(slots) : slots[i] \in ToolCalls \cup {Idle}
      BY ToolFacts, ElementOfSeq
    <3>3. w \in Seq(ToolCalls \cup {Idle}) /\ Len(w) = Len(slots)
      BY <3>1, <3>2, ToolFacts, IsASeq, LenProperties
    <3>4. \A i \in 1..Len(w) : w[i] = IF slots[i] = j THEN Idle ELSE slots[i]
      BY <3>1, <3>3
    <3>5. Apart(queue, w)
      <4>1. \A i, k \in 1..Len(w) : w[i] = w[k] /\ w[i] # Idle => i = k
        BY <3>3, <3>4, ToolFacts DEF Apart
      <4>2. \A i \in 1..Len(queue) : queue[i] # Idle
        BY ToolFacts, ElementOfSeq
      <4>3. \A i \in 1..Len(queue), k \in 1..Len(w) : queue[i] # w[k]
        BY <3>3, <3>4, <4>2, ToolFacts DEF Apart
      <4> QED BY <4>1, <4>3, ToolFacts DEF Apart
    <3>6. \A k \in ToolCalls : In(k, w) <=> In(k, slots) /\ k # j
      BY <3>3, <3>4, ToolFacts DEF In
    <3> QED BY <3>3, <3>5, <3>6, ToolFacts DEF Pool
  <2>2. CASE how # "result"
    <3>1. w = Without(slots, {j})
      BY <2>2
    <3> HIDE DEF w
    <3>2. w \in Seq(ToolCalls \cup {Idle}) /\ Left(w, slots, {j}) /\ Left(queue, queue, {})
      BY <3>1, ToolFacts, WithoutLeft, NothingLeft
    <3>3. Pool(queue, slots) /\ queue \in Seq(ToolCalls)
      BY ToolFacts
    <3>4. Pool(queue, w)
      BY <3>2, <3>3, LeftPool
    <3>5. \A k : In(k, w) <=> In(k, slots) /\ k \notin {j}
      BY <3>2, LeftIn
    <3> QED BY <3>4, <3>5
  <2> QED BY <2>1, <2>2
<1> HIDE DEF w
<1>3. answer' \in [ToolCalls -> Answers] /\ \A k \in ToolCalls : answer'[k] = IF k = j THEN how ELSE answer[k]
  BY <1>1 DEF ToolInv
<1>4. ~In(j, queue) /\ Owed(j)
  BY ToolFacts DEF AtWork, ToolInv, Placed
<1>5. \A k \in ToolCalls : In(k, queue) \/ In(k, w) <=> stage'[BatchOf(k)] = "out" /\ answer'[k] = "none"
  BY <1>1, <1>2, <1>3, <1>4 DEF ToolInv, Placed, Owed
<1>6. \A k \in ToolCalls : stage'[BatchOf(k)] = "new" => answer'[k] = "none"
  BY <1>1, <1>3, <1>4 DEF ToolInv, Owed
<1>7. \A k \in ToolCalls : signal'[BatchOf(k)] => ~In(k, queue)
  BY <1>1 DEF ToolInv
<1>8. /\ stage' \in [Batches -> {"new", "out", "back"}] /\ signal' \in [Batches -> BOOLEAN]
      /\ onMain' \subseteq MainThread /\ replied' \subseteq MainThread
  BY <1>1 DEF ToolInv
<1> QED BY <1>1, <1>2, <1>3, <1>5, <1>6, <1>7, <1>8, AfterDrain

\* handleRpc does not touch the pool.
LEMMA MainStep ==
    ASSUME ToolInv, NEW j \in ToolCalls, AskMain(j) \/ MainReturns(j)
    PROVE  ToolInv' /\ NoLate
<1>1. /\ stage' = stage /\ signal' = signal /\ queue' = queue /\ slots' = slots /\ answer' = answer
      /\ onMain' \subseteq MainThread /\ replied' \subseteq MainThread
  BY DEF AskMain, MainReturns, ToolInv
<1>2. ToolInv'
  BY <1>1 DEF ToolInv, Placed, Owed, FullWhileQueued
<1> QED BY <1>1, <1>2 DEF NoLate, AtWork

\* Only calls of the batch are struck.
LEMMA StruckFacts ==
    ASSUME NEW b \in Batches, NEW w, Len(w) \in Nat, NEW i \in Struck(b, w)
    PROVE  i \in 1..Len(w) /\ w[i] # Idle /\ In(w[i], CallsOf[b])
<1>1. i \in 1..Len(w)
  BY DEF Struck
<1>2. PICK l \in 0..(i - 1) : \A k \in (l + 1)..i : Mine(w[k], b)
  BY DEF Struck
<1>3. Mine(w[i], b)
  BY <1>1, <1>2
<1> QED BY <1>1, <1>3 DEF Mine

\* Abort: every call that was cut or struck is answered, and no other one
\* leaves the pool.
LEMMA AbortStep ==
    ASSUME ToolInv, NEW b \in Batches, Abort(b)
    PROVE  ToolInv' /\ NoLate
<1>0. /\ signal' = [signal EXCEPT ![b] = TRUE]
      /\ stage' = stage /\ onMain' = onMain /\ replied' = replied
  BY DEF Abort
<1>1. /\ stage' \in [Batches -> {"new", "out", "back"}] /\ signal' \in [Batches -> BOOLEAN]
      /\ onMain' \subseteq MainThread /\ replied' \subseteq MainThread
      /\ \A j \in ToolCalls : signal'[BatchOf(j)] <=> BatchOf(j) = b \/ signal[BatchOf(j)]
  BY <1>0, BatchFacts DEF ToolInv
<1>2. CASE stage[b] = "out"
  <2> DEFINE hit == {slots[i] : i \in Struck(b, slots)}
             cut == {j \in ToolCalls : In(j, queue) /\ In(j, CallsOf[b])}
             r == Without(queue, cut)
             v == Without(slots, hit)
  <2>1. Drain(r, v) /\ answer' = [j \in ToolCalls |-> IF j \in cut \cup hit THEN "aborted" ELSE answer[j]]
    BY <1>2 DEF Abort, Answered
  <2>2. \A j \in hit : j \in ToolCalls /\ In(j, slots)
    <3> SUFFICES ASSUME NEW i \in Struck(b, slots)
                 PROVE  slots[i] \in ToolCalls /\ In(slots[i], slots)
      OBVIOUS
    <3>1. i \in 1..Len(slots) /\ In(slots[i], CallsOf[b])
      BY ToolFacts, StruckFacts
    <3> QED BY <3>1, BatchFacts DEF In
  <2>3. \A j \in ToolCalls : j \in cut <=> In(j, queue) /\ BatchOf(j) = b
    BY BatchFacts
  <2> HIDE DEF hit, cut
  <2>4. /\ r \in Seq(ToolCalls) /\ Left(r, queue, cut)
        /\ v \in Seq(ToolCalls \cup {Idle}) /\ Left(v, slots, hit)
    BY ToolFacts, WithoutLeft
  <2> HIDE DEF r, v
  <2>5. Pool(queue, slots)
    BY ToolFacts
  <2>6. /\ Pool(r, v)
        /\ \A j : In(j, r) <=> In(j, queue) /\ j \notin cut
        /\ \A j : In(j, v) <=> In(j, slots) /\ j \notin hit
    <3>1. Pool(r, v)
      BY <2>4, <2>5, LeftPool
    <3>2. ASSUME NEW j
          PROVE  (In(j, r) <=> In(j, queue) /\ j \notin cut) /\ (In(j, v) <=> In(j, slots) /\ j \notin hit)
      BY <2>4, LeftIn
    <3> QED BY <3>1, <3>2
  <2>7. /\ answer' \in [ToolCalls -> Answers]
        /\ \A j \in ToolCalls : answer'[j] = IF j \in cut \cup hit THEN "aborted" ELSE answer[j]
    BY <2>1 DEF ToolInv, Answers
  <2>8. \A j \in ToolCalls : In(j, r) \/ In(j, v) <=> stage'[BatchOf(j)] = "out" /\ answer'[j] = "none"
    BY <1>0, <2>2, <2>3, <2>6, <2>7, ToolFacts DEF ToolInv, Placed, Owed
  <2>9. \A j \in ToolCalls : stage'[BatchOf(j)] = "new" => answer'[j] = "none"
    BY <1>0, <2>2, <2>3, <2>7 DEF ToolInv, Placed, Owed
  <2>10. \A j \in ToolCalls : signal'[BatchOf(j)] => ~In(j, r)
    BY <1>1, <2>3, <2>6 DEF ToolInv
  <2> QED BY <1>1, <2>1, <2>6, <2>7, <2>8, <2>9, <2>10, AfterDrain
<1>3. CASE stage[b] # "out"
  <2>1. queue' = queue /\ slots' = slots /\ answer' = answer
    BY <1>3 DEF Abort
  <2>2. \A j \in ToolCalls : signal'[BatchOf(j)] => ~In(j, queue')
    BY <1>1, <1>3, <2>1 DEF ToolInv, Placed, Owed
  <2>3. \A j \in ToolCalls : (Placed(j)' <=> Placed(j)) /\ (Owed(j)' <=> Owed(j))
    BY <1>0, <2>1 DEF Placed, Owed
  <2>4. ToolInv'
    BY <1>0, <1>1, <2>1, <2>2, <2>3 DEF ToolInv, FullWhileQueued
  <2> QED BY <2>1, <2>4 DEF NoLate, AtWork
<1> QED BY <1>2, <1>3

\* shutdownToolRuntime answers every call of the pool.
LEMMA DisposeStep ==
    ASSUME ToolInv, Dispose
    PROVE  ToolInv' /\ NoLate
<1>1. /\ answer' = [j \in ToolCalls |-> IF j \in {k \in ToolCalls : In(k, queue) \/ AtWork(k)}
                                       THEN "shutdown" ELSE answer[j]]
      /\ queue' = <<>> /\ slots' = <<>> /\ stage' = stage /\ signal' = signal
      /\ onMain' = onMain /\ replied' = replied
  BY DEF Dispose, Answered
<1>2. /\ answer' \in [ToolCalls -> Answers]
      /\ \A j \in ToolCalls : answer'[j] = IF Placed(j) THEN "shutdown" ELSE answer[j]
  BY <1>1 DEF ToolInv, Answers, Placed, AtWork
<1>3. \A j : ~In(j, queue') /\ ~In(j, slots')
  <2>1. Len(queue') = 0 /\ Len(slots') = 0
    BY <1>1
  <2> QED BY <2>1 DEF In
<1>4. \A j \in ToolCalls : ~Placed(j)' /\ ~Owed(j)'
  BY <1>1, <1>2, <1>3 DEF ToolInv, Placed, Owed
<1>5. \A j \in ToolCalls : stage'[BatchOf(j)] = "new" => answer'[j] = "none"
  BY <1>1, <1>2 DEF ToolInv, Owed
<1>6. Pool(queue', slots') /\ FullWhileQueued'
  <2>1. queue' \in Seq(ToolCalls) /\ slots' \in Seq(ToolCalls \cup {Idle}) /\ Len(queue') = 0 /\ Len(slots') = 0
    BY <1>1, EmptySeq
  <2>2. Len(slots') <= PoolSize
    BY <2>1, ToolFacts
  <2> QED BY <1>1, <2>1, <2>2 DEF Pool, Apart, FullWhileQueued
<1>7. ToolInv'
  BY <1>1, <1>2, <1>3, <1>4, <1>5, <1>6 DEF ToolInv
<1> QED BY <1>3, <1>7 DEF NoLate, AtWork

\* No step of the pool loses a call or starts one of an aborted batch.
LEMMA ToolStep == ToolInv /\ [Next]_vars => ToolInv' /\ [NoLate]_vars
<1> SUFFICES ASSUME ToolInv, [Next]_vars PROVE ToolInv' /\ [NoLate]_vars
  OBVIOUS
<1>1. ASSUME NEW b \in Batches, Submit(b) PROVE ToolInv' /\ NoLate
  BY <1>1, SubmitStep
<1>2. ASSUME NEW b \in Batches, ReturnBatch(b) PROVE ToolInv' /\ NoLate
  BY <1>2, ReturnStep
<1>3. ASSUME NEW b \in Batches, Abort(b) PROVE ToolInv' /\ NoLate
  BY <1>3, AbortStep
<1>4. ASSUME NEW j \in ToolCalls, Result(j) \/ WorkerFails(j) \/ Timeout(j) PROVE ToolInv' /\ NoLate
  <2>1. PICK how \in Answers \ {"none"} : AtWork(j) /\ FinishJob(j, how)
    BY <1>4 DEF Result, WorkerFails, Timeout, Answers
  <2> QED BY <2>1, FinishStep
<1>5. ASSUME NEW j \in ToolCalls, AskMain(j) \/ MainReturns(j) PROVE ToolInv' /\ NoLate
  BY <1>5, MainStep
<1>6. ASSUME Dispose PROVE ToolInv' /\ NoLate
  BY <1>6, DisposeStep
<1>7. ASSUME UNCHANGED vars PROVE ToolInv'
  BY <1>7 DEF vars, ToolInv, Placed, Owed, FullWhileQueued
<1> QED BY <1>1, <1>2, <1>3, <1>4, <1>5, <1>6, <1>7 DEF Next

\* A call is counted once in the places of the pool, or not at all.
LEMMA PlacesCounted ==
    ASSUME ToolInv, NEW j \in ToolCalls
    PROVE  Places_of(j) = IF Placed(j) THEN 1 ELSE 0
<1> DEFINE A == {i \in 1..Len(queue) : queue[i] = j}
           B == {i \in 1..Len(slots) : slots[i] = j}
<1>1. Apart(queue, slots) /\ j # Idle
  BY ToolFacts
<1>2. Cardinality(A) = IF In(j, queue) THEN 1 ELSE 0
  <2>1. CASE In(j, queue)
    <3>1. PICK i \in 1..Len(queue) : queue[i] = j
      BY <2>1 DEF In
    <3>2. A = {i}
      BY <1>1, <3>1 DEF Apart
    <3> QED BY <2>1, <3>2, FS_Singleton
  <2>2. CASE ~In(j, queue)
    <3>1. A = {}
      BY <2>2 DEF In
    <3> QED BY <2>2, <3>1, FS_EmptySet
  <2> QED BY <2>1, <2>2
<1>3. Cardinality(B) = IF In(j, slots) THEN 1 ELSE 0
  <2>1. CASE In(j, slots)
    <3>1. PICK i \in 1..Len(slots) : slots[i] = j
      BY <2>1 DEF In
    <3>2. B = {i}
      BY <1>1, <3>1 DEF Apart
    <3> QED BY <2>1, <3>2, FS_Singleton
  <2>2. CASE ~In(j, slots)
    <3>1. B = {}
      BY <2>2 DEF In
    <3> QED BY <2>2, <3>1, FS_EmptySet
  <2> QED BY <2>1, <2>2
<1>4. Places_of(j) = Cardinality(A) + Cardinality(B)
  BY DEF Places_of
<1> HIDE DEF A, B
<1> QED BY <1>2, <1>3, <1>4, ToolFacts DEF Placed

\* Every call of a batch that is out is answered or in one place of the pool,
\* and no worker is idle while a call waits (executeToolBatchInner, drain,
\* finishJob, abortBatch and dispose).
THEOREM CallsStayAccounted == Spec => []CallsAccounted
<1>1. ToolInv => CallsAccounted
  <2> SUFFICES ASSUME ToolInv PROVE CallsAccounted
    OBVIOUS
  <2>1. TypeOK
    BY ToolFacts DEF ToolInv, TypeOK
  <2>2. NoCallIsLost
    BY PlacesCounted DEF ToolInv, NoCallIsLost, Owed
  <2> QED BY <2>1, <2>2 DEF ToolInv, CallsAccounted
<1> QED BY <1>1, ToolInitially, ToolStep, PTL DEF Spec

\* No call of a batch is started once the batch is aborted (abortBatch).
THEOREM NothingStartsLate == Spec => NoLateStart
<1>1. [NoLate]_vars => [\A j \in ToolCalls : signal'[BatchOf(j)] /\ ~AtWork(j) => ~AtWork(j)']_vars
  BY DEF NoLate
<1> QED BY <1>1, ToolInitially, ToolStep, PTL DEF Spec, NoLateStart
=============================================================================
