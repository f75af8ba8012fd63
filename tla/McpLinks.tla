------------------------------ MODULE McpLinks ------------------------------
(***************************************************************************)
(* One MCP server and everybody who opens and closes it: delegations that  *)
(* hold a reference-counted lease (agent/delegation-runtime.ts), the idle  *)
(* timer of the lease, the hot reload that follows the mcpServers row      *)
(* (mcp/hot-reload.ts), and the coordinator, which wakes a dormant server  *)
(* while it compiles its context (agent/context-compiler.ts).  They meet   *)
(* in MCPClientManager (mcp/MCPClient.ts), whose connectServer and         *)
(* disconnectServer know nothing of each other.                            *)
(*                                                                         *)
(* A step ends at an await.  Left out: other servers (of a delegation's    *)
(* other servers only that they may fail), changes of the configuration    *)
(* other than enabled, the tool index, and what goes over a connection.    *)
(***************************************************************************)
EXTENDS Naturals, FiniteSets

CONSTANTS
    Holders,     \* delegations that want the server, one after another
    Syncs,       \* calls of syncMCPServers that may be in progress at once
    MaxToggles,  \* bound: changes of the row
    MaxOpen      \* bound: connections open at once

ASSUME McpLinksAssumption ==
    /\ Holders \cap Syncs = {} /\ {"timer", "turn"} \cap (Holders \cup Syncs) = {}
    /\ {MaxToggles, MaxOpen} \subseteq Nat

VARIABLES
    enabled,   \* the mcpServers row
    toggles,
    srv,       \* the state in the servers map of the manager
    open,      \* connections that are really open
    lease,     \* the entry of mcpLeases
    lost,      \* idle timers that no lease refers to any more
    last,      \* _lastKnownServers has the server
    act,       \* act[a]: where a is, and what it carries over its await
    upset      \* what happened that the code does not guard against (history)

mcpVars == <<enabled, toggles, srv, open, lease, lost, last, act, upset>>

Actors == Holders \cup Syncs \cup {"timer", "turn"}

NoLease == [refs |-> 0, timer |-> FALSE, here |-> FALSE]
Absent == [known |-> FALSE, gen |-> 0, status |-> "disconnected", client |-> 0, tools |-> FALSE]
Rest == [at |-> "idle", next |-> "idle", gen |-> 0, client |-> 0, saw |-> FALSE]

At(a, at) == act[a].at = at
Held == {h \in Holders : At(h, "held")}
Leaked == {h \in Holders : At(h, "leaked")}
Connected == srv.known /\ srv.status = "connected"

McpInit ==
    /\ enabled = TRUE
    /\ toggles = 0
    /\ srv = Absent
    /\ open = {}
    /\ lease = NoLease
    /\ lost = 0
    /\ last = FALSE
    /\ act = [a \in Actors |-> Rest]
    /\ upset = {}

Goto(a, at) == act' = [act EXCEPT ![a] = [@ EXCEPT !.at = at]]

\* toggleMcpServer
Toggle ==
    /\ toggles < MaxToggles
    /\ toggles' = toggles + 1
    /\ enabled' = ~enabled
    /\ upset' = upset \cup {"toggled"}
    /\ UNCHANGED <<srv, open, lease, lost, last, act>>
-----------------------------------------------------------------------------
(* MCPClientManager: both calls work on the state object they found.       *)

\* connectServer up to its await, on the state s of the server.  next is where
\* the caller goes on; only a delegation minds whether it failed.
AfterError(a, next) == IF a \in Holders THEN "refused" ELSE next
StartConnect(a, s, next) ==
    IF s.known /\ s.status # "connected"
    THEN /\ srv' = [s EXCEPT !.status = "connecting"]
         /\ act' = [act EXCEPT ![a] = [@ EXCEPT !.at = "connect", !.next = next, !.gen = s.gen]]
         /\ upset' = (upset \ {"unprepared"}) \cup
                     {u \in {"overlap"} : \E b \in Actors \ {a} : act[b].at \in {"connect", "close"}}
    ELSE /\ Goto(a, IF s.known THEN next ELSE AfterError(a, next))
         /\ UNCHANGED <<srv, upset>>

ConnectOk(a) ==
    /\ At(a, "connect")
    /\ \E c \in 1..MaxOpen :
          /\ c \notin open /\ \A d \in 1..(c - 1) : d \in open
          /\ open' = open \cup {c}
          /\ srv' = IF act[a].gen # srv.gen THEN srv
                    ELSE [srv EXCEPT !.client = c, !.status = "connected", !.tools = TRUE]
    /\ act' = [act EXCEPT ![a] = [Rest EXCEPT !.at = act[a].next, !.saw = act[a].saw]]
    /\ UNCHANGED <<enabled, toggles, lease, lost, last, upset>>

ConnectFails(a) ==
    /\ At(a, "connect")
    /\ srv' = IF act[a].gen # srv.gen THEN srv ELSE [srv EXCEPT !.status = "error"]
    /\ act' = [act EXCEPT ![a] = [Rest EXCEPT !.at = AfterError(a, act[a].next), !.saw = act[a].saw]]
    /\ UNCHANGED <<enabled, toggles, open, lease, lost, last, upset>>

\* disconnectServer: the tools it discovered stay.  Without a client there is
\* nothing to wait for.
Closed(s) == [s EXCEPT !.client = 0, !.status = "disconnected"]
StartClose(a) ==
    act' = [act EXCEPT ![a] = [@ EXCEPT !.at = "close", !.gen = srv.gen, !.client = srv.client]]
-----------------------------------------------------------------------------
(* Delegations *)

Ask(h) ==
    /\ At(h, "idle")
    /\ Goto(h, "row")
    /\ UNCHANGED <<enabled, toggles, srv, open, lease, lost, last, upset>>

\* acquireMcpLease after the row was read.
Acquire(h) ==
    /\ At(h, "row")
    /\ \/ ~enabled /\ Goto(h, "refused") /\ UNCHANGED <<srv, lease, upset>>
       \/ /\ enabled /\ lease.here
          /\ lease' = [lease EXCEPT !.refs = @ + 1, !.timer = FALSE]
          /\ Goto(h, "held")
          /\ upset' = IF At("timer", "close") THEN upset \cup {"late"} ELSE upset
          /\ UNCHANGED srv
       \/ enabled /\ ~lease.here /\ StartConnect(h, srv, "lease") /\ UNCHANGED lease
    /\ UNCHANGED <<enabled, toggles, open, lost, last>>

\* Whatever lease is there by now is replaced, and its timer forgotten.
StoreLease(h) ==
    /\ At(h, "lease")
    /\ lease' = [refs |-> 1, timer |-> FALSE, here |-> TRUE]
    /\ lost' = IF lease.timer THEN lost + 1 ELSE lost
    /\ upset' = IF lease.here THEN upset \cup {"overlap"} ELSE upset
    /\ Goto(h, "held")
    /\ UNCHANGED <<enabled, toggles, srv, open, last>>

\* prepareDelegation throws once the leases are there.
Leak(h) ==
    /\ At(h, "held")
    /\ Goto(h, "leaked")
    /\ UNCHANGED <<enabled, toggles, srv, open, lease, lost, last, upset>>

\* Mutant of Released: the first release is taken for the last.
Released_all == [lease EXCEPT !.refs = 0, !.timer = TRUE]
\* Mutant of Released: a lease is only given back while others hold it too.
Released_last == IF lease.refs <= 1 THEN lease ELSE [lease EXCEPT !.refs = @ - 1]

Released ==
    IF lease.refs > 1 THEN [lease EXCEPT !.refs = @ - 1]
    ELSE [lease EXCEPT !.refs = 0, !.timer = TRUE]
\* releaseMcpLease: at the end of the delegation, or because another of its
\* servers could not be acquired.
Release(h) ==
    /\ At(h, "held")
    /\ IF ~lease.here THEN UNCHANGED <<lease, lost>>
       ELSE /\ lease' = Released
            /\ lost' = IF Released.timer /\ lease.timer THEN lost + 1 ELSE lost
    /\ Goto(h, "gone")
    /\ UNCHANGED <<enabled, toggles, srv, open, last, upset>>

\* The callback of an idle timer, up to the await of disconnectServer.  Two
\* minutes outlast the return of a connectServer that is done.
Expire ==
    /\ At("timer", "idle") /\ \A h \in Holders : ~At(h, "lease")
    /\ \/ lease.timer /\ lost' = lost
       \/ ~lease.timer /\ lost > 0 /\ lost' = lost - 1
    /\ IF lease.refs > 0 \/ ~lease.here
       THEN lease' = [lease EXCEPT !.timer = FALSE] /\ UNCHANGED <<srv, act>>
       ELSE IF srv.client = 0
       THEN lease' = NoLease /\ srv' = Closed(srv) /\ UNCHANGED act
       ELSE lease' = [lease EXCEPT !.timer = FALSE] /\ StartClose("timer") /\ UNCHANGED srv
    /\ UNCHANGED <<enabled, toggles, open, last, upset>>

\* Its end, and finally(): the lease goes, whoever has taken it meanwhile.
DropLease ==
    /\ At("timer", "close")
    /\ open' = open \ {act["timer"].client}
    /\ srv' = IF act["timer"].gen = srv.gen THEN Closed(srv) ELSE srv
    /\ lease' = NoLease
    /\ lost' = IF lease.timer THEN lost + 1 ELSE lost
    /\ upset' = IF lease.refs > 0 THEN upset \cup {"late"} ELSE upset
    /\ act' = [act EXCEPT !["timer"] = Rest]
    /\ UNCHANGED <<enabled, toggles, last>>
-----------------------------------------------------------------------------
(* Hot reload *)

\* The interval fires every two seconds, whatever is still in progress.
Scan(s) ==
    /\ At(s, "idle")
    /\ act' = [act EXCEPT ![s] = [Rest EXCEPT !.at = "check", !.saw = enabled]]
    /\ upset' = IF \A t \in Syncs : At(t, "idle") THEN upset ELSE upset \cup {"reload"}
    /\ UNCHANGED <<enabled, toggles, srv, open, lease, lost, last>>

\* Mutant of Check: a server that is no longer there is only forgotten.
Check_keeps(s) ==
    /\ At(s, "check")
    /\ Goto(s, IF act[s].saw /\ ~last THEN "config" ELSE "end")
    /\ UNCHANGED <<enabled, toggles, srv, open, lease, lost, last, upset>>

Check(s) ==
    /\ At(s, "check")
    /\ IF act[s].saw /\ ~last THEN Goto(s, "config") /\ UNCHANGED srv
       ELSE IF act[s].saw \/ ~last \/ ~srv.known THEN Goto(s, "end") /\ UNCHANGED srv
       ELSE IF srv.client = 0 THEN Goto(s, "end") /\ srv' = [Absent EXCEPT !.gen = srv.gen]
       ELSE StartClose(s) /\ UNCHANGED srv
    /\ UNCHANGED <<enabled, toggles, open, lease, lost, last, upset>>

\* What comes before updateConfig may throw (the args of the row are no JSON, its
\* headers cannot be read).  The sync goes on, and ends as if all were done.
PrepareFails(s) ==
    /\ At(s, "config")
    /\ Goto(s, "end")
    /\ upset' = upset \cup {"unprepared"}
    /\ UNCHANGED <<enabled, toggles, srv, open, lease, lost, last>>

\* updateConfig registers and connects a new server; what it did is not looked
\* at, and connectServer is called once more.
Configure(s) ==
    /\ At(s, "config")
    /\ IF srv.known THEN StartConnect(s, srv, "end")
       ELSE StartConnect(s, [Absent EXCEPT !.known = TRUE, !.gen = srv.gen + 1], "again")
    /\ UNCHANGED <<enabled, toggles, open, lease, lost, last>>

ConnectAgain(s) ==
    /\ At(s, "again")
    /\ StartConnect(s, srv, "end")
    /\ UNCHANGED <<enabled, toggles, open, lease, lost, last>>

\* disconnectServer, then servers.delete.
RemoveServer(s) ==
    /\ At(s, "close")
    /\ open' = open \ {act[s].client}
    /\ srv' = [Absent EXCEPT !.gen = srv.gen]
    /\ Goto(s, "end")
    /\ UNCHANGED <<enabled, toggles, lease, lost, last, upset>>

EndSync(s) ==
    /\ At(s, "end")
    /\ last' = act[s].saw
    /\ act' = [act EXCEPT ![s] = Rest]
    /\ UNCHANGED <<enabled, toggles, srv, open, lease, lost, upset>>
-----------------------------------------------------------------------------
\* compileContext: a server without tools is connected; one whose tools are
\* known is offered as it is.
Wake ==
    /\ At("turn", "idle") /\ enabled /\ ~(srv.known /\ srv.tools)
    /\ StartConnect("turn", srv, "idle")
    /\ UNCHANGED <<enabled, toggles, open, lease, lost, last>>
-----------------------------------------------------------------------------
Connecting == \E a \in Actors : ConnectOk(a) \/ ConnectFails(a)
Delegation(h) == Ask(h) \/ Acquire(h) \/ StoreLease(h) \/ Leak(h) \/ Release(h)
Timer == Expire \/ DropLease
SyncStep(s) ==
    \/ Check(s) \/ PrepareFails(s) \/ Configure(s) \/ ConnectAgain(s) \/ RemoveServer(s)
    \/ EndSync(s)

McpNext ==
    \/ Toggle \/ Connecting \/ Timer \/ Wake
    \/ \E h \in Holders : Delegation(h)
    \/ \E s \in Syncs : Scan(s) \/ SyncStep(s)

McpSpec == McpInit /\ [][McpNext]_mcpVars
-----------------------------------------------------------------------------
(* Properties *)

\* While a delegation holds its lease the server is connected, and the count
\* tells how many hold it (those prepareDelegation lost included), so that no
\* release closes it under another; as long as connects do not overlap, nobody
\* acquires while the idle timer closes, and the row stays as it is.
LeaseHonored ==
    upset \cap {"overlap", "late", "toggled"} = {} /\ Held # {}
    => Connected /\ lease.here /\ lease.refs = Cardinality(Held \cup Leaked)

\* A lease nobody holds is given up, whatever overlapped: the idle timer closes
\* the server and the next delegation connects it anew.
LeasesEnd == lease.here ~> ~lease.here \/ Held # {} \/ Leaked # {}

\* Once the row is left alone the manager follows it, provided that no call of
\* syncMCPServers began before the one before it had ended.  But for an enabled
\* server whose preparation threw: it is recorded as known all the same, so no
\* later sync tries it again.
GivenUp == "unprepared" \in upset /\ enabled /\ last
ReloadConverges == <>("reload" \in upset) \/ <>[](srv.known = enabled \/ GivenUp)
==============================================================================
