---------------------------- MODULE McpConnection ----------------------------
(***************************************************************************)
(* The connection of a thread to one MCP server, mcp/connection.py, with   *)
(* the manager that starts and stops it and the tool adapters that call    *)
(* it.  The agents of a run share the connection: their calls interleave   *)
(* at every await, and each may be cancelled there by its tool timeout or  *)
(* by the scheduler.                                                       *)
(*                                                                         *)
(* The server is the environment: it changes its catalogue and announces   *)
(* it, forgets sessions (HTTP 404), fails to start and breaks transports;  *)
(* the code tells an expired session from other errors by a heuristic that *)
(* an error of a healthy session may meet too.                             *)
(* A catalogue is its version number; a transport, the task that owns it   *)
(* and the session on it share a number, in the order they were opened.    *)
(*                                                                         *)
(* asyncio.wait_for is that of Python 3.11: on a timeout or a cancellation *)
(* it cancels the task it awaits and waits on for its end, but a second    *)
(* cancellation escapes that wait.                                         *)
(***************************************************************************)
EXTENDS Integers, Sequences, FiniteSets

CONSTANTS Callers,     \* agents that call through the adapters
          Host,        \* the run manager: initialize_mcp and close_mcp
          Required,    \* config.required
          MaxPages,    \* max_pages of collect_paginated
          MaxCalls,    \* bound: calls of one agent
          MaxVersion,  \* bound: catalogues the server ever offers
          MaxExpiries  \* bound: sessions the server forgets

ASSUME McpAssumption ==
    /\ Host \notin Callers
    /\ Required \in BOOLEAN
    /\ MaxPages \in Nat \ {0}
    /\ MaxCalls \in Nat
    /\ MaxVersion \in Nat \ {0}
    /\ MaxExpiries \in Nat

Actors == Callers \cup {Host}

VARIABLES
    status,     \* MCPServerStatus
    generation, \* completed initialize handshakes
    session,    \* the session object, 0 for None
    transport,  \* _transport_task, 0 for None
    owner,      \* what each transport owner task is doing
    stop,       \* owners told to stop
    cut,        \* living owners that were cancelled
    catalog,    \* last good snapshot: version, session it was read from, health
    stale,      \* catalog_stale
    pc,         \* where each actor is suspended
    req,        \* the call of each agent
    page,       \* the listing each actor is collecting
    version,    \* server: the catalogue it offers
    note,       \* server: a list_changed is on its way to the session
    known,      \* server: open sessions it has not forgotten
    expiries,   \* server: how many it has forgotten
    overtaken   \* history: a list_changed arrived while a refresh was reading

linkVars == <<status, generation, session, transport, owner, stop, cut>>
catalogVars == <<catalog, stale>>
serverVars == <<version, known, expiries>>
vars == <<linkVars, catalogVars, pc, req, page, note, serverVars, overtaken>>

Idle == [op |-> "none", observed |-> 0, on |-> 0, sends |-> 0, outcome |-> "none", calls |-> 0]
NoPage == [count |-> 0, seen |-> 0, from |-> 0, on |-> 0, late |-> FALSE]

\* _refresh_lock and _reconnect_lock: whoever is inside holds them.
Refreshing == {"callPaging", "connPaging"}
Reconnecting == {"closing", "opening", "connRefresh", "connPaging", "abandoning"}
\* _stop_transport, from close and from a failed connect.
Waiting == {"closing", "abandoning"}
RefreshFree == \A a \in Actors : pc[a] \notin Refreshing
ReconnectFree == \A c \in Callers : pc[c] \notin Reconnecting

\* is_usable, and what _require_session accepts.
Usable == session # 0 /\ catalog.version # 0 /\ status \in {"READY", "DEGRADED"}
Accepted(s) == session # 0 /\ s \in {"CONNECTING", "RECONNECTING", "READY", "DEGRADED"}

\* An owner fails before ready is set, and ends after.
Alive(id) == owner[id] \notin {"failed", "ended"}

\* The session answers: the server knows it and nothing tears it down.
Answers(id) == id \in known \ cut

Init ==
    /\ status = "NOT_CONNECTED"
    /\ generation = 0
    /\ session = 0
    /\ transport = 0
    /\ owner = <<>>
    /\ stop = {}
    /\ cut = {}
    /\ catalog = [version |-> 0, from |-> 0, health |-> "HEALTHY"]
    /\ stale = FALSE
    /\ pc = [a \in Actors |-> IF a = Host THEN "created" ELSE "idle"]
    /\ req = [c \in Callers |-> Idle]
    /\ page = [a \in Actors |-> NoPage]
    /\ version = 1
    /\ note = FALSE
    /\ known = {}
    /\ expiries = 0
    /\ overtaken = FALSE

-----------------------------------------------------------------------------
(* Moves of an actor, shared by the actions below.                         *)

Goto(a, where) == pc' = [pc EXCEPT ![a] = where]

\* The call of c returns or raises; the stack above it is the tool runtime.
Return(c, outcome) ==
    /\ Goto(c, "idle")
    /\ req' = [req EXCEPT ![c] = [Idle EXCEPT !.outcome = outcome, !.calls = req[c].calls]]

\* A request of c goes out on the session, unless _require_session refuses.
Send(c, r, s) ==
    IF Accepted(s)
    THEN /\ Goto(c, "calling")
         /\ req' = [req EXCEPT ![c] = [r EXCEPT !.on = session, !.sends = @ + 1]]
    ELSE /\ Goto(c, "idle")
         /\ req' = [req EXCEPT ![c] = [Idle EXCEPT !.outcome = "error", !.calls = r.calls]]

\* Mutant: a tool call is repeated on the new session like a read.
RecoveredByRetry(c, s) == Send(c, req[c], s)

\* What follows _reinitialize: a read is repeated once, the outcome of a tool
\* call stays unknown.
Recovered(c, s) ==
    IF req[c].op = "tool" THEN Return(c, "unknown")
                          ELSE Send(c, req[c], s)

\* The connect of a fails or is cancelled; the transport is stopped first.
Abandon(a, s) ==
    /\ status' = s
    /\ stop' = stop \cup {transport}
    /\ Goto(a, "abandoning")

\* connect up to its first await.
OpenTransport(a) ==
    /\ status' = "CONNECTING"
    /\ transport' = Len(owner) + 1
    /\ owner' = Append(owner, "opening")
    /\ session' = 0
    /\ Goto(a, "opening")

-----------------------------------------------------------------------------
(* The host: MCPServerManager.start and shutdown.                          *)

HostStarts ==
    /\ pc[Host] = "created"
    /\ OpenTransport(Host)
    /\ UNCHANGED <<generation, stop, cut, catalogVars, req, page, note, serverVars, overtaken>>

\* close_mcp comes after the run, whose agents have all returned.
HostCloses ==
    /\ pc[Host] = "serving"
    /\ \A c \in Callers : pc[c] = "idle"
    /\ IF transport = 0
       THEN Goto(Host, "over") /\ UNCHANGED <<status, stop>>
       ELSE /\ Goto(Host, "closing")
            /\ status' = "STOPPING"
            /\ stop' = stop \cup {transport}
    /\ UNCHANGED <<generation, session, transport, owner, cut, catalogVars, req, page, note, serverVars, overtaken>>

HostClosed ==
    /\ pc[Host] = "closing"
    /\ ~Alive(transport)
    /\ status' = "STOPPED"
    /\ transport' = 0
    /\ session' = 0
    /\ Goto(Host, "over")
    /\ UNCHANGED <<generation, owner, stop, cut, catalogVars, req, page, note, serverVars, overtaken>>

-----------------------------------------------------------------------------
(* Calls of the agents.                                                    *)

\* The adapter looks the server up among the usable ones.
Begin(c, o) ==
    LET r == [Idle EXCEPT !.op = o, !.observed = generation, !.calls = req[c].calls + 1]
    IN /\ pc[c] = "idle"
       /\ pc[Host] = "serving"
       /\ req[c].calls < MaxCalls
       /\ Usable
       /\ IF o = "tool" /\ stale
          THEN Goto(c, "callRefresh") /\ req' = [req EXCEPT ![c] = r]
          ELSE Send(c, r, status)
       /\ UNCHANGED <<linkVars, catalogVars, page, note, serverVars, overtaken>>

\* A result, an error result, a protocol error or the timeout of the request.
Answered(c) ==
    /\ pc[c] = "calling"
    /\ \/ Answers(req[c].on) /\ Return(c, "ok")
       \/ Return(c, "error")
    /\ UNCHANGED <<linkVars, catalogVars, page, note, serverVars, overtaken>>

\* The server does not know the session, or the error of one it knows looks
\* like it: any 404 in the chain, or a text that names one.
SessionNotFound(c) ==
    /\ pc[c] = "calling"
    /\ IF req[c].sends = 2 THEN Return(c, "error")
                           ELSE Goto(c, "reconnect") /\ UNCHANGED req
    /\ UNCHANGED <<linkVars, catalogVars, page, note, serverVars, overtaken>>

-----------------------------------------------------------------------------
(* _reinitialize.                                                          *)

\* Mutants: any newer session will do, and nobody looks for one.
ReuseNewer(c) == generation # req[c].observed
ReuseNothing(c) == FALSE
Reuse(c) == generation # req[c].observed /\ Usable

\* The lock is free: another agent's reconnect is reused, or this one closes
\* what is left of the old session and connects.
Reinitialize(c) ==
    /\ pc[c] = "reconnect"
    /\ ReconnectFree
    /\ IF Reuse(c)
       THEN Recovered(c, status) /\ UNCHANGED linkVars
       ELSE /\ UNCHANGED <<generation, cut, req>>
            /\ IF transport = 0
               THEN OpenTransport(c) /\ UNCHANGED stop
               ELSE /\ status' = "STOPPING"
                    /\ stop' = stop \cup {transport}
                    /\ Goto(c, "closing")
                    /\ UNCHANGED <<session, transport, owner>>
    /\ UNCHANGED <<catalogVars, page, note, serverVars, overtaken>>

\* The owner has ended and close returns: a cancelled caller raises, and so
\* does one whose owner ended with an error; the others connect.
Closed(c) ==
    /\ pc[c] = "closing"
    /\ ~Alive(transport)
    /\ \/ req[c].outcome # "cancelled" /\ OpenTransport(c) /\ UNCHANGED req
       \/ /\ status' = "STOPPED"
          /\ transport' = 0
          /\ session' = 0
          /\ Return(c, IF req[c].outcome = "cancelled" THEN "cancelled" ELSE "error")
          /\ UNCHANGED owner
    /\ UNCHANGED <<generation, stop, cut, catalogVars, page, note, serverVars, overtaken>>

-----------------------------------------------------------------------------
(* connect and refresh_catalogs.                                           *)

\* ready is set: the catalogues are next.
Opened(a) ==
    /\ pc[a] = "opening"
    /\ owner[transport] \in {"open", "ended"}
    /\ Goto(a, "connRefresh")
    /\ UNCHANGED <<linkVars, catalogVars, req, page, note, serverVars, overtaken>>

\* The owner failed before ready, or the startup timeout passed.
OpenFails(a) ==
    /\ pc[a] = "opening"
    /\ owner[transport] \notin {"open", "ended"}
    /\ Abandon(a, "FAILED")
    /\ UNCHANGED <<generation, session, transport, owner, cut, catalogVars, req, page, note, serverVars, overtaken>>

\* Out of refresh_catalogs into connect, which cleans up, or to the caller.
Raise(a) ==
    IF pc[a] \in {"callRefresh", "callPaging"}
    THEN Return(a, "error") /\ UNCHANGED <<status, stop>>
    ELSE Abandon(a, "FAILED") /\ UNCHANGED req

\* The last good snapshot survives, marked stale.
RefreshFails(a) ==
    /\ Raise(a)
    /\ IF catalog.version = 0 THEN UNCHANGED catalogVars
       ELSE stale' = TRUE /\ catalog' = [catalog EXCEPT !.health = "DEGRADED"]

\* Mutant: the mark is taken off before the catalogue is read.
EnterUnmarked(a) ==
    /\ Goto(a, IF pc[a] = "callRefresh" THEN "callPaging" ELSE "connPaging")
    /\ page' = [page EXCEPT ![a] = [NoPage EXCEPT !.count = 1, !.on = session]]
    /\ stale' = FALSE
    /\ UNCHANGED <<status, stop, req, catalog>>

\* The first listing request.
Enter(a) ==
    /\ Goto(a, IF pc[a] = "callRefresh" THEN "callPaging" ELSE "connPaging")
    /\ page' = [page EXCEPT ![a] = [NoPage EXCEPT !.count = 1, !.on = session]]
    /\ UNCHANGED <<status, stop, req, catalogVars>>

\* The refresh lock is free.
Refresh(a) ==
    /\ pc[a] \in {"callRefresh", "connRefresh"}
    /\ RefreshFree
    /\ \/ session = 0 /\ Raise(a) /\ UNCHANGED <<catalogVars, page>>
       \/ session # 0 /\ ~Accepted(status) /\ RefreshFails(a) /\ UNCHANGED page
       \/ Accepted(status) /\ Enter(a)
    /\ UNCHANGED <<generation, session, transport, owner, cut, note, serverVars, overtaken>>

\* Mutant: the generation is noted before the refresh.
CommitNotedBefore(a, p, truncated) ==
    /\ catalog' = [version |-> p.seen, from |-> p.from, health |-> IF truncated THEN "DEGRADED" ELSE "HEALTHY"]
    /\ stale' = FALSE
    /\ overtaken' = p.late
    /\ page' = [page EXCEPT ![a] = NoPage]
    /\ IF pc[a] = "callPaging" THEN Send(a, req[a], status) /\ UNCHANGED status
       ELSE /\ status' = "READY"
            /\ IF a = Host THEN Goto(a, "serving") /\ UNCHANGED req
                           ELSE Recovered(a, "READY")
    /\ UNCHANGED stop

\* The end of refresh_catalogs and what the actor does next: call_tool notes
\* the generation after its refresh.
Commit(a, p, truncated) ==
    /\ catalog' = [version |-> p.seen, from |-> p.from, health |-> IF truncated THEN "DEGRADED" ELSE "HEALTHY"]
    /\ stale' = FALSE
    /\ overtaken' = p.late
    /\ page' = [page EXCEPT ![a] = NoPage]
    /\ IF pc[a] = "callPaging"
       THEN Send(a, [req[a] EXCEPT !.observed = generation], status) /\ UNCHANGED status
       ELSE /\ status' = "READY"
            /\ IF a = Host THEN Goto(a, "serving") /\ UNCHANGED req
                           ELSE Recovered(a, "READY")
    /\ UNCHANGED stop

\* Mutant: the page limit is gone.
LimitNever(p) == FALSE
AtLimit(p) == p.count = MaxPages

\* One page of collect_paginated: the last one, one too many, or one with a
\* cursor to the next.
PageArrives(a) ==
    LET p == [page[a] EXCEPT !.seen = IF @ = 0 THEN version ELSE @,
                             !.from = IF @ = 0 THEN page[a].on ELSE @]
    IN /\ pc[a] \in Refreshing
       /\ Answers(p.on)
       /\ \/ \E truncated \in BOOLEAN : Commit(a, p, truncated)
          \/ AtLimit(p) /\ Commit(a, p, TRUE)
          \/ /\ ~AtLimit(p)
             /\ Accepted(status)
             /\ page' = [page EXCEPT ![a] = [p EXCEPT !.count = @ + 1, !.on = session]]
             /\ UNCHANGED <<status, stop, catalogVars, pc, req, overtaken>>
          \/ /\ ~AtLimit(p)
             /\ ~Accepted(status)
             /\ RefreshFails(a)
             /\ page' = [page EXCEPT ![a] = NoPage]
             /\ UNCHANGED overtaken
       /\ UNCHANGED <<generation, session, transport, owner, cut, note, serverVars>>

\* The request that meets an expired session is not told from the others.
PageNotFound(a) ==
    /\ pc[a] \in Refreshing
    /\ page[a].on \notin known
    /\ RefreshFails(a)
    /\ page' = [page EXCEPT ![a] = NoPage]
    /\ UNCHANGED <<generation, session, transport, owner, cut, note, serverVars, overtaken>>

\* An error, a timeout, a repeated cursor, a schema or a name refused.
PageFails(a) ==
    /\ pc[a] \in Refreshing
    /\ RefreshFails(a)
    /\ page' = [page EXCEPT ![a] = NoPage]
    /\ UNCHANGED <<generation, session, transport, owner, cut, note, serverVars, overtaken>>

\* Mutant: the failed or cancelled connect does not wait for its transport.
AbandonedAtOnce(a) ==
    /\ pc[a] = "abandoning"
    /\ transport' = 0
    /\ session' = 0
    /\ \E raised \in {"error", "cancelled"} :
         IF a = Host
         THEN Goto(a, IF Required \/ raised = "cancelled" THEN "over" ELSE "serving") /\ UNCHANGED req
         ELSE Return(a, raised)
    /\ UNCHANGED <<status, generation, owner, stop, cut, catalogVars, page, note, serverVars, overtaken>>

\* The transport of a failed or cancelled connect is gone, and what comes out
\* is the error of the connect, that of the owner or a cancellation met on the
\* way.  A required server ends the thread, whose other connections the
\* manager closes.
Abandoned(a) ==
    /\ pc[a] = "abandoning"
    /\ ~Alive(transport)
    /\ transport' = 0
    /\ session' = 0
    /\ \E raised \in {"error", "cancelled"} :
         IF a = Host
         THEN Goto(a, IF Required \/ raised = "cancelled" THEN "over" ELSE "serving") /\ UNCHANGED req
         ELSE Return(a, raised)
    /\ UNCHANGED <<status, generation, owner, stop, cut, catalogVars, page, note, serverVars, overtaken>>

-----------------------------------------------------------------------------
(* Cancellation, at any await.                                             *)

\* Nothing to clean up: the locks are released by their context managers.
CancelCall(c) ==
    /\ pc[c] \in {"callRefresh", "callPaging", "calling", "reconnect"}
    /\ Return(c, "cancelled")
    /\ page' = [page EXCEPT ![c] = NoPage]
    /\ UNCHANGED <<linkVars, catalogVars, note, serverVars, overtaken>>

\* connect stops its transport and raises.
CancelConnect(a) ==
    /\ pc[a] \in {"opening", "connRefresh", "connPaging"}
    /\ Abandon(a, "STOPPING")
    /\ page' = [page EXCEPT ![a] = NoPage]
    /\ UNCHANGED <<generation, session, transport, owner, cut, catalogVars, req, note, serverVars, overtaken>>

-----------------------------------------------------------------------------
(* wait_for in _stop_transport.  It lets the owner end by itself, then cuts *)
(* it off: it cancels it and waits on.                                      *)

\* Mutant: the wait has no timeout.
StopWaits(a) == FALSE

\* cleanup_timeout_seconds.
StopTimesOut(a) ==
    /\ pc[a] \in Waiting
    /\ transport \notin cut
    /\ Alive(transport)
    /\ cut' = cut \cup {transport}
    /\ UNCHANGED <<status, generation, session, transport, owner, stop, catalogVars, pc, req, page, note, serverVars, overtaken>>

\* A cancellation before the timeout; an owner that has ended swallows it.
CancelWait(a) ==
    /\ pc[a] \in Waiting
    /\ transport \notin cut
    /\ Alive(transport)
    /\ cut' = cut \cup {transport}
    /\ req' = [c \in Callers |-> IF c = a THEN [req[c] EXCEPT !.outcome = "cancelled"] ELSE req[c]]
    /\ UNCHANGED <<status, generation, session, transport, owner, stop, catalogVars, pc, page, note, serverVars, overtaken>>

\* A cancellation once the owner is cut off leaves _stop_transport: the
\* connection forgets an owner that still lives.
Escape(a) ==
    /\ pc[a] \in Waiting
    /\ transport \in cut
    /\ Alive(transport)
    /\ status' = IF pc[a] = "closing" THEN "STOPPED" ELSE status
    /\ transport' = 0
    /\ session' = 0
    /\ IF a = Host THEN Goto(a, "over") /\ UNCHANGED req ELSE Return(a, "cancelled")
    /\ UNCHANGED <<generation, owner, stop, cut, catalogVars, page, note, serverVars, overtaken>>

-----------------------------------------------------------------------------
(* The transport owner task.                                               *)

OwnerEnters(id) ==
    /\ owner[id] = "opening"
    /\ id \notin cut
    /\ owner' = [owner EXCEPT ![id] = "handshake"]
    /\ session' = id
    /\ UNCHANGED <<status, generation, transport, stop, cut, catalogVars, pc, req, page, note, serverVars, overtaken>>

OwnerInitialised(id) ==
    /\ owner[id] = "handshake"
    /\ id \notin cut
    /\ owner' = [owner EXCEPT ![id] = "open"]
    /\ generation' = generation + 1
    /\ known' = known \cup {id}
    /\ UNCHANGED <<status, session, transport, stop, cut, catalogVars, pc, req, page, note, version, expiries, overtaken>>

\* By an error of the transport, the stop event, or cancellation; the status
\* is left as it is.  An owner the connection has forgotten clears the session
\* of a newer one, too.
OwnerEnds(id) ==
    /\ Alive(id)
    /\ owner' = [owner EXCEPT ![id] = IF @ = "open" THEN "ended" ELSE "failed"]
    /\ session' = 0
    /\ note' = (note /\ id # transport)
    /\ cut' = cut \ {id}
    /\ known' = known \ {id}
    /\ UNCHANGED <<status, generation, transport, stop, catalogVars, pc, req, page, version, expiries, overtaken>>

-----------------------------------------------------------------------------
(* The server.                                                             *)

ServerChanges ==
    /\ version < MaxVersion
    /\ version' = version + 1
    /\ note' = (note \/ transport \in known)
    /\ UNCHANGED <<linkVars, catalogVars, pc, req, page, known, expiries, overtaken>>

ServerForgets ==
    /\ transport \in known
    /\ expiries < MaxExpiries
    /\ known' = known \ {transport}
    /\ expiries' = expiries + 1
    /\ UNCHANGED <<linkVars, catalogVars, pc, req, page, note, version, overtaken>>

\* _handle_message: list_changed only marks the catalogue.
ListChanged ==
    /\ note
    /\ note' = FALSE
    /\ stale' = TRUE
    /\ page' = [a \in Actors |-> [page[a] EXCEPT !.late = pc[a] \in Refreshing]]
    /\ UNCHANGED <<linkVars, catalog, pc, req, serverVars, overtaken>>

-----------------------------------------------------------------------------
Call(c) ==
    \/ \E o \in {"tool", "read"} : Begin(c, o)
    \/ Answered(c)
    \/ SessionNotFound(c)
    \/ Reinitialize(c)
    \/ Closed(c)
    \/ CancelCall(c)

Connect(a) ==
    \/ Opened(a)
    \/ OpenFails(a)
    \/ Refresh(a)
    \/ PageArrives(a)
    \/ PageNotFound(a)
    \/ PageFails(a)
    \/ Abandoned(a)
    \/ CancelConnect(a)
    \/ StopTimesOut(a)
    \/ CancelWait(a)
    \/ Escape(a)

Next ==
    \/ HostStarts
    \/ HostCloses
    \/ HostClosed
    \/ \E c \in Callers : Call(c)
    \/ \E a \in Actors : Connect(a)
    \/ \E id \in DOMAIN owner : OwnerEnters(id) \/ OwnerInitialised(id) \/ OwnerEnds(id)
    \/ ServerChanges
    \/ ServerForgets
    \/ ListChanged

\* What a suspended actor does next, whatever it waits for: each of its waits
\* has an answer or a timeout.
Resumes(a) ==
    \/ a \in Callers /\ (Answered(a) \/ Reinitialize(a) \/ Closed(a))
    \/ a = Host /\ HostClosed
    \/ Opened(a) \/ OpenFails(a) \/ Refresh(a)
    \/ PageArrives(a) \/ PageFails(a)
    \/ StopTimesOut(a) \/ Abandoned(a)

\* The event loop resumes what can go on, a lock goes to one of those who wait
\* for it, and an owner that is cancelled comes to its end.  Nothing makes an
\* agent call, the server change, an owner come up, or one that is only told
\* to stop end.
Fairness ==
    /\ WF_vars(\E a \in Actors : Resumes(a))
    /\ WF_vars(\E id \in cut : OwnerEnds(id))

Spec == Init /\ [][Next]_vars /\ Fairness

-----------------------------------------------------------------------------
Statuses == {"NOT_CONNECTED", "CONNECTING", "READY", "DEGRADED", "RECONNECTING", "FAILED", "STOPPING", "STOPPED"}
AgentPcs == {"idle", "callRefresh", "callPaging", "calling", "reconnect"} \cup Reconnecting
HostPcs == {"created", "serving", "over"} \cup Reconnecting
Ids == 0..Len(owner)

\* The variables stay in their domains: session, transport and the sessions
\* of requests and catalogues are among those ever opened.
TypeOK ==
    /\ status \in Statuses
    /\ generation \in Nat
    /\ session \in Ids
    /\ transport \in Ids
    /\ owner \in Seq({"opening", "handshake", "open", "failed", "ended"})
    /\ stop \subseteq Ids \ {0}
    /\ cut \subseteq Ids \ {0}
    /\ catalog \in [version : 0..version, from : Ids, health : {"HEALTHY", "DEGRADED"}]
    /\ stale \in BOOLEAN
    /\ pc \in [Actors -> AgentPcs \cup HostPcs]
    /\ pc[Host] \in HostPcs
    /\ \A c \in Callers : pc[c] \in AgentPcs
    /\ req \in [Callers -> [op : {"none", "tool", "read"}, observed : Nat, on : Ids, sends : Nat,
                            outcome : {"none", "ok", "error", "unknown", "cancelled"}, calls : Nat]]
    /\ page \in [Actors -> [count : 0..MaxPages, seen : 0..version, from : Ids, on : Ids, late : BOOLEAN]]
    /\ version \in 1..MaxVersion
    /\ note \in BOOLEAN
    /\ known \subseteq Ids \ {0}
    /\ expiries \in 0..MaxExpiries
    /\ overtaken \in BOOLEAN

\* Whatever fails or is cancelled in a connect, a close or a reconnect, no
\* transport is left running on its own: an owner the connection no longer
\* knows, or that outlives the thread, has been cancelled and is on its way
\* out.
NoLeakedTransport ==
    \A id \in DOMAIN owner :
        Alive(id) => id \in cut \/ (id = transport /\ pc[Host] # "over")

\* A usable connection offers the catalogue of the session it is on, never
\* what an earlier session listed, even when a refresh of the old session was
\* under way while another agent reconnected.
CatalogOfThisSession == Usable => catalog.from = session

\* Whoever waits for a transport to end waits for the one the connection still
\* knows, and has told it to stop, whatever the others have opened or closed
\* since: nobody waits for a transport nobody stops.
AwaitedStops ==
    \A a \in Actors : pc[a] \in Waiting => transport \in stop

\* Through every failure, timeout and cancellation, a second one included, the
\* connection, its transport and its catalogue belong together, and no wait for
\* the transport is in vain.
SessionSound == NoLeakedTransport /\ CatalogOfThisSession /\ AwaitedStops

\* A tool call reaches the server at most once and a read at most twice: what
\* may already have had an effect is not repeated.
SentOnce ==
    \A c \in Callers : req[c].sends <= IF req[c].op = "tool" THEN 1 ELSE 2

\* A list_changed is not forgotten: a usable catalogue older than the one
\* announced is marked, unless the announcement arrived while a refresh was
\* reading, whose end takes the mark off.
ChangeRemembered ==
    Usable /\ session \in known /\ catalog.version < version /\ ~note => stale \/ overtaken

\* Several agents that meet the same expired session share one reconnect: no
\* agent closes a usable connection other than the one its own request failed
\* on.
HealthySessionKept ==
    [][\A c \in Callers :
         pc[c] = "reconnect" /\ pc'[c] \in Reconnecting => ~(Usable /\ session # req[c].on)]_vars

\* A tool call whose session expired is reported as unknown only after a new
\* transport has been opened and its catalogue read.
UnknownOnNewSession ==
    [][\A c \in Callers :
         req[c].outcome # "unknown" /\ req'[c].outcome = "unknown"
            => catalog'.from = transport' /\ transport' \notin {0, req[c].on}]_vars

\* One reconnect per session found expired, and its outcome before any report.
SessionShared == HealthySessionKept /\ UnknownOnNewSession

\* Every call returns: no lock is left held, no listing goes on for ever, no
\* agent waits for a transport nobody stops.
CallsReturn == \A c \in Callers : pc[c] # "idle" ~> pc[c] = "idle"

-----------------------------------------------------------------------------
(* What the phase 5.1 design and the docstrings say and the code does not   *)
(* do; each is false.                                                       *)

\* tools/list is among the requests that re-initialise an expired session and
\* are tried again: a refresh that meets a 404 goes on to the reconnect and
\* does not return the error.
ListRecovered == [][\A c \in Callers : PageNotFound(c) => pc'[c] # "idle"]_vars

\* No owner task is left when a connect or a close has returned.
OneTransport == \A id \in DOMAIN owner : Alive(id) => id = transport

\* A connection that is READY on a living transport has its session.
ReadyHasSession == status = "READY" /\ owner[transport] = "open" => session = transport

\* Only a session the server has forgotten is given up for a new one.
KnownSessionKept ==
    [][\A c \in Callers :
         pc[c] = "reconnect" /\ pc'[c] \in Reconnecting => ~(Usable /\ session \in known)]_vars

=============================================================================
