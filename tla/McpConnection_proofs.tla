------------------------- MODULE McpConnection_proofs -------------------------
(***************************************************************************)
(* Proofs about McpConnection, for any set of agents, any page limit and   *)
(* any number of calls, catalogues and forgotten sessions.                 *)
(*                                                                         *)
(* The invariants build on each other, and each is shown step by step over *)
(* the cases of lemma Steps:                                               *)
(*   LockInv     who is inside the two locks;                              *)
(*   LinkInv     the transport, its owner, the session and the status;     *)
(*   CatInv      the catalogue, and the pages that may replace it, come    *)
(*               from the session of now;                                  *)
(*   AwaitedStops  whoever waits for the transport told it to stop;        *)
(*   SendInv     how often a call was sent, by where it is;                *)
(*   SharedInv   the generation a call has noted belongs to its session;   *)
(*   ChangeInv   a page or catalogue older than what its session announced *)
(*               is known to be.                                           *)
(***************************************************************************)
EXTENDS McpConnection, TLAPS

Outcomes == {"none", "ok", "error", "unknown", "cancelled"}
OwnerStates == {"opening", "handshake", "open", "failed", "ended"}
ReqType(ids) == [op : {"none", "tool", "read"}, observed : Nat, on : ids, sends : Nat,
                 outcome : Outcomes, calls : Nat]
PageType(ids, v) == [count : 0..MaxPages, seen : 0..v, from : ids, on : ids, late : BOOLEAN]

\* TypeOK by who moves it.
LinkOK ==
    /\ status \in Statuses /\ generation \in Nat
    /\ session \in Ids /\ transport \in Ids
    /\ owner \in Seq(OwnerStates)
    /\ stop \subseteq Ids \ {0} /\ cut \subseteq Ids \ {0}
CatalogOK ==
    /\ catalog \in [version : 0..version, from : Ids, health : {"HEALTHY", "DEGRADED"}]
    /\ stale \in BOOLEAN
PlaceOK ==
    /\ pc \in [Actors -> AgentPcs \cup HostPcs]
    /\ pc[Host] \in HostPcs
    /\ \A c \in Callers : pc[c] \in AgentPcs
ReqOK == req \in [Callers -> ReqType(Ids)]
PageOK == page \in [Actors -> PageType(Ids, version)]
ServerOK ==
    /\ version \in 1..MaxVersion /\ note \in BOOLEAN
    /\ known \subseteq Ids \ {0} /\ expiries \in 0..MaxExpiries /\ overtaken \in BOOLEAN

LEMMA TypeParts == TypeOK <=> LinkOK /\ CatalogOK /\ PlaceOK /\ ReqOK /\ PageOK /\ ServerOK
BY DEF TypeOK, LinkOK, CatalogOK, PlaceOK, ReqOK, PageOK, ServerOK, ReqType, PageType, Outcomes, OwnerStates

LEMMA TypePartsNext == LinkOK' /\ CatalogOK' /\ PlaceOK' /\ ReqOK' /\ PageOK' /\ ServerOK' => TypeOK'
BY DEF TypeOK, LinkOK, CatalogOK, PlaceOK, ReqOK, PageOK, ServerOK, ReqType, PageType, Outcomes, OwnerStates

-----------------------------------------------------------------------------
(* Types.                                                                  *)

LEMMA GoneTo ==
    ASSUME McpAssumption, PlaceOK, NEW a \in Actors, NEW where, Goto(a, where),
           a = Host => where \in HostPcs, a # Host => where \in AgentPcs
    PROVE  PlaceOK'
BY DEF McpAssumption, PlaceOK, Goto, Actors

LEMMA ReqKept ==
    ASSUME ReqOK, req' = req, Ids \subseteq Ids'
    PROVE  ReqOK'
BY DEF ReqOK, ReqType

LEMMA ReqSet ==
    ASSUME ReqOK, NEW c \in Callers, NEW r \in ReqType(Ids), req' = [req EXCEPT ![c] = r], Ids \subseteq Ids'
    PROVE  ReqOK'
BY DEF ReqOK, ReqType

LEMMA OverType ==
    ASSUME ReqOK, NEW r, r.calls \in Nat, NEW o \in Outcomes
    PROVE  [Idle EXCEPT !.outcome = o, !.calls = r.calls] \in ReqType(Ids \cup {0})
<1>1. Idle \in ReqType(Ids \cup {0})
    BY DEF Idle, ReqType, Outcomes
<1>2. \A k \in Nat : [Idle EXCEPT !.outcome = o, !.calls = k] \in ReqType(Ids \cup {0})
    BY <1>1 DEF ReqType
<1> QED BY <1>2

LEMMA Returned ==
    ASSUME McpAssumption, PlaceOK, ReqOK, NEW c \in Callers, NEW o \in Outcomes, Return(c, o),
           session \in Ids, Ids \subseteq Ids', 0 \in Ids
    PROVE  PlaceOK' /\ ReqOK'
<1>1. PlaceOK'
    BY GoneTo DEF Return, Actors, AgentPcs, McpAssumption
<1>2. req[c].calls \in Nat /\ Ids \cup {0} = Ids
    BY DEF ReqOK, ReqType
<1>3. [Idle EXCEPT !.outcome = o, !.calls = req[c].calls] \in ReqType(Ids)
    BY <1>2, OverType
<1> QED BY <1>1, <1>3, ReqSet DEF Return

LEMMA Sent ==
    ASSUME McpAssumption, PlaceOK, ReqOK, NEW c \in Callers, NEW r \in ReqType(Ids), NEW s, Send(c, r, s),
           session \in Ids, Ids \subseteq Ids', 0 \in Ids
    PROVE  PlaceOK' /\ ReqOK'
<1>1. PlaceOK'
    BY GoneTo DEF Send, Actors, AgentPcs, McpAssumption
<1>2. [r EXCEPT !.on = session, !.sends = @ + 1] \in ReqType(Ids)
  <2>1. r.sends + 1 \in Nat
      BY DEF ReqType
  <2>2. \A n \in Nat : [r EXCEPT !.on = session, !.sends = n] \in ReqType(Ids)
      BY DEF ReqType
  <2> QED BY <2>1, <2>2
<1>3. [Idle EXCEPT !.outcome = "error", !.calls = r.calls] \in ReqType(Ids)
  <2>1. r.calls \in Nat /\ Ids \cup {0} = Ids
      BY DEF ReqType
  <2> QED BY <2>1, OverType DEF Outcomes
<1>4. ReqOK'
    BY <1>2, <1>3, ReqSet DEF Send
<1> QED BY <1>1, <1>4

LEMMA RecoveredTypes ==
    ASSUME McpAssumption, PlaceOK, ReqOK, NEW c \in Callers, NEW s, Recovered(c, s),
           session \in Ids, Ids \subseteq Ids', 0 \in Ids
    PROVE  PlaceOK' /\ ReqOK'
<1>1. req[c] \in ReqType(Ids)
    BY DEF ReqOK
<1> QED BY <1>1, Returned, Sent DEF Recovered, Outcomes

LEMMA PageKept ==
    ASSUME PageOK, page' = page, Ids \subseteq Ids', version' \in Nat, version \in Nat, version <= version'
    PROVE  PageOK'
<1>1. 0..version \subseteq 0..version'
    OBVIOUS
<1>2. PageType(Ids, version) \subseteq PageType(Ids', version')
    BY <1>1 DEF PageType
<1> QED BY <1>2 DEF PageOK

LEMMA PageSet ==
    ASSUME PageOK, NEW a \in Actors, NEW p \in PageType(Ids, version), page' = [page EXCEPT ![a] = p],
           Ids \subseteq Ids', version' = version
    PROVE  PageOK'
BY DEF PageOK, PageType

LEMMA NoPageType ==
    ASSUME McpAssumption, LinkOK, ServerOK
    PROVE  /\ NoPage \in PageType(Ids, version)
           /\ [NoPage EXCEPT !.count = 1, !.on = session] \in PageType(Ids, version)
<1>1. 0 \in Ids /\ session \in Ids /\ 0 \in 0..version /\ {0, 1} \subseteq 0..MaxPages
    BY DEF McpAssumption, LinkOK, ServerOK, Ids
<1>2. NoPage \in PageType(Ids, version)
    BY <1>1 DEF NoPage, PageType
<1>3. [NoPage EXCEPT !.count = 1, !.on = session] \in PageType(Ids, version)
    BY <1>1, <1>2 DEF PageType
<1> QED BY <1>2, <1>3

LEMMA Opens ==
    ASSUME McpAssumption, LinkOK, PlaceOK, NEW a \in Actors, OpenTransport(a),
           stop' \subseteq stop \cup {transport}, transport # 0 \/ stop' = stop, UNCHANGED <<generation, cut>>
    PROVE  LinkOK' /\ PlaceOK' /\ Ids \subseteq Ids'
<1>1. PlaceOK'
    BY GoneTo DEF OpenTransport, AgentPcs, HostPcs, Reconnecting
<1>2. Len(owner') = Len(owner) + 1 /\ owner' \in Seq(OwnerStates) /\ Len(owner) \in Nat
    BY DEF OpenTransport, LinkOK, OwnerStates
<1>3. Ids \subseteq Ids' /\ transport' \in Ids' /\ 0 \in Ids'
    BY <1>2 DEF OpenTransport, Ids
<1> QED BY <1>1, <1>2, <1>3 DEF OpenTransport, LinkOK, Statuses

LEMMA Abandons ==
    ASSUME McpAssumption, LinkOK, PlaceOK, NEW a \in Actors, NEW s \in Statuses, Abandon(a, s), transport # 0,
           UNCHANGED <<generation, session, transport, owner, cut>>
    PROVE  LinkOK' /\ PlaceOK'
<1>1. PlaceOK'
    BY GoneTo DEF Abandon, AgentPcs, HostPcs, Reconnecting
<1> QED BY <1>1 DEF Abandon, LinkOK, Ids

-----------------------------------------------------------------------------
(* A refresh, by what comes of it.                                         *)

Reading == {"callRefresh", "connRefresh"} \cup Refreshing
Loaded(a) == [page[a] EXCEPT !.seen = IF @ = 0 THEN version ELSE @,
                             !.from = IF @ = 0 THEN page[a].on ELSE @]
quietVars == <<generation, session, transport, owner, cut, note, serverVars>>

\* It raises, to the caller or into connect.
FailStep(a) ==
    /\ pc[a] \in Reading
    /\ Raise(a)
    /\ \/ UNCHANGED catalogVars
       \/ stale' = TRUE /\ catalog' = [catalog EXCEPT !.health = "DEGRADED"]
    /\ \/ UNCHANGED page
       \/ page' = [page EXCEPT ![a] = NoPage]
    /\ UNCHANGED <<quietVars, overtaken>>

EnterStep(a) ==
    /\ pc[a] \in {"callRefresh", "connRefresh"}
    /\ RefreshFree
    /\ Accepted(status)
    /\ Enter(a)
    /\ UNCHANGED <<quietVars, overtaken>>

TurnStep(a) ==
    /\ pc[a] \in Refreshing
    /\ Answers(page[a].on)
    /\ page[a].count # MaxPages
    /\ Accepted(status)
    /\ page' = [page EXCEPT ![a] = [Loaded(a) EXCEPT !.count = @ + 1, !.on = session]]
    /\ UNCHANGED <<quietVars, overtaken, status, stop, catalogVars, pc, req>>

CommitStep(a) ==
    /\ pc[a] \in Refreshing
    /\ Answers(page[a].on)
    /\ \E truncated \in BOOLEAN : Commit(a, Loaded(a), truncated)
    /\ UNCHANGED quietVars

LEMMA RefreshSteps ==
    ASSUME NEW a, Refresh(a)
    PROVE  FailStep(a) \/ EnterStep(a)
BY DEF Refresh, RefreshFails, FailStep, EnterStep, Reading, quietVars, catalogVars

LEMMA PageSteps ==
    ASSUME PageOK, NEW a \in Actors, PageArrives(a) \/ PageNotFound(a) \/ PageFails(a)
    PROVE  FailStep(a) \/ TurnStep(a) \/ CommitStep(a)
<1>1. CASE PageNotFound(a) \/ PageFails(a)
    BY <1>1 DEF PageNotFound, PageFails, RefreshFails, FailStep, Reading, quietVars, catalogVars
<1>2. CASE PageArrives(a)
  <2>1. Loaded(a).on = page[a].on /\ Loaded(a).count = page[a].count
      BY DEF Loaded, PageOK, PageType
  <2>2. /\ pc[a] \in Refreshing /\ Answers(Loaded(a).on)
        /\ UNCHANGED <<generation, session, transport, owner, cut, note, serverVars>>
      BY <1>2 DEF PageArrives, Loaded
  <2>3. \/ \E truncated \in BOOLEAN : Commit(a, Loaded(a), truncated)
        \/ /\ Loaded(a).count # MaxPages
           /\ Accepted(status)
           /\ page' = [page EXCEPT ![a] = [Loaded(a) EXCEPT !.count = @ + 1, !.on = session]]
           /\ UNCHANGED <<status, stop, catalogVars, pc, req, overtaken>>
        \/ /\ RefreshFails(a)
           /\ page' = [page EXCEPT ![a] = NoPage]
           /\ UNCHANGED overtaken
      BY <1>2 DEF PageArrives, Loaded, AtLimit
  <2>4. CASE \E truncated \in BOOLEAN : Commit(a, Loaded(a), truncated)
      BY <2>1, <2>2, <2>4 DEF CommitStep, quietVars
  <2>5. CASE /\ Loaded(a).count # MaxPages
             /\ Accepted(status)
             /\ page' = [page EXCEPT ![a] = [Loaded(a) EXCEPT !.count = @ + 1, !.on = session]]
             /\ UNCHANGED <<status, stop, catalogVars, pc, req, overtaken>>
      BY <2>1, <2>2, <2>5 DEF TurnStep, quietVars
  <2>6. CASE /\ RefreshFails(a)
             /\ page' = [page EXCEPT ![a] = NoPage]
             /\ UNCHANGED overtaken
      BY <2>2, <2>6 DEF RefreshFails, FailStep, Reading, quietVars, catalogVars
  <2> QED BY <2>3, <2>4, <2>5, <2>6
<1> QED BY <1>1, <1>2

\* The steps of the host, of an agent, of a connect, of the owners and of the
\* server, as the cases of every proof below.
HostStep == HostStarts \/ HostCloses \/ HostClosed
CallStep(c) == \/ \E o \in {"tool", "read"} : Begin(c, o)
               \/ Answered(c) \/ SessionNotFound(c) \/ Reinitialize(c) \/ Closed(c)
               \/ CancelCall(c)
ConnectStep(a) == \/ Opened(a) \/ OpenFails(a) \/ CancelConnect(a) \/ Abandoned(a)
                  \/ StopTimesOut(a) \/ CancelWait(a) \/ Escape(a)
                  \/ FailStep(a) \/ EnterStep(a) \/ TurnStep(a) \/ CommitStep(a)
OwnerStep(id) == OwnerEnters(id) \/ OwnerInitialised(id) \/ OwnerEnds(id)
ServerStep == ServerChanges \/ ServerForgets \/ ListChanged

LEMMA Steps ==
    ASSUME PageOK, [Next]_vars
    PROVE  \/ HostStep
           \/ \E c \in Callers : CallStep(c)
           \/ \E a \in Actors : ConnectStep(a)
           \/ \E id \in DOMAIN owner : OwnerStep(id)
           \/ ServerStep
           \/ UNCHANGED vars
<1>1. ASSUME NEW a \in Actors, Connect(a)
      PROVE  ConnectStep(a)
    BY <1>1, RefreshSteps, PageSteps DEF Connect, ConnectStep
<1>2. ASSUME NEW c \in Callers, Call(c)
      PROVE  CallStep(c)
    BY <1>2 DEF Call, CallStep
<1> QED BY <1>1, <1>2 DEF Next, HostStep, OwnerStep, ServerStep

-----------------------------------------------------------------------------
(* The two locks.                                                          *)

\* A refresh and a reconnect have one holder each; agents are at work only
\* while the host serves them.
LockInv ==
    /\ \A a, b \in Actors : pc[a] \in Refreshing /\ pc[b] \in Refreshing => a = b
    /\ \A a, b \in Actors : pc[a] \in Reconnecting /\ pc[b] \in Reconnecting => a = b
    /\ pc[Host] # "serving" => \A c \in Callers : pc[c] = "idle"

LEMMA Moved ==
    ASSUME PlaceOK, NEW a \in Actors, NEW where, Goto(a, where)
    PROVE  pc'[a] = where /\ \A b \in Actors : b # a => pc'[b] = pc[b]
BY DEF PlaceOK, Goto

LEMMA LockMoves ==
    ASSUME McpAssumption, PlaceOK, LockInv, NEW a \in Actors, NEW where, Goto(a, where),
           where \in Refreshing => pc[a] \in Refreshing \/ RefreshFree,
           where \in Reconnecting => pc[a] \in Reconnecting \/ \A b \in Actors : pc[b] \notin Reconnecting,
           a = Host /\ where # "serving" => pc[Host] # "serving" \/ \A c \in Callers : pc[c] = "idle",
           a # Host /\ where # "idle" => pc[a] # "idle" \/ pc[Host] = "serving"
    PROVE  LockInv'
<1>1. pc'[a] = where /\ \A b \in Actors : b # a => pc'[b] = pc[b]
    BY Moved
<1>2. Host \in Actors /\ Callers \subseteq Actors /\ \A c \in Callers : c # Host
    BY DEF Actors, McpAssumption
<1>3. \A b, c \in Actors : pc'[b] \in Refreshing /\ pc'[c] \in Refreshing => b = c
    BY <1>1 DEF LockInv, RefreshFree
<1>4. \A b, c \in Actors : pc'[b] \in Reconnecting /\ pc'[c] \in Reconnecting => b = c
    BY <1>1 DEF LockInv
<1>5. pc'[Host] # "serving" => \A c \in Callers : pc'[c] = "idle"
  <2>1. CASE a = Host
      BY <1>1, <1>2, <2>1 DEF LockInv
  <2>2. CASE a # Host
      BY <1>1, <1>2, <2>2 DEF LockInv, Actors
  <2> QED BY <2>1, <2>2
<1> QED BY <1>3, <1>4, <1>5 DEF LockInv

\* To where no lock is held.
LEMMA LockLeaves ==
    ASSUME McpAssumption, PlaceOK, LockInv, NEW a \in Actors, NEW where, Goto(a, where),
           where \in {"idle", "calling", "reconnect", "callRefresh", "serving", "over"},
           a = Host => pc[Host] # "serving" \/ where = "serving" \/ \A c \in Callers : pc[c] = "idle",
           a # Host => pc[a] # "idle" \/ pc[Host] = "serving"
    PROVE  LockInv'
BY LockMoves DEF Refreshing, Reconnecting

LEMMA LockStays ==
    ASSUME LockInv, pc' = pc
    PROVE  LockInv'
BY DEF LockInv

LEMMA WhoReads ==
    ASSUME McpAssumption, PlaceOK, NEW a \in Actors
    PROVE  /\ a = Host => pc[a] \notin {"callRefresh", "callPaging", "calling", "reconnect", "idle"}
           /\ a # Host => a \in Callers /\ pc[a] \notin {"created", "serving", "over"}
BY DEF McpAssumption, PlaceOK, HostPcs, AgentPcs, Reconnecting, Actors

LEMMA LockStep == McpAssumption /\ TypeOK /\ LockInv /\ [Next]_vars => LockInv'
<1> SUFFICES ASSUME McpAssumption, TypeOK, LockInv, [Next]_vars PROVE LockInv'
    OBVIOUS
<1>1. PlaceOK /\ PageOK /\ Host \in Actors /\ Callers \subseteq Actors /\ \A c \in Callers : c # Host
    BY TypeParts DEF Actors, McpAssumption
<1>2. CASE HostStarts
  <2>1. Goto(Host, "opening") /\ pc[Host] = "created"
      BY <1>2 DEF HostStarts, OpenTransport
  <2>2. \A b \in Actors : pc[b] \notin Reconnecting
      BY <2>1 DEF LockInv, Actors, Reconnecting
  <2> QED BY <1>1, <2>1, <2>2, LockMoves DEF Refreshing
<1>3. CASE HostCloses
  <2>1. \A b \in Actors : pc[b] \notin Reconnecting
      BY <1>3 DEF HostCloses, Actors, Reconnecting
  <2>2. \A c \in Callers : pc[c] = "idle"
      BY <1>3 DEF HostCloses
  <2>3. Goto(Host, "over") \/ Goto(Host, "closing")
      BY <1>3 DEF HostCloses
  <2> QED BY <1>1, <2>1, <2>2, <2>3, LockMoves DEF Refreshing
<1>4. CASE HostClosed
    BY <1>1, <1>4, LockLeaves DEF HostClosed
<1>5. ASSUME NEW c \in Callers, CallStep(c) PROVE LockInv'
  <2>1. ASSUME NEW o \in {"tool", "read"}, Begin(c, o) PROVE LockInv'
    <3>1. pc[Host] = "serving" /\ \E where \in {"idle", "calling", "callRefresh"} : Goto(c, where)
        BY <2>1 DEF Begin, Send
    <3> QED BY <1>1, <3>1, LockLeaves
  <2>2. CASE Answered(c) \/ SessionNotFound(c) \/ CancelCall(c)
    <3>1. pc[c] # "idle" /\ \E where \in {"idle", "reconnect"} : Goto(c, where)
        BY <2>2 DEF Answered, SessionNotFound, CancelCall, Return
    <3> QED BY <1>1, <3>1, LockLeaves
  <2>3. CASE Reinitialize(c)
    <3>1. /\ pc[c] = "reconnect"
          /\ \E where \in {"idle", "calling", "opening", "closing"} : Goto(c, where)
        BY <2>3 DEF Reinitialize, Recovered, Return, Send, OpenTransport
    <3>2. pc[Host] = "serving"
        BY <3>1 DEF LockInv
    <3>3. \A b \in Actors : pc[b] \notin Reconnecting
        BY <2>3, <3>2 DEF Reinitialize, ReconnectFree, Actors, Reconnecting
    <3> QED BY <1>1, <3>1, <3>3, LockMoves DEF Refreshing
  <2>4. CASE Closed(c)
    <3>1. pc[c] = "closing" /\ \E where \in {"idle", "opening"} : Goto(c, where)
        BY <2>4 DEF Closed, OpenTransport, Return
    <3> QED BY <1>1, <3>1, LockMoves DEF Refreshing, Reconnecting
  <2> QED BY <1>5, <2>1, <2>2, <2>3, <2>4 DEF CallStep
<1>6. ASSUME NEW a \in Actors, ConnectStep(a) PROVE LockInv'
  <2> USE WhoReads
  <2>1. CASE Opened(a) \/ OpenFails(a) \/ CancelConnect(a)
    <3>1. pc[a] \in Reconnecting /\ \E where \in {"connRefresh", "abandoning"} : Goto(a, where)
        BY <2>1 DEF Opened, OpenFails, CancelConnect, Abandon, Reconnecting
    <3> QED BY <1>1, <3>1, LockMoves DEF Refreshing, Reconnecting
  <2>2. CASE Abandoned(a)
    <3>1. pc[a] = "abandoning" /\ \E where \in {"over", "serving", "idle"} : Goto(a, where)
        BY <2>2 DEF Abandoned, Return
    <3> QED BY <1>1, <3>1, LockLeaves
  <2>3. CASE FailStep(a)
    <3>1. /\ pc[a] \in Reading
          /\ \/ Goto(a, "idle") /\ pc[a] \in {"callRefresh", "callPaging"}
             \/ Goto(a, "abandoning") /\ pc[a] \notin {"callRefresh", "callPaging"}
        BY <2>3 DEF FailStep, Raise, Return, Abandon
    <3> QED BY <1>1, <3>1, LockMoves DEF Refreshing, Reconnecting, Reading
  <2>4. CASE EnterStep(a)
    <3>1. /\ RefreshFree
          /\ \/ Goto(a, "callPaging") /\ pc[a] = "callRefresh"
             \/ Goto(a, "connPaging") /\ pc[a] = "connRefresh"
        BY <2>4 DEF EnterStep, Enter
    <3> QED BY <1>1, <3>1, LockMoves DEF Refreshing, Reconnecting
  <2>5. CASE TurnStep(a)
      BY <2>5, LockStays DEF TurnStep
  <2>6. CASE CommitStep(a)
    <3>1. /\ pc[a] \in Refreshing
          /\ \/ a = Host /\ Goto(a, "serving")
             \/ a # Host /\ \E where \in {"idle", "calling"} : Goto(a, where)
        BY <1>1, <2>6 DEF CommitStep, Commit, Send, Recovered, Return, Refreshing
    <3> QED BY <1>1, <3>1, LockLeaves DEF Refreshing
  <2>7. CASE StopTimesOut(a) \/ CancelWait(a)
      BY <2>7, LockStays DEF StopTimesOut, CancelWait
  <2>8. CASE Escape(a)
    <3>1. /\ pc[a] \in Waiting
          /\ \/ a = Host /\ Goto(a, "over")
             \/ a # Host /\ Goto(a, "idle")
        BY <2>8 DEF Escape, Return
    <3> QED BY <1>1, <3>1, LockLeaves DEF Waiting
  <2> QED BY <1>6, <2>1, <2>2, <2>3, <2>4, <2>5, <2>6, <2>7, <2>8 DEF ConnectStep
<1>7. ASSUME NEW id \in DOMAIN owner, OwnerStep(id) PROVE LockInv'
    BY <1>7, LockStays DEF OwnerStep, OwnerEnters, OwnerInitialised, OwnerEnds
<1>8. CASE ServerStep
    BY <1>8, LockStays DEF ServerStep, ServerChanges, ServerForgets, ListChanged
<1>9. CASE UNCHANGED vars
    BY <1>9, LockStays DEF vars
<1> QED BY <1>1, <1>2, <1>3, <1>4, <1>5, <1>6, <1>7, <1>8, <1>9, Steps DEF HostStep

-----------------------------------------------------------------------------
(* The transport, its owner and the session.                               *)

Up == transport # 0 /\ owner[transport] \in {"open", "ended"}

\* The owners that live are the one the connection knows and those cut off,
\* the session is its own or none; whoever connects has a transport, and what
\* is ready is up.
Cut(id) == Alive(id) => id \in cut
LinkInv ==
    /\ \A id \in DOMAIN owner : id # transport => Cut(id)
    /\ session \in {0, transport}
    /\ transport # 0 /\ owner[transport] \notin {"handshake", "open"} => session = 0
    /\ \A a \in Actors : pc[a] \in Reconnecting => transport # 0 /\ status # "READY"
    /\ \A a \in Actors : pc[a] \in {"connRefresh", "connPaging"} => Up
    /\ pc[Host] = "created" => owner = <<>> /\ transport = 0
    /\ pc[Host] = "over" => \A id \in DOMAIN owner : Cut(id)
    /\ status # "DEGRADED"
    /\ status = "READY" => Up
    /\ \A id \in known : id \in DOMAIN owner /\ owner[id] = "open"

\* Nothing moves but actors, and the status away from READY.
LEMMA LinkCalm ==
    ASSUME LinkInv, UNCHANGED <<session, transport, owner>>, known' \subseteq known, cut \subseteq cut',
           status' \in {status, "FAILED", "STOPPING"},
           \A a \in Actors : pc'[a] \in Reconnecting =>
               pc[a] \in Reconnecting \/ (transport # 0 /\ status' # "READY"),
           \A a \in Actors : pc'[a] \in {"connRefresh", "connPaging"} =>
               pc[a] \in {"connRefresh", "connPaging"} \/ Up,
           pc'[Host] = "created" => pc[Host] = "created",
           pc'[Host] = "over" => pc[Host] = "over" \/ \A id \in DOMAIN owner : Cut(id)
    PROVE  LinkInv'
<1>1. Up' <=> Up
    BY DEF Up
<1>2. \A id : Cut(id) => Cut(id)'
    BY DEF Alive, Cut
<1> QED BY <1>1, <1>2 DEF LinkInv

\* One actor moves, and the status away from READY.
LEMMA LinkMoves ==
    ASSUME McpAssumption, PlaceOK, LinkInv, UNCHANGED <<session, transport, owner, cut>>, known' \subseteq known,
           status' \in {status, "FAILED", "STOPPING"},
           NEW a \in Actors, NEW where, Goto(a, where), where # "created",
           where \in Reconnecting => pc[a] \in Reconnecting \/ (transport # 0 /\ status' # "READY"),
           where \in {"connRefresh", "connPaging"} => pc[a] \in {"connRefresh", "connPaging"} \/ Up,
           a = Host /\ where = "over" => \A id \in DOMAIN owner : Cut(id)
    PROVE  LinkInv'
<1>1. pc'[a] = where /\ \A b \in Actors : b # a => pc'[b] = pc[b]
    BY Moved
<1>2. Host \in Actors
    BY DEF Actors
<1>3. /\ \A b \in Actors : pc'[b] \in Reconnecting =>
             pc[b] \in Reconnecting \/ (transport # 0 /\ status' # "READY")
      /\ \A b \in Actors : pc'[b] \in {"connRefresh", "connPaging"} =>
             pc[b] \in {"connRefresh", "connPaging"} \/ Up
    BY <1>1
<1>4. /\ pc'[Host] = "created" => pc[Host] = "created"
      /\ pc'[Host] = "over" => pc[Host] = "over" \/ \A id \in DOMAIN owner : Cut(id)
    BY <1>1, <1>2
<1> QED BY <1>3, <1>4, LinkCalm

\* A new transport, after the end of the last.
LEMMA LinkOpens ==
    ASSUME McpAssumption, LinkOK, PlaceOK, LinkInv, NEW a \in Actors, OpenTransport(a), UNCHANGED <<known, cut>>,
           \A b \in Actors : b # a => pc[b] \notin Reconnecting,
           \A id \in DOMAIN owner : Cut(id),
           a # Host => pc[Host] = "serving"
    PROVE  LinkInv'
<1>1. /\ pc'[a] = "opening" /\ \A b \in Actors : b # a => pc'[b] = pc[b]
      /\ status' = "CONNECTING" /\ session' = 0 /\ transport' = Len(owner) + 1
      /\ owner' = Append(owner, "opening")
    BY Moved DEF OpenTransport
<1>2. /\ owner \in Seq(OwnerStates) /\ Len(owner) \in Nat
    BY DEF LinkOK
<1>3. /\ DOMAIN owner' = 1..(Len(owner) + 1) /\ DOMAIN owner = 1..Len(owner)
      /\ owner'[Len(owner) + 1] = "opening"
      /\ \A id \in DOMAIN owner : owner'[id] = owner[id]
    BY <1>1, <1>2
<1>4. \A id \in DOMAIN owner' : id # transport' => Cut(id)'
    BY <1>1, <1>2, <1>3 DEF Alive, Cut
<1>5. transport' # 0 /\ owner'[transport'] = "opening"
    BY <1>1, <1>2, <1>3
<1>6. Host \in Actors /\ pc'[Host] \notin {"created", "over"}
    BY <1>1 DEF Actors
<1>7. \A id \in known : id \in DOMAIN owner' /\ owner'[id] = "open"
    BY <1>2, <1>3 DEF LinkInv
<1>8. \A b \in Actors : b # a => pc'[b] \notin {"connRefresh", "connPaging"} \cup Reconnecting
    BY <1>1 DEF Reconnecting
<1>9. pc'[a] \notin {"connRefresh", "connPaging"}
    BY <1>1
<1>10. \A b \in Actors : pc'[b] \in Reconnecting => b = a
    BY <1>8
<1> QED BY <1>1, <1>4, <1>5, <1>6, <1>7, <1>8, <1>9, <1>10 DEF LinkInv

\* The transport has ended, or is cut off, and is forgotten.
LEMMA LinkGone ==
    ASSUME McpAssumption, LinkOK, PlaceOK, LockInv, LinkInv, NEW a \in Actors, NEW where, Goto(a, where),
           pc[a] \in Reconnecting, Cut(transport), transport' = 0, session' = 0, UNCHANGED <<owner, known, cut>>,
           status' \in {status, "STOPPED"}, where \notin Reconnecting, where # "created"
    PROVE  LinkInv'
<1>1. pc'[a] = where /\ \A b \in Actors : b # a => pc'[b] = pc[b]
    BY Moved
<1>2. \A b \in Actors : pc'[b] \notin Reconnecting
    BY <1>1 DEF LockInv
<1>3. \A id \in DOMAIN owner : Cut(id)
    BY DEF LinkInv
<1>4. \A id \in DOMAIN owner' : Cut(id)'
    BY <1>3 DEF Alive, Cut
<1>5. status' # "READY" /\ status' # "DEGRADED"
    BY DEF LinkInv
<1>6. \A b \in Actors : pc'[b] \notin {"connRefresh", "connPaging"}
    BY <1>2 DEF Reconnecting
<1>7. pc'[Host] = "created" => owner = <<>>
    BY <1>1 DEF LinkInv, Actors
<1> QED BY <1>2, <1>3, <1>4, <1>5, <1>6, <1>7 DEF LinkInv

\* A connect is complete.
LEMMA LinkReady ==
    ASSUME McpAssumption, PlaceOK, LockInv, LinkInv, NEW a \in Actors, NEW where, Goto(a, where),
           pc[a] = "connPaging", status' = "READY", UNCHANGED <<session, transport, owner, known, cut>>,
           where \in {"serving", "idle", "calling"}
    PROVE  LinkInv'
<1>1. pc'[a] = where /\ \A b \in Actors : b # a => pc'[b] = pc[b]
    BY Moved
<1>2. \A b \in Actors : pc'[b] \notin Reconnecting
    BY <1>1 DEF LockInv, Reconnecting
<1>3. Up /\ (Up' <=> Up)
    BY DEF LinkInv, Up
<1>4. \A id : Cut(id)' <=> Cut(id)
    BY DEF Alive, Cut
<1>5. \A b \in Actors : pc'[b] \notin {"connRefresh", "connPaging"}
    BY <1>2 DEF Reconnecting
<1>6. Host \in Actors /\ pc'[Host] \in {pc[Host], "serving", "idle", "calling"}
    BY <1>1 DEF Actors
<1> QED BY <1>2, <1>3, <1>4, <1>5, <1>6 DEF LinkInv

LEMMA LinkStep ==
    McpAssumption /\ TypeOK /\ LockInv /\ LinkInv /\ [Next]_vars => LinkInv'
<1> SUFFICES ASSUME McpAssumption, TypeOK, LockInv, LinkInv, [Next]_vars PROVE LinkInv'
    OBVIOUS
<1>1. /\ PlaceOK /\ PageOK /\ LinkOK /\ Host \in Actors /\ Callers \subseteq Actors
      /\ \A c \in Callers : c # Host
    BY TypeParts DEF Actors, McpAssumption
<1>a. \A c \in Callers : pc[c] # "idle" => pc[Host] = "serving"
    BY DEF LockInv
<1>2. CASE HostStarts
  <2>1. OpenTransport(Host) /\ pc[Host] = "created" /\ UNCHANGED <<known, cut>>
      BY <1>2 DEF HostStarts, serverVars
  <2>2. \A b \in Actors : b # Host => pc[b] \notin Reconnecting
      BY <2>1 DEF LockInv, Actors, Reconnecting
  <2>3. DOMAIN owner = {}
      BY <2>1 DEF LinkInv
  <2> QED BY <1>1, <2>1, <2>2, <2>3, LinkOpens
<1>3. CASE HostCloses
  <2>1. /\ UNCHANGED <<session, transport, owner, known, cut>>
        /\ \/ transport = 0 /\ Goto(Host, "over") /\ status' = status
           \/ transport # 0 /\ Goto(Host, "closing") /\ status' = "STOPPING"
      BY <1>3 DEF HostCloses, serverVars
  <2>2. transport = 0 => \A id \in DOMAIN owner : Cut(id)
      BY <1>1 DEF LinkInv, LinkOK
  <2> QED BY <1>1, <2>1, <2>2, LinkMoves DEF Reconnecting
<1>4. CASE HostClosed
  <2>1. /\ pc[Host] \in Reconnecting /\ Cut(transport) /\ transport' = 0 /\ session' = 0
        /\ UNCHANGED <<owner, known, cut>> /\ status' = "STOPPED" /\ Goto(Host, "over")
      BY <1>4 DEF HostClosed, serverVars, Reconnecting, Cut
  <2> QED BY <1>1, <2>1, LinkGone DEF Reconnecting
<1>5. ASSUME NEW c \in Callers, CallStep(c) PROVE LinkInv'
  <2>1. CASE (\E o \in {"tool", "read"} : Begin(c, o)) \/ Answered(c) \/ SessionNotFound(c) \/ CancelCall(c)
    <3>1. /\ UNCHANGED <<status, session, transport, owner, known, cut>>
          /\ \E where \in {"idle", "calling", "callRefresh", "reconnect"} : Goto(c, where)
        BY <2>1 DEF Begin, Send, Answered, SessionNotFound, CancelCall, Return, linkVars, serverVars
    <3> QED BY <1>1, <3>1, LinkMoves DEF Reconnecting
  <2>2. CASE Reinitialize(c)
    <3>1. /\ pc[c] = "reconnect" /\ UNCHANGED <<known, cut>>
          /\ \/ UNCHANGED linkVars /\ \E where \in {"idle", "calling"} : Goto(c, where)
             \/ transport = 0 /\ OpenTransport(c)
             \/ transport # 0 /\ status' = "STOPPING" /\ Goto(c, "closing") /\ UNCHANGED <<session, transport, owner>>
        BY <2>2 DEF Reinitialize, Recovered, Return, Send, linkVars, serverVars
    <3>2. CASE UNCHANGED linkVars /\ \E where \in {"idle", "calling"} : Goto(c, where)
        BY <1>1, <3>1, <3>2, LinkMoves DEF Reconnecting, linkVars
    <3>3. CASE transport = 0 /\ OpenTransport(c)
      <4>1. pc[Host] = "serving"
          BY <1>a, <3>1
      <4>2. \A b \in Actors : pc[b] \notin Reconnecting
          BY <2>2, <4>1 DEF Reinitialize, ReconnectFree, Actors, Reconnecting
      <4>3. \A id \in DOMAIN owner : Cut(id)
          BY <1>1, <3>3 DEF LinkInv, LinkOK
      <4> QED BY <1>1, <3>1, <3>3, <4>1, <4>2, <4>3, LinkOpens
    <3>4. CASE transport # 0 /\ status' = "STOPPING" /\ Goto(c, "closing") /\ UNCHANGED <<session, transport, owner>>
        BY <1>1, <3>1, <3>4, LinkMoves DEF Reconnecting
    <3> QED BY <3>1, <3>2, <3>3, <3>4
  <2>3. CASE Closed(c)
    <3>1. pc[c] = "closing" /\ Cut(transport) /\ UNCHANGED <<known, cut>>
        BY <2>3 DEF Closed, serverVars, Cut
    <3>2. CASE status' = "STOPPED" /\ transport' = 0 /\ session' = 0 /\ Goto(c, "idle") /\ UNCHANGED owner
        BY <1>1, <3>1, <3>2, LinkGone DEF Reconnecting
    <3>3. CASE OpenTransport(c)
      <4>1. pc[Host] = "serving"
          BY <1>a, <3>1
      <4>2. \A b \in Actors : b # c => pc[b] \notin Reconnecting
          BY <1>1, <3>1 DEF LockInv, Reconnecting
      <4>3. \A id \in DOMAIN owner : Cut(id)
          BY <3>1 DEF LinkInv
      <4> QED BY <1>1, <3>1, <3>3, <4>1, <4>2, <4>3, LinkOpens
    <3> QED BY <2>3, <3>2, <3>3 DEF Closed, Return
  <2> QED BY <1>5, <2>1, <2>2, <2>3 DEF CallStep
<1>6. ASSUME NEW a \in Actors, ConnectStep(a) PROVE LinkInv'
  <2>1. CASE Opened(a)
    <3>1. pc[a] = "opening" /\ transport # 0
        BY <1>6, <2>1 DEF Opened, LinkInv, Reconnecting
    <3>2. Up /\ Goto(a, "connRefresh") /\ UNCHANGED linkVars /\ known' = known
        BY <2>1, <3>1 DEF Opened, Up, serverVars
    <3> QED BY <1>1, <3>1, <3>2, LinkMoves DEF Reconnecting, linkVars
  <2>2. CASE OpenFails(a) \/ CancelConnect(a)
    <3>1. /\ pc[a] \in Reconnecting /\ Goto(a, "abandoning") /\ status' \in {"FAILED", "STOPPING"}
          /\ UNCHANGED <<session, transport, owner, known, cut>>
        BY <2>2 DEF OpenFails, CancelConnect, Abandon, Reconnecting, serverVars
    <3> QED BY <1>1, <3>1, LinkMoves DEF Reconnecting
  <2>3. CASE Abandoned(a)
    <3>1. /\ pc[a] \in Reconnecting /\ Cut(transport) /\ transport' = 0 /\ session' = 0
          /\ UNCHANGED <<owner, known, cut, status>>
          /\ \E where \in {"over", "serving", "idle"} : Goto(a, where)
        BY <2>3 DEF Abandoned, Return, serverVars, Reconnecting, Cut
    <3> QED BY <1>1, <3>1, LinkGone DEF Reconnecting
  <2>4. CASE FailStep(a)
    <3>1. /\ UNCHANGED <<session, transport, owner, known, cut>>
          /\ \/ Goto(a, "idle") /\ status' = status
             \/ Goto(a, "abandoning") /\ pc[a] \in {"connRefresh", "connPaging"} /\ status' = "FAILED"
        BY <2>4 DEF FailStep, Raise, Return, Abandon, Reading, Refreshing, quietVars, serverVars
    <3> QED BY <1>1, <3>1, LinkMoves DEF Reconnecting
  <2>5. CASE EnterStep(a)
    <3>1. /\ UNCHANGED <<status, session, transport, owner, known, cut>>
          /\ \/ Goto(a, "callPaging")
             \/ Goto(a, "connPaging") /\ pc[a] = "connRefresh"
        BY <2>5 DEF EnterStep, Enter, quietVars, serverVars
    <3> QED BY <1>1, <3>1, LinkMoves DEF Reconnecting
  <2>6. CASE TurnStep(a)
    BY <2>6, LinkCalm DEF TurnStep, quietVars, serverVars
  <2>7. CASE CommitStep(a)
    <3>1. /\ UNCHANGED <<session, transport, owner, known, cut>>
          /\ \/ status' = status /\ \E where \in {"idle", "calling"} : Goto(a, where)
             \/ pc[a] = "connPaging" /\ status' = "READY" /\ \E where \in {"serving", "idle", "calling"} : Goto(a, where)
        BY <2>7 DEF CommitStep, Commit, Send, Recovered, Return, Refreshing, quietVars, serverVars
    <3>2. CASE status' = status /\ \E where \in {"idle", "calling"} : Goto(a, where)
        BY <1>1, <3>1, <3>2, LinkMoves DEF Reconnecting
    <3>3. CASE pc[a] = "connPaging" /\ status' = "READY" /\ \E where \in {"serving", "idle", "calling"} : Goto(a, where)
        BY <1>1, <3>1, <3>3, LinkReady
    <3> QED BY <3>1, <3>2, <3>3
  <2>8. CASE StopTimesOut(a) \/ CancelWait(a)
      BY <2>8, LinkCalm DEF StopTimesOut, CancelWait, serverVars
  <2>9. CASE Escape(a)
    <3>1. /\ pc[a] \in Reconnecting /\ Cut(transport) /\ transport' = 0 /\ session' = 0
          /\ UNCHANGED <<owner, known, cut>> /\ status' \in {status, "STOPPED"}
          /\ \E where \in {"over", "idle"} : Goto(a, where)
        BY <2>9 DEF Escape, Return, serverVars, Waiting, Reconnecting, Cut
    <3> QED BY <1>1, <3>1, LinkGone DEF Reconnecting
  <2> QED BY <1>6, <2>1, <2>2, <2>3, <2>4, <2>5, <2>6, <2>7, <2>8, <2>9 DEF ConnectStep
<1>7. ASSUME NEW id \in DOMAIN owner, OwnerStep(id) PROVE LinkInv'
  <2>1. Alive(id) /\ UNCHANGED <<status, transport, pc>> /\ id # 0
      BY <1>1, <1>7 DEF OwnerStep, OwnerEnters, OwnerInitialised, OwnerEnds, Alive, LinkOK
  <2>2. PICK s : owner' = [owner EXCEPT ![id] = s]
      BY <1>7 DEF OwnerStep, OwnerEnters, OwnerInitialised, OwnerEnds
  <2>3. /\ DOMAIN owner' = DOMAIN owner /\ owner'[id] = s
        /\ \A o \in DOMAIN owner : o # id => owner'[o] = owner[o] /\ (Alive(o)' <=> Alive(o))
      BY <1>1, <2>1, <2>2 DEF LinkOK, Alive
  <2>4. pc[Host] # "created"
      BY <1>7 DEF LinkInv
  <2>5. ASSUME id \notin cut, cut' = cut
        PROVE  /\ id = transport /\ pc[Host] # "over"
               /\ \A o \in DOMAIN owner : o # transport => Cut(o)'
    <3>1. id = transport /\ pc[Host] # "over"
        BY <2>1, <2>5 DEF LinkInv, Cut
    <3> QED BY <2>3, <2>5, <3>1 DEF LinkInv, Cut
  <2>6. CASE OwnerEnters(id)
    <3>1. /\ s = "handshake" /\ session' = id /\ UNCHANGED <<known, cut>> /\ owner[id] = "opening" /\ id \notin cut
        BY <1>1, <2>1, <2>2, <2>3, <2>6 DEF OwnerEnters, serverVars, LinkOK
    <3>2. id = transport /\ ~Up /\ id \notin known
        BY <2>5, <3>1 DEF LinkInv, Up
    <3> QED BY <2>1, <2>3, <2>4, <2>5, <3>1, <3>2 DEF LinkInv, Up
  <2>7. CASE OwnerInitialised(id)
    <3>1. s = "open" /\ session' = session /\ known' = known \cup {id} /\ cut' = cut /\ id \notin cut
        BY <1>1, <2>1, <2>2, <2>3, <2>7 DEF OwnerInitialised, LinkOK
    <3>2. Up' /\ id = transport
        BY <2>1, <2>3, <2>5, <3>1 DEF Up
    <3> QED BY <1>7, <2>1, <2>3, <2>4, <2>5, <3>1, <3>2 DEF LinkInv
  <2>8. CASE OwnerEnds(id)
    <3>1. /\ s = IF owner[id] = "open" THEN "ended" ELSE "failed"
          /\ session' = 0 /\ known' = known \ {id} /\ cut' = cut \ {id}
        BY <1>1, <2>1, <2>2, <2>3, <2>8 DEF OwnerEnds, LinkOK
    <3>2. (Up => Up') /\ ~Alive(id)'
      <4>1. ~Alive(id)'
          BY <2>3, <3>1 DEF Alive
      <4>2. CASE transport = id
          BY <2>1, <2>3, <3>1, <4>2 DEF Up, Alive
      <4>3. CASE transport # id
        <5>1. transport # 0 => transport \in DOMAIN owner
            BY <1>1 DEF LinkOK, Ids
        <5>2. transport # 0 => owner'[transport] = owner[transport]
            BY <2>3, <4>3, <5>1
        <5> QED BY <2>1, <4>1, <5>2 DEF Up
      <4> QED BY <4>1, <4>2, <4>3
    <3>3. \A o \in DOMAIN owner : Cut(o) => Cut(o)'
        BY <2>3, <3>1, <3>2 DEF Cut
    <3>4. Cut(id)'
        BY <3>2 DEF Cut
    <3> QED BY <2>1, <2>3, <2>4, <3>1, <3>2, <3>3, <3>4 DEF LinkInv
  <2> QED BY <1>7, <2>6, <2>7, <2>8 DEF OwnerStep
<1>8. CASE ServerStep
    BY <1>8, LinkCalm DEF ServerStep, ServerChanges, ServerForgets, ListChanged, linkVars, serverVars
<1>9. CASE UNCHANGED vars
    BY <1>9, LinkCalm DEF vars, linkVars, serverVars
<1> QED BY <1>1, <1>2, <1>3, <1>4, <1>5, <1>6, <1>7, <1>8, <1>9, Steps DEF HostStep

-----------------------------------------------------------------------------
(* Types, with the transport that whoever connects has.                    *)

LEMMA LinkKept ==
    ASSUME LinkOK, UNCHANGED <<generation, session, transport, owner, stop, cut>>, status' \in Statuses
    PROVE  LinkOK' /\ Ids' = Ids
BY DEF LinkOK, Ids

LEMMA CatalogKept ==
    ASSUME CatalogOK, UNCHANGED catalogVars, Ids \subseteq Ids', version \in Nat, version' \in Nat, version <= version'
    PROVE  CatalogOK'
BY DEF CatalogOK, catalogVars

LEMMA ServerKept ==
    ASSUME ServerOK, UNCHANGED <<note, serverVars, overtaken>>, Ids \subseteq Ids'
    PROVE  ServerOK'
BY DEF ServerOK, serverVars

LEMMA HostTypes ==
    ASSUME McpAssumption, TypeOK, LinkInv, HostStep
    PROVE  TypeOK'
<1>1. LinkOK /\ CatalogOK /\ PlaceOK /\ ReqOK /\ PageOK /\ ServerOK /\ Host \in Actors /\ version \in Nat
    BY TypeParts DEF Actors, ServerOK
<1>2. UNCHANGED <<catalogVars, req, page, note, serverVars, overtaken>>
    BY DEF HostStep, HostStarts, HostCloses, HostClosed
<1>3. LinkOK' /\ PlaceOK' /\ Ids \subseteq Ids'
  <2>1. CASE HostStarts
      BY <1>1, <2>1, Opens DEF HostStarts
  <2>2. CASE HostCloses
    <3>1. \E where \in {"over", "closing"} : Goto(Host, where)
        BY <2>2 DEF HostCloses
    <3>2. PlaceOK'
        BY <1>1, <3>1, GoneTo DEF HostPcs, Reconnecting
    <3>3. LinkOK' /\ Ids' = Ids
        BY <1>1, <2>2 DEF HostCloses, LinkOK, Ids, Statuses
    <3> QED BY <3>2, <3>3
  <2>3. CASE HostClosed
    <3>1. PlaceOK'
        BY <1>1, <2>3, GoneTo DEF HostClosed, HostPcs
    <3>2. LinkOK' /\ Ids' = Ids
        BY <1>1, <2>3 DEF HostClosed, LinkOK, Ids, Statuses
    <3> QED BY <3>1, <3>2
  <2> QED BY <2>1, <2>2, <2>3 DEF HostStep
<1>4. version' = version
    BY <1>2 DEF serverVars
<1>5. CatalogOK' /\ ReqOK' /\ PageOK' /\ ServerOK'
    BY <1>1, <1>2, <1>3, <1>4, CatalogKept, ReqKept, PageKept, ServerKept
<1> QED BY <1>3, <1>5, TypePartsNext

LEMMA CallTypes ==
    ASSUME McpAssumption, TypeOK, LinkInv, NEW c \in Callers, CallStep(c)
    PROVE  TypeOK'
<1>1. /\ LinkOK /\ CatalogOK /\ PlaceOK /\ ReqOK /\ PageOK /\ ServerOK
      /\ c \in Actors /\ c # Host /\ version \in Nat /\ session \in Ids /\ status \in Statuses /\ 0 \in Ids
    BY TypeParts DEF Actors, ServerOK, McpAssumption, LinkOK, Ids
<1>2. /\ UNCHANGED <<catalogVars, note, serverVars, overtaken>> /\ version' = version
    BY DEF CallStep, Begin, Answered, SessionNotFound, Reinitialize, Closed, CancelCall, serverVars
<1>3. page' = page \/ page' = [page EXCEPT ![c] = NoPage]
    BY DEF CallStep, Begin, Answered, SessionNotFound, Reinitialize, Closed, CancelCall
<1>4. LinkOK' /\ PlaceOK' /\ ReqOK' /\ Ids \subseteq Ids'
  <2>1. ASSUME NEW o \in {"tool", "read"}, Begin(c, o) PROVE LinkOK' /\ PlaceOK' /\ ReqOK' /\ Ids \subseteq Ids'
    <3> DEFINE r == [Idle EXCEPT !.op = o, !.observed = generation, !.calls = req[c].calls + 1]
    <3>1. /\ \/ Goto(c, "callRefresh") /\ req' = [req EXCEPT ![c] = r]
             \/ Send(c, r, status)
          /\ UNCHANGED linkVars
        BY <2>1 DEF Begin
    <3>2. req[c].calls + 1 \in Nat /\ generation \in Nat /\ 0 \in Ids
        BY <1>1 DEF ReqOK, ReqType, LinkOK, Ids
    <3>3. Idle \in ReqType(Ids)
        BY <3>2 DEF Idle, ReqType, Outcomes
    <3>4. r \in ReqType(Ids)
      <4>1. \A n, k \in Nat : [Idle EXCEPT !.op = o, !.observed = n, !.calls = k] \in ReqType(Ids)
          BY <3>3 DEF ReqType
      <4> QED BY <3>2, <4>1
    <3>5. LinkOK' /\ Ids' = Ids
        BY <1>1, <3>1, LinkKept DEF linkVars
    <3> HIDE DEF r
    <3>6. CASE Goto(c, "callRefresh") /\ req' = [req EXCEPT ![c] = r]
        BY <1>1, <3>4, <3>5, <3>6, ReqSet, GoneTo DEF AgentPcs
    <3>7. CASE Send(c, r, status)
        BY <1>1, <3>4, <3>5, <3>7, Sent
    <3> QED BY <3>1, <3>5, <3>6, <3>7
  <2>2. CASE Answered(c) \/ SessionNotFound(c) \/ CancelCall(c)
    <3>1. /\ UNCHANGED linkVars
          /\ \/ \E o \in Outcomes : Return(c, o)
             \/ Goto(c, "reconnect") /\ req' = req
        BY <2>2 DEF Answered, SessionNotFound, CancelCall, Outcomes
    <3>2. LinkOK' /\ Ids' = Ids
        BY <1>1, <3>1, LinkKept DEF linkVars
    <3> QED BY <1>1, <3>1, <3>2, Returned, ReqKept, GoneTo DEF AgentPcs
  <2>3. CASE Reinitialize(c)
    <3>1. CASE Recovered(c, status) /\ UNCHANGED linkVars
      <4>1. LinkOK' /\ Ids' = Ids
          BY <1>1, <3>1, LinkKept DEF linkVars
      <4> QED BY <1>1, <3>1, <4>1, RecoveredTypes
    <3>2. CASE OpenTransport(c) /\ UNCHANGED <<generation, req, stop, cut>>
        BY <1>1, <3>2, Opens, ReqKept
    <3>3. CASE /\ UNCHANGED <<generation, cut, req>> /\ transport # 0
               /\ status' = "STOPPING" /\ stop' = stop \cup {transport} /\ Goto(c, "closing")
               /\ UNCHANGED <<session, transport, owner>>
      <4>1. LinkOK' /\ Ids' = Ids
          BY <1>1, <3>3 DEF LinkOK, Ids, Statuses
      <4> QED BY <1>1, <3>3, <4>1, ReqKept, GoneTo DEF AgentPcs, Reconnecting
    <3> QED BY <2>3, <3>1, <3>2, <3>3 DEF Reinitialize
  <2>4. CASE Closed(c)
    <3>1. CASE OpenTransport(c) /\ UNCHANGED req
        BY <1>1, <2>4, <3>1, Opens, ReqKept DEF Closed
    <3>2. CASE /\ status' = "STOPPED" /\ transport' = 0 /\ session' = 0 /\ UNCHANGED owner
               /\ \E o \in Outcomes : Return(c, o)
      <4>1. LinkOK' /\ Ids' = Ids
          BY <1>1, <2>4, <3>2 DEF Closed, LinkOK, Ids, Statuses
      <4> QED BY <1>1, <2>4, <3>2, <4>1, Returned
    <3> QED BY <2>4, <3>1, <3>2 DEF Closed, Outcomes
  <2> QED BY <2>1, <2>2, <2>3, <2>4 DEF CallStep
<1>5. PageOK'
    BY <1>1, <1>2, <1>3, <1>4, PageKept, PageSet, NoPageType
<1>6. CatalogOK' /\ ServerOK'
    BY <1>1, <1>2, <1>4, CatalogKept, ServerKept
<1> QED BY <1>4, <1>5, <1>6, TypePartsNext

LEMMA LoadedType ==
    ASSUME McpAssumption, LinkOK, PageOK, ServerOK, NEW a \in Actors
    PROVE  /\ Loaded(a) \in PageType(Ids, version)
           /\ Loaded(a).on = page[a].on /\ Loaded(a).count = page[a].count /\ Loaded(a).late = page[a].late
           /\ Loaded(a).seen = IF page[a].seen = 0 THEN version ELSE page[a].seen
           /\ Loaded(a).from = IF page[a].from = 0 THEN page[a].on ELSE page[a].from
<1>1. page[a] \in PageType(Ids, version) /\ version \in 0..version
    BY DEF PageOK, ServerOK
<1> QED BY <1>1 DEF Loaded, PageType

LEMMA ConnectTypes ==
    ASSUME McpAssumption, TypeOK, LinkInv, NEW a \in Actors, ConnectStep(a)
    PROVE  TypeOK'
<1>1. /\ LinkOK /\ CatalogOK /\ PlaceOK /\ ReqOK /\ PageOK /\ ServerOK
      /\ version \in Nat /\ session \in Ids /\ status \in Statuses /\ 0 \in Ids
    BY TypeParts DEF ServerOK, LinkOK, Ids
<1>2. UNCHANGED <<note, serverVars>> /\ version' = version /\ UNCHANGED <<generation, owner>>
    BY DEF ConnectStep, Opened, OpenFails, CancelConnect, Abandoned, StopTimesOut, CancelWait, Escape, FailStep,
           EnterStep, TurnStep, CommitStep, quietVars, serverVars, linkVars
<1>3. Ids' = Ids
    BY <1>2 DEF Ids
<1>4. page' = page \/ \E p \in PageType(Ids, version) : page' = [page EXCEPT ![a] = p]
  <2>1. CASE TurnStep(a)
    <3>1. page' = [page EXCEPT ![a] = [Loaded(a) EXCEPT !.count = @ + 1, !.on = session]]
        BY <2>1 DEF TurnStep
    <3>2. Loaded(a) \in PageType(Ids, version) /\ Loaded(a).count \in 0..MaxPages /\ Loaded(a).count # MaxPages
        BY <1>1, <2>1, LoadedType DEF TurnStep, PageType
    <3>3. Loaded(a).count + 1 \in 0..MaxPages
        BY <3>2 DEF McpAssumption
    <3>4. \A n \in 0..MaxPages : [Loaded(a) EXCEPT !.count = n, !.on = session] \in PageType(Ids, version)
        BY <1>1, <3>2 DEF PageType
    <3> QED BY <3>1, <3>3, <3>4
  <2>2. CASE ~TurnStep(a)
    <3>1. page' \in {page, [page EXCEPT ![a] = NoPage], [page EXCEPT ![a] = [NoPage EXCEPT !.count = 1, !.on = session]]}
        BY <2>2 DEF ConnectStep, Opened, OpenFails, CancelConnect, Abandoned, StopTimesOut, CancelWait, Escape,
                    FailStep, EnterStep, Enter, CommitStep, Commit
    <3> QED BY <1>1, <3>1, NoPageType
  <2> QED BY <2>1, <2>2
<1>5. PageOK'
    BY <1>1, <1>2, <1>3, <1>4, PageKept, PageSet
<1>6. CatalogOK' /\ ServerOK'
  <2>1. CASE CommitStep(a)
    <3>1. PICK truncated \in BOOLEAN : Commit(a, Loaded(a), truncated)
        BY <2>1 DEF CommitStep
    <3>2. Loaded(a) \in PageType(Ids, version)
        BY <1>1, LoadedType
    <3>3. Loaded(a).seen \in 0..version /\ Loaded(a).from \in Ids /\ Loaded(a).late \in BOOLEAN
        BY <3>2 DEF PageType
    <3>4. CatalogOK'
        BY <1>2, <1>3, <3>1, <3>3 DEF Commit, CatalogOK
    <3>5. ServerOK'
        BY <1>1, <1>2, <1>3, <3>1, <3>3 DEF Commit, ServerOK, serverVars
    <3> QED BY <3>4, <3>5
  <2>2. CASE ~CommitStep(a)
    <3>1. overtaken' = overtaken
        BY <2>2 DEF ConnectStep, Opened, OpenFails, CancelConnect, Abandoned, StopTimesOut, CancelWait, Escape,
                    FailStep, EnterStep, TurnStep
    <3>2. UNCHANGED catalogVars \/ (stale' = TRUE /\ catalog' = [catalog EXCEPT !.health = "DEGRADED"])
        BY <2>2 DEF ConnectStep, Opened, OpenFails, CancelConnect, Abandoned, StopTimesOut, CancelWait, Escape,
                    FailStep, EnterStep, Enter, TurnStep
    <3>3. CatalogOK'
        BY <1>1, <1>2, <1>3, <3>2 DEF CatalogOK, catalogVars
    <3> QED BY <1>1, <1>2, <1>3, <3>1, <3>3, ServerKept
  <2> QED BY <2>1, <2>2
<1>7. LinkOK' /\ PlaceOK' /\ ReqOK'
  <2> USE WhoReads
  <2>1. CASE Opened(a)
      BY <1>1, <1>3, <2>1, GoneTo, ReqKept, LinkKept DEF Opened, linkVars, AgentPcs, HostPcs, Reconnecting
  <2>2. CASE OpenFails(a) \/ CancelConnect(a)
    <3>1. /\ \E s \in {"FAILED", "STOPPING"} : Abandon(a, s)
          /\ transport # 0 /\ req' = req /\ UNCHANGED <<generation, session, transport, owner, cut>>
        BY <2>2 DEF OpenFails, CancelConnect, LinkInv, Reconnecting
    <3> QED BY <1>1, <1>3, <3>1, Abandons, ReqKept DEF Statuses
  <2>3. CASE Abandoned(a)
    <3>1. LinkOK'
        BY <1>1, <2>3 DEF Abandoned, LinkOK, Ids
    <3>2. CASE a = Host
      <4>1. req' = req /\ \E where \in {"over", "serving"} : Goto(a, where)
          BY <2>3, <3>2 DEF Abandoned
      <4>2. PlaceOK'
          BY <1>1, <3>2, <4>1, GoneTo DEF HostPcs
      <4> QED BY <1>1, <1>3, <3>1, <4>1, <4>2, ReqKept
    <3>3. CASE a # Host
      <4>1. \E o \in Outcomes : Return(a, o)
          BY <2>3, <3>3 DEF Abandoned, Outcomes
      <4> QED BY <1>1, <1>3, <3>1, <3>3, <4>1, Returned
    <3> QED BY <3>2, <3>3
  <2>4. CASE FailStep(a)
    <3>1. CASE a # Host /\ Return(a, "error") /\ UNCHANGED <<status, stop>>
      <4>1. LinkOK'
          BY <1>1, <2>4, <3>1, LinkKept DEF FailStep, quietVars
      <4> QED BY <1>1, <1>3, <3>1, <4>1, Returned DEF Outcomes
    <3>2. CASE pc[a] \in {"connRefresh", "connPaging"} /\ Abandon(a, "FAILED") /\ UNCHANGED req
      <4>1. transport # 0
          BY <3>2 DEF LinkInv, Up
      <4>2. LinkOK' /\ PlaceOK'
          BY <1>1, <2>4, <3>2, <4>1, Abandons DEF FailStep, quietVars, Statuses
      <4> QED BY <1>1, <1>3, <3>2, <4>2, ReqKept
    <3> QED BY <1>1, <2>4, <3>1, <3>2 DEF FailStep, Raise, Reading, Refreshing
  <2>5. CASE EnterStep(a)
    <3>1. LinkOK' /\ req' = req
        BY <1>1, <2>5, LinkKept DEF EnterStep, Enter, quietVars
    <3>2. (Goto(a, "callPaging") /\ a # Host) \/ Goto(a, "connPaging")
        BY <1>1, <2>5 DEF EnterStep, Enter
    <3>3. PlaceOK'
        BY <1>1, <3>2, GoneTo DEF AgentPcs, HostPcs, Reconnecting
    <3> QED BY <1>1, <1>3, <3>1, <3>3, ReqKept
  <2>6. CASE TurnStep(a)
    <3>1. PlaceOK'
        BY <1>1, <2>6 DEF TurnStep, PlaceOK
    <3> QED BY <1>1, <1>3, <2>6, <3>1, LinkKept, ReqKept DEF TurnStep, quietVars
  <2>7. CASE CommitStep(a)
    <3>1. LinkOK'
        BY <1>1, <2>7, LinkKept DEF CommitStep, Commit, quietVars, Statuses
    <3>2. CASE a # Host /\ Send(a, [req[a] EXCEPT !.observed = generation], status)
      <4>1. a \in Callers /\ req[a] \in ReqType(Ids) /\ generation \in Nat
          BY <1>1, <3>2 DEF ReqOK, LinkOK
      <4>2. [req[a] EXCEPT !.observed = generation] \in ReqType(Ids)
          BY <4>1 DEF ReqType
      <4> QED BY <1>1, <1>3, <3>1, <3>2, <4>1, <4>2, Sent
    <3>3. CASE a = Host /\ Goto(a, "serving") /\ UNCHANGED req
        BY <1>1, <1>3, <3>1, <3>3, GoneTo, ReqKept DEF HostPcs
    <3>4. CASE a # Host /\ Recovered(a, "READY")
        BY <1>1, <1>3, <3>1, <3>4, RecoveredTypes
    <3> QED BY <1>1, <2>7, <3>2, <3>3, <3>4 DEF CommitStep, Commit
  <2>8. CASE StopTimesOut(a) \/ CancelWait(a)
    <3>1. transport \in Ids \ {0}
        BY <1>1, <2>8 DEF StopTimesOut, CancelWait, LinkInv, LinkOK, Waiting, Reconnecting
    <3>2. LinkOK'
        BY <1>1, <1>3, <2>8, <3>1 DEF StopTimesOut, CancelWait, LinkOK
    <3>3. PlaceOK'
        BY <1>1, <2>8 DEF StopTimesOut, CancelWait, PlaceOK
    <3>4. ReqOK'
      <4>1. CASE StopTimesOut(a)
          BY <1>1, <1>3, <4>1, ReqKept DEF StopTimesOut
      <4>2. CASE CancelWait(a)
        <5>1. \A c \in Callers : [req[c] EXCEPT !.outcome = "cancelled"] \in ReqType(Ids) /\ req[c] \in ReqType(Ids)
            BY <1>1 DEF ReqOK, ReqType, Outcomes
        <5> QED BY <1>3, <4>2, <5>1 DEF CancelWait, ReqOK
      <4> QED BY <2>8, <4>1, <4>2
    <3> QED BY <3>2, <3>3, <3>4
  <2>9. CASE Escape(a)
    <3>1. LinkOK'
        BY <1>1, <2>9 DEF Escape, LinkOK, Ids, Statuses
    <3>2. CASE a = Host
      <4>1. req' = req /\ Goto(a, "over")
          BY <2>9, <3>2 DEF Escape
      <4>2. PlaceOK'
          BY <1>1, <3>2, <4>1, GoneTo DEF HostPcs
      <4> QED BY <1>1, <1>3, <3>1, <4>1, <4>2, ReqKept
    <3>3. CASE a # Host
      <4>1. Return(a, "cancelled")
          BY <2>9, <3>3 DEF Escape
      <4> QED BY <1>1, <1>3, <3>1, <3>3, <4>1, Returned DEF Outcomes
    <3> QED BY <3>2, <3>3
  <2> QED BY <2>1, <2>2, <2>3, <2>4, <2>5, <2>6, <2>7, <2>8, <2>9 DEF ConnectStep
<1> QED BY <1>5, <1>6, <1>7, TypePartsNext

LEMMA TypeStep == McpAssumption /\ TypeOK /\ LinkInv /\ [Next]_vars => TypeOK'
<1> SUFFICES ASSUME McpAssumption, TypeOK, LinkInv, [Next]_vars PROVE TypeOK'
    OBVIOUS
<1>1. LinkOK /\ CatalogOK /\ PlaceOK /\ ReqOK /\ PageOK /\ ServerOK /\ version \in Nat
    BY TypeParts DEF ServerOK
<1>2. ASSUME NEW id \in DOMAIN owner, OwnerStep(id) PROVE TypeOK'
  <2>1. PICK s \in OwnerStates : owner' = [owner EXCEPT ![id] = s]
      BY <1>1, <1>2 DEF OwnerStep, OwnerEnters, OwnerInitialised, OwnerEnds, OwnerStates
  <2>2. owner' \in Seq(OwnerStates) /\ Len(owner') = Len(owner) /\ id \in Ids \ {0}
      BY <1>1, <2>1 DEF LinkOK, Ids
  <2>3. Ids' = Ids
      BY <2>2 DEF Ids
  <2>4. LinkOK'
    <3>1. session' \in {session, id, 0} /\ generation' \in {generation, generation + 1} /\ UNCHANGED <<status, transport, stop>> /\ cut' \subseteq cut
        BY <1>2 DEF OwnerStep, OwnerEnters, OwnerInitialised, OwnerEnds
    <3>2. 0 \in Ids
        BY <1>1 DEF LinkOK, Ids
    <3> QED BY <1>1, <2>2, <2>3, <3>1, <3>2 DEF LinkOK
  <2>5. UNCHANGED <<catalogVars, pc, req, page, version, expiries, overtaken>>
      BY <1>2 DEF OwnerStep, OwnerEnters, OwnerInitialised, OwnerEnds, serverVars
  <2>6. ServerOK'
      BY <1>1, <1>2, <2>2, <2>3, <2>5 DEF OwnerStep, OwnerEnters, OwnerInitialised, OwnerEnds, ServerOK, serverVars
  <2>7. PlaceOK'
      BY <1>1, <2>5 DEF PlaceOK
  <2> QED BY <1>1, <2>3, <2>4, <2>5, <2>6, <2>7, ReqKept, PageKept, CatalogKept, TypePartsNext
<1>3. CASE ServerStep
  <2>1. UNCHANGED <<linkVars, catalog, pc, req, overtaken>> /\ Ids' = Ids
      BY <1>3 DEF ServerStep, ServerChanges, ServerForgets, ListChanged, Ids, linkVars, catalogVars
  <2>2. LinkOK' /\ PlaceOK' /\ ReqOK'
      BY <1>1, <2>1, LinkKept, ReqKept DEF linkVars, PlaceOK, LinkOK
  <2>3. version' \in Nat /\ version <= version'
      BY <1>1, <1>3 DEF ServerStep, ServerChanges, ServerForgets, ListChanged, serverVars
  <2>4. ServerOK'
    <3>1. CASE ServerChanges
        BY <1>1, <2>1, <3>1 DEF ServerChanges, ServerOK, McpAssumption
    <3>2. CASE ServerForgets
        BY <1>1, <2>1, <3>2 DEF ServerForgets, ServerOK, McpAssumption
    <3>3. CASE ListChanged
        BY <1>1, <2>1, <3>3 DEF ListChanged, ServerOK, serverVars
    <3> QED BY <1>3, <3>1, <3>2, <3>3 DEF ServerStep
  <2>5. CatalogOK'
    <3>1. stale' \in BOOLEAN
        BY <1>1, <1>3 DEF ServerStep, ServerChanges, ServerForgets, ListChanged, catalogVars, CatalogOK
    <3>2. 0..version \subseteq 0..version'
        BY <1>1, <2>3
    <3> QED BY <1>1, <2>1, <3>1, <3>2 DEF CatalogOK
  <2>6. PageOK'
    <3>1. CASE ServerChanges \/ ServerForgets
        BY <1>1, <2>1, <2>3, <3>1, PageKept DEF ServerChanges, ServerForgets
    <3>2. CASE ListChanged
      <4>1. \A a \in Actors : [page[a] EXCEPT !.late = pc[a] \in Refreshing] \in PageType(Ids, version)
        <5>1. \A a \in Actors, b \in BOOLEAN : [page[a] EXCEPT !.late = b] \in PageType(Ids, version)
            BY <1>1 DEF PageOK, PageType
        <5>2. \A a : (pc[a] \in Refreshing) \in BOOLEAN
            OBVIOUS
        <5> QED BY <5>1, <5>2
      <4> QED BY <2>1, <3>2, <4>1 DEF ListChanged, PageOK, serverVars
    <3> QED BY <1>3, <3>1, <3>2 DEF ServerStep
  <2> QED BY <2>2, <2>4, <2>5, <2>6, TypePartsNext
<1>4. CASE UNCHANGED vars
  <2>1. UNCHANGED <<linkVars, catalogVars, pc, req, page, note, serverVars, overtaken>>
      BY <1>4 DEF vars
  <2> QED BY <2>1 DEF TypeOK, linkVars, catalogVars, serverVars, Ids
<1> QED BY <1>1, <1>2, <1>3, <1>4, Steps, HostTypes, CallTypes, ConnectTypes

-----------------------------------------------------------------------------
(* The catalogue.                                                          *)

\* A listing that will make a connection ready, or belongs to one that is,
\* reads from its session alone.
ReadsHere(a) == page[a].on = transport /\ page[a].from \in {0, transport}
CatInv ==
    /\ status = "READY" => catalog.from = transport
    /\ \A a \in Actors :
          pc[a] = "connPaging" \/ (pc[a] = "callPaging" /\ status = "READY") => ReadsHere(a)

SamePage(a) == page'[a].on = page[a].on /\ page'[a].from = page[a].from

LEMMA CatCalm ==
    ASSUME CatInv, transport' = transport, catalog'.from = catalog.from,
           status' = status \/ status' # "READY",
           \A a \in Actors : pc'[a] \in Refreshing =>
               \/ pc'[a] = pc[a] /\ SamePage(a)
               \/ page'[a].on = transport /\ page'[a].from \in {0, transport}
    PROVE  CatInv'
BY DEF CatInv, ReadsHere, SamePage, Refreshing

LEMMA CatLeaves ==
    ASSUME status' # "READY", \A a \in Actors : pc'[a] # "connPaging"
    PROVE  CatInv'
BY DEF CatInv

\* Nothing but one actor moves, and leaves its page behind.
LEMMA CatMoves ==
    ASSUME PlaceOK, PageOK, CatInv, transport' = transport, catalog'.from = catalog.from,
           status' = status \/ status' # "READY",
           NEW a \in Actors, NEW where, Goto(a, where), where \notin Refreshing,
           page' = page \/ page' = [page EXCEPT ![a] = NoPage]
    PROVE  CatInv'
<1>1. pc'[a] = where /\ \A b \in Actors : b # a => pc'[b] = pc[b]
    BY Moved
<1>2. \A b \in Actors : b # a => page'[b] = page[b]
    BY DEF PageOK
<1> QED BY <1>1, <1>2, CatCalm DEF SamePage

LEMMA CatOpens ==
    ASSUME McpAssumption, PlaceOK, NEW a \in Actors, OpenTransport(a), LockInv'
    PROVE  CatInv'
<1>1. pc'[a] = "opening" /\ status' = "CONNECTING"
    BY Moved DEF OpenTransport
<1>2. \A b \in Actors : pc'[b] # "connPaging"
    BY <1>1 DEF LockInv, Reconnecting
<1> QED BY <1>1, <1>2, CatLeaves

LEMMA CatGone ==
    ASSUME LinkInv', transport' = 0, status' # "READY"
    PROVE  CatInv'
<1>1. \A b \in Actors : pc'[b] # "connPaging"
    BY DEF LinkInv, Reconnecting
<1> QED BY <1>1, CatLeaves

LEMMA CatStep ==
    /\ McpAssumption /\ TypeOK /\ LockInv /\ LinkInv /\ CatInv
    /\ LockInv' /\ LinkInv' /\ [Next]_vars
    => CatInv'
<1> SUFFICES ASSUME McpAssumption, TypeOK, LockInv, LinkInv, CatInv, LockInv', LinkInv', [Next]_vars
             PROVE  CatInv'
    OBVIOUS
<1>1. /\ LinkOK /\ PlaceOK /\ PageOK /\ CatalogOK /\ ServerOK /\ Host \in Actors /\ Callers \subseteq Actors
      /\ \A c \in Callers : c # Host
    BY TypeParts DEF Actors, McpAssumption
<1>2. CASE HostStep
  <2>1. CASE HostStarts
      BY <1>1, <2>1, CatOpens DEF HostStarts
  <2>2. CASE HostCloses
    <3>1. /\ UNCHANGED <<transport, catalog, page>> /\ (status' = status \/ status' # "READY")
          /\ \E where \in {"over", "closing"} : Goto(Host, where)
        BY <2>2 DEF HostCloses, catalogVars
    <3> QED BY <1>1, <3>1, CatMoves DEF Refreshing
  <2>3. CASE HostClosed
      BY <2>3, CatGone DEF HostClosed
  <2> QED BY <1>2, <2>1, <2>2, <2>3 DEF HostStep
<1>3. ASSUME NEW c \in Callers, CallStep(c) PROVE CatInv'
  <2>1. CASE (\E o \in {"tool", "read"} : Begin(c, o)) \/ Answered(c) \/ SessionNotFound(c) \/ CancelCall(c)
    <3>1. /\ UNCHANGED <<transport, catalog, status>> /\ page' \in {page, [page EXCEPT ![c] = NoPage]}
          /\ \E where \in {"idle", "calling", "callRefresh", "reconnect"} : Goto(c, where)
        BY <2>1 DEF Begin, Send, Answered, SessionNotFound, CancelCall, Return, linkVars, catalogVars
    <3> QED BY <1>1, <3>1, CatMoves DEF Refreshing
  <2>2. CASE Reinitialize(c)
    <3>1. /\ UNCHANGED <<catalog, page>>
          /\ \/ UNCHANGED linkVars /\ \E where \in {"idle", "calling"} : Goto(c, where)
             \/ OpenTransport(c)
             \/ status' = "STOPPING" /\ Goto(c, "closing") /\ transport' = transport
        BY <2>2 DEF Reinitialize, Recovered, Return, Send, catalogVars
    <3> QED BY <1>1, <3>1, CatMoves, CatOpens DEF Refreshing, linkVars
  <2>3. CASE Closed(c)
    <3>1. (transport' = 0 /\ status' = "STOPPED") \/ OpenTransport(c)
        BY <2>3 DEF Closed
    <3> QED BY <1>1, <3>1, CatOpens, CatGone
  <2> QED BY <1>3, <2>1, <2>2, <2>3 DEF CallStep
<1>4. ASSUME NEW a \in Actors, ConnectStep(a) PROVE CatInv'
  <2>1. CASE Opened(a) \/ OpenFails(a) \/ CancelConnect(a)
    <3>1. /\ UNCHANGED <<transport, catalog>> /\ page' \in {page, [page EXCEPT ![a] = NoPage]}
          /\ status' = status \/ status' # "READY"
          /\ \E where \in {"connRefresh", "abandoning"} : Goto(a, where)
        BY <2>1 DEF Opened, OpenFails, CancelConnect, Abandon, linkVars, catalogVars
    <3> QED BY <1>1, <3>1, CatMoves DEF Refreshing
  <2>2. CASE Abandoned(a)
      BY <2>2, CatGone DEF Abandoned, LinkInv, Reconnecting
  <2>3. CASE FailStep(a)
    <3>1. /\ transport' = transport /\ page' \in {page, [page EXCEPT ![a] = NoPage]}
          /\ status' = status \/ status' # "READY"
          /\ \E where \in {"idle", "abandoning"} : Goto(a, where)
        BY <2>3 DEF FailStep, Raise, Return, Abandon, quietVars
    <3>2. catalog'.from = catalog.from
        BY <1>1, <2>3 DEF FailStep, catalogVars, CatalogOK
    <3> QED BY <1>1, <3>1, <3>2, CatMoves DEF Refreshing
  <2>4. CASE EnterStep(a)
    <3>1. /\ UNCHANGED <<transport, catalog, status>> /\ session = transport
          /\ page' = [page EXCEPT ![a] = [NoPage EXCEPT !.count = 1, !.on = session]]
          /\ \E where : Goto(a, where)
        BY <2>4 DEF EnterStep, Enter, quietVars, catalogVars, Accepted, LinkInv
    <3>2. page'[a].on = transport /\ page'[a].from = 0
        BY <1>1, <3>1 DEF PageOK, NoPage
    <3>3. \A b \in Actors : b # a => page'[b] = page[b] /\ pc'[b] = pc[b]
        BY <1>1, <3>1, Moved DEF PageOK
    <3> QED BY <3>1, <3>2, <3>3, CatCalm DEF SamePage
  <2>5. CASE TurnStep(a)
    <3>1. /\ UNCHANGED <<transport, catalog, status, pc>> /\ session = transport
          /\ page' = [page EXCEPT ![a] = [Loaded(a) EXCEPT !.count = @ + 1, !.on = session]]
        BY <2>5 DEF TurnStep, quietVars, catalogVars, Accepted, LinkInv
    <3>2. Loaded(a) \in PageType(Ids, version)
        BY <1>1, LoadedType
    <3>3. page'[a].on = transport /\ page'[a].from = Loaded(a).from
        BY <1>1, <3>1, <3>2 DEF PageOK, PageType
    <3>4. \A b \in Actors : b # a => page'[b] = page[b]
        BY <1>1, <3>1 DEF PageOK
    <3>5. Loaded(a).from = IF page[a].from = 0 THEN page[a].on ELSE page[a].from
        BY <1>1, LoadedType
    <3>6. ReadsHere(a) => page'[a].from = transport
        BY <3>3, <3>5 DEF ReadsHere
    <3> QED BY <3>1, <3>3, <3>4, <3>6 DEF CatInv, ReadsHere
  <2>6. CASE CommitStep(a)
    <3>1. PICK truncated \in BOOLEAN : Commit(a, Loaded(a), truncated)
        BY <2>6 DEF CommitStep
    <3>2. /\ catalog'.from = Loaded(a).from
          /\ page' = [page EXCEPT ![a] = NoPage]
          /\ \/ pc[a] = "callPaging" /\ status' = status
             \/ pc[a] = "connPaging" /\ status' = "READY"
          /\ \E where \in {"idle", "calling", "serving"} : Goto(a, where)
          /\ transport' = transport
        BY <2>6, <3>1 DEF CommitStep, Commit, Send, Recovered, Return, Refreshing, quietVars
    <3>3. Loaded(a).from = IF page[a].from = 0 THEN page[a].on ELSE page[a].from
        BY <1>1, LoadedType
    <3>4. status' = "READY" => catalog'.from = transport
        BY <3>2, <3>3 DEF CatInv, ReadsHere
    <3>5. \A b \in Actors : pc'[b] \notin Refreshing
        BY <1>1, <2>6, <3>2, Moved DEF CommitStep, LockInv, Refreshing
    <3> QED BY <3>2, <3>4, <3>5 DEF CatInv, Refreshing
  <2>7. CASE StopTimesOut(a) \/ CancelWait(a)
      BY <2>7, CatCalm DEF StopTimesOut, CancelWait, SamePage, catalogVars
  <2>8. CASE Escape(a)
      BY <2>8, CatGone DEF Escape, LinkInv, Waiting, Reconnecting
  <2> QED BY <1>4, <2>1, <2>2, <2>3, <2>4, <2>5, <2>6, <2>7, <2>8 DEF ConnectStep
<1>5. ASSUME NEW id \in DOMAIN owner, OwnerStep(id) PROVE CatInv'
    BY <1>5, CatCalm DEF OwnerStep, OwnerEnters, OwnerInitialised, OwnerEnds, SamePage, catalogVars
<1>6. CASE ServerStep
  <2>1. UNCHANGED <<transport, catalog, status, pc>>
      BY <1>6 DEF ServerStep, ServerChanges, ServerForgets, ListChanged, linkVars, catalogVars
  <2>2. \A a \in Actors : SamePage(a)
      BY <1>1, <1>6 DEF ServerStep, ServerChanges, ServerForgets, ListChanged, SamePage, PageOK, PageType
  <2> QED BY <2>1, <2>2, CatCalm
<1>7. CASE UNCHANGED vars
    BY <1>7, CatCalm DEF vars, SamePage, linkVars, catalogVars
<1> QED BY <1>1, <1>2, <1>3, <1>4, <1>5, <1>6, <1>7, Steps

BaseInv == TypeOK /\ LockInv /\ LinkInv /\ CatInv

LEMMA BaseInit == McpAssumption /\ Init => BaseInv
<1> SUFFICES ASSUME McpAssumption, Init PROVE BaseInv
    OBVIOUS
<1>1. owner = <<>> /\ Len(owner) = 0 /\ DOMAIN owner = {}
    BY DEF Init
<1>2. Ids = {0}
    BY <1>1 DEF Ids
<1>3. LinkOK /\ CatalogOK /\ ServerOK
  <2>1. owner \in Seq(OwnerStates)
      BY <1>1
  <2>2. LinkOK
    <3>1. status = "NOT_CONNECTED" /\ generation = 0 /\ session = 0 /\ transport = 0 /\ stop = {} /\ cut = {}
        BY DEF Init
    <3> QED BY <1>2, <2>1, <3>1 DEF LinkOK, Statuses
  <2>3. CatalogOK
    <3>1. catalog = [version |-> 0, from |-> 0, health |-> "HEALTHY"] /\ stale = FALSE /\ version = 1
        BY DEF Init
    <3>2. 0 \in 0..version /\ 0 \in Ids
        BY <1>2, <3>1
    <3> QED BY <3>1, <3>2 DEF CatalogOK
  <2>4. ServerOK
    <3>1. version = 1 /\ note = FALSE /\ known = {} /\ expiries = 0 /\ overtaken = FALSE
        BY DEF Init
    <3>2. 1 \in 1..MaxVersion /\ 0 \in 0..MaxExpiries
        BY DEF McpAssumption
    <3> QED BY <3>1, <3>2 DEF ServerOK
  <2> QED BY <2>2, <2>3, <2>4
<1>4. PlaceOK
    BY DEF Init, PlaceOK, AgentPcs, HostPcs, Actors, McpAssumption
<1>5. Idle \in ReqType(Ids)
    BY <1>2 DEF Idle, ReqType, Outcomes
<1>6. NoPage \in PageType(Ids, version)
    BY <1>3, NoPageType
<1>7. TypeOK
    BY <1>3, <1>4, <1>5, <1>6, TypeParts DEF Init, ReqOK, PageOK
<1>8. \A a \in Actors : pc[a] \in {"created", "idle"}
    BY DEF Init
<1>9. pc[Host] = "created"
    BY DEF Init, Actors
<1>10. LockInv
    BY <1>8, <1>9 DEF LockInv, Init, Actors, McpAssumption, Refreshing, Reconnecting
<1>11. LinkInv
    BY <1>1, <1>8, <1>9 DEF LinkInv, Init, Reconnecting
<1>12. CatInv
    BY <1>8 DEF CatInv, Init
<1> QED BY <1>7, <1>10, <1>11, <1>12 DEF BaseInv

LEMMA BaseStep == McpAssumption /\ BaseInv /\ [Next]_vars => BaseInv'
BY TypeStep, LockStep, LinkStep, CatStep DEF BaseInv

-----------------------------------------------------------------------------
(* A call, by what a step does to it.                                      *)

\* It is counted as sent before it is answered, once more only if it is a read
\* whose session expired, and a call under way has no outcome yet.
SendOK(c) ==
    /\ req[c].sends <= IF req[c].op = "tool" THEN 1 ELSE 2
    /\ pc[c] \in {"callRefresh", "callPaging"} => req[c].sends = 0 /\ req[c].op = "tool"
    /\ pc[c] \in {"reconnect"} \cup Reconnecting => req[c].sends = 1
    /\ pc[c] = "calling" => req[c].sends # 0
    /\ pc[c] \notin {"idle"} \cup Waiting => req[c].outcome = "none"
    /\ pc[c] \in Waiting => req[c].outcome \in {"none", "cancelled"}
SendInv == \A c \in Callers : SendOK(c)

Same(c) == pc'[c] = pc[c] /\ req'[c] = req[c]
SameBut(c) == \A d \in Callers : d # c => Same(d)
SameReq(c) ==
    /\ req'[c].op = req[c].op /\ req'[c].sends = req[c].sends
    /\ req'[c].observed = req[c].observed /\ req'[c].on = req[c].on

\* What a step does to the call of the agent that takes it.
Stops(c) == pc'[c] = "idle" /\ req'[c].sends = 0 /\ req'[c].observed = 0
Marked(c) ==
    /\ pc'[c] = "callRefresh" /\ req'[c].op = "tool" /\ req'[c].sends = 0
    /\ req'[c].observed = generation /\ req'[c].outcome = "none"
SentFirst(c) ==
    /\ session = transport /\ transport # 0 /\ owner[transport] = "open"
    /\ pc[c] \in {"idle", "callPaging"}
    /\ pc'[c] = "calling" /\ req'[c].sends = 1 /\ req'[c].on = session
    /\ req'[c].observed = generation /\ req'[c].outcome = "none"
SentAgain(c) ==
    /\ pc[c] \in {"reconnect", "connPaging"} /\ req[c].op # "tool"
    /\ pc'[c] = "calling" /\ req'[c].op = req[c].op /\ req'[c].sends = req[c].sends + 1
    /\ req'[c].observed = req[c].observed /\ req'[c].outcome = req[c].outcome
Expires(c) ==
    /\ pc[c] = "calling" /\ pc'[c] = "reconnect" /\ req'[c] = req[c]
    /\ req[c].sends # 2
Connects(c) ==
    /\ req'[c] = req[c]
    /\ \/ pc[c] = "reconnect" /\ pc'[c] \in {"closing", "opening"}
       \/ pc[c] = "closing" /\ pc'[c] = "opening" /\ req[c].outcome # "cancelled"
       \/ pc[c] \in Reconnecting \ Waiting /\ pc'[c] \in Reconnecting \ {"closing"}
       \/ pc[c] = "callRefresh" /\ pc'[c] = "callPaging"
Interrupted(c) == pc[c] \in Waiting /\ pc'[c] = pc[c] /\ SameReq(c) /\ req'[c].outcome = "cancelled"
CallMove(c) ==
    \/ Stops(c) \/ Marked(c) \/ SentFirst(c) \/ SentAgain(c)
    \/ Expires(c) \/ Connects(c) \/ Interrupted(c) \/ Same(c)

LEMMA ReqFields ==
    ASSUME ReqOK, NEW c \in Callers
    PROVE  /\ req[c] \in ReqType(Ids) /\ req[c].sends \in Nat /\ req[c].observed \in Nat
           /\ req[c].on \in Ids
BY DEF ReqOK, ReqType

LEMMA WhenReturned ==
    ASSUME PlaceOK, ReqOK, NEW c \in Callers, NEW o, Return(c, o)
    PROVE  Stops(c) /\ SameBut(c) /\ req'[c].outcome = o
<1>1. pc'[c] = "idle" /\ req'[c] = [Idle EXCEPT !.outcome = o, !.calls = req[c].calls] /\ SameBut(c)
    BY DEF PlaceOK, ReqOK, Return, Goto, SameBut, Same, Actors
<1> QED BY <1>1 DEF Stops, Idle

LEMMA WhenGone ==
    ASSUME PlaceOK, NEW c \in Callers, NEW where, Goto(c, where), req' = req
    PROVE  pc'[c] = where /\ req'[c] = req[c] /\ SameReq(c) /\ SameBut(c)
BY DEF PlaceOK, Goto, SameBut, Same, SameReq, Actors

LEMMA WhenSent ==
    ASSUME PlaceOK, ReqOK, NEW c \in Callers, NEW r \in ReqType(Ids), NEW s, Send(c, r, s)
    PROVE  /\ SameBut(c)
           /\ \/ /\ Accepted(s) /\ pc'[c] = "calling"
                 /\ req'[c].op = r.op /\ req'[c].observed = r.observed
                 /\ req'[c].on = session /\ req'[c].sends = r.sends + 1 /\ req'[c].outcome = r.outcome
              \/ /\ ~Accepted(s) /\ Stops(c) /\ req'[c].outcome = "error"
<1>1. CASE Accepted(s)
  <2>1. pc' = [pc EXCEPT ![c] = "calling"] /\ req' = [req EXCEPT ![c] = [r EXCEPT !.on = session, !.sends = @ + 1]]
      BY <1>1 DEF Send, Goto
  <2>2. pc'[c] = "calling" /\ req'[c] = [r EXCEPT !.on = session, !.sends = @ + 1] /\ SameBut(c)
      BY <2>1 DEF PlaceOK, ReqOK, SameBut, Same, Actors
  <2> QED BY <1>1, <2>2 DEF ReqType
<1>2. CASE ~Accepted(s)
  <2>1. pc' = [pc EXCEPT ![c] = "idle"] /\ req' = [req EXCEPT ![c] = [Idle EXCEPT !.outcome = "error", !.calls = r.calls]]
      BY <1>2 DEF Send, Goto
  <2>2. pc'[c] = "idle" /\ req'[c] = [Idle EXCEPT !.outcome = "error", !.calls = r.calls] /\ SameBut(c)
      BY <2>1 DEF PlaceOK, ReqOK, SameBut, Same, Actors
  <2> QED BY <1>2, <2>2 DEF Stops, Idle
<1> QED BY <1>1, <1>2

LEMMA WhenRecovered ==
    ASSUME PlaceOK, ReqOK, NEW c \in Callers, NEW s, Recovered(c, s), pc[c] \in {"reconnect", "connPaging"}
    PROVE  /\ SameBut(c) /\ (Stops(c) \/ SentAgain(c))
           /\ req'[c].outcome = "unknown" => req[c].outcome = "unknown" \/ req[c].op = "tool"
<1>1. CASE req[c].op = "tool"
    BY <1>1, WhenReturned DEF Recovered
<1>2. CASE req[c].op # "tool"
  <2>1. Send(c, req[c], s) /\ req[c] \in ReqType(Ids)
      BY <1>2, ReqFields DEF Recovered
  <2> QED BY <1>2, <2>1, WhenSent DEF SentAgain
<1> QED BY <1>1, <1>2

\* A usable connection is open, and so is one a page was just read on.
LEMMA UsableUp ==
    ASSUME LinkInv, Usable
    PROVE  session = transport /\ transport # 0 /\ owner[transport] = "open"
BY DEF Usable, LinkInv, Up

LEMMA ReadUp ==
    ASSUME LinkOK, LinkInv, NEW a \in Actors, CommitStep(a) \/ TurnStep(a)
    PROVE  page[a].on = transport /\ transport # 0 /\ owner[transport] = "open"
<1>1. page[a].on \in known /\ page[a].on \notin cut
    BY DEF CommitStep, TurnStep, Answers
<1>2. page[a].on \in DOMAIN owner /\ owner[page[a].on] = "open"
    BY <1>1 DEF LinkInv
<1>3. page[a].on = transport
    BY <1>1, <1>2 DEF LinkInv, Alive, Cut
<1> QED BY <1>2, <1>3 DEF LinkOK

LEMMA BeginType ==
    ASSUME ReqOK, LinkOK, NEW c \in Callers, NEW o \in {"tool", "read"}
    PROVE  [Idle EXCEPT !.op = o, !.observed = generation, !.calls = req[c].calls + 1] \in ReqType(Ids)
<1>1. req[c].calls + 1 \in Nat /\ generation \in Nat /\ 0 \in Ids
    BY DEF ReqOK, ReqType, LinkOK, Ids
<1>2. Idle \in ReqType(Ids)
    BY <1>1 DEF Idle, ReqType, Outcomes
<1>3. \A n, k \in Nat : [Idle EXCEPT !.op = o, !.observed = n, !.calls = k] \in ReqType(Ids)
    BY <1>2 DEF ReqType
<1> QED BY <1>1, <1>3

LEMMA BeginKnown ==
    ASSUME PlaceOK, ReqOK, LinkOK, NEW c \in Callers, NEW o \in {"tool", "read"}, Begin(c, o)
    PROVE  req'[c].outcome # "unknown"
<1> DEFINE r == [Idle EXCEPT !.op = o, !.observed = generation, !.calls = req[c].calls + 1]
<1>1. req' = [req EXCEPT ![c] = r] \/ Send(c, r, status)
    BY DEF Begin
<1>2. r \in ReqType(Ids) /\ r.outcome = "none"
    BY BeginType DEF Idle
<1> HIDE DEF r
<1> QED BY <1>1, <1>2, WhenSent DEF ReqOK

LEMMA CallMoves ==
    ASSUME McpAssumption, TypeOK, LinkInv, SendInv, NEW c \in Callers, CallStep(c)
    PROVE  CallMove(c) /\ SameBut(c)
<1>1. PlaceOK /\ ReqOK /\ LinkOK /\ c \in Actors
    BY TypeParts DEF Actors
<1>2. ASSUME NEW o \in {"tool", "read"}, Begin(c, o) PROVE CallMove(c) /\ SameBut(c)
  <2> DEFINE r == [Idle EXCEPT !.op = o, !.observed = generation, !.calls = req[c].calls + 1]
  <2>1. \/ o = "tool" /\ Goto(c, "callRefresh") /\ req' = [req EXCEPT ![c] = r]
        \/ Send(c, r, status)
      BY <1>2 DEF Begin
  <2>2. r \in ReqType(Ids)
      BY <1>1, BeginType
  <2>3. r.op = o /\ r.observed = generation /\ r.sends = 0 /\ r.outcome = "none"
      BY DEF Idle
  <2> HIDE DEF r
  <2>4. CASE o = "tool" /\ Goto(c, "callRefresh") /\ req' = [req EXCEPT ![c] = r]
    <3>1. pc'[c] = "callRefresh" /\ req'[c] = r /\ SameBut(c)
        BY <1>1, <2>4 DEF PlaceOK, ReqOK, Goto, SameBut, Same, Actors
    <3> QED BY <2>3, <2>4, <3>1 DEF CallMove, Marked
  <2>5. CASE Send(c, r, status)
    <3>1. session = transport /\ transport # 0 /\ owner[transport] = "open"
        BY <1>2, UsableUp DEF Begin
    <3>2. pc[c] = "idle"
        BY <1>2 DEF Begin
    <3> QED BY <1>1, <3>2, <2>2, <2>3, <2>5, <3>1, WhenSent DEF CallMove, SentFirst
  <2> QED BY <2>1, <2>4, <2>5
<1>3. CASE Answered(c) \/ CancelCall(c)
    BY <1>1, <1>3, WhenReturned DEF Answered, CancelCall, CallMove
<1>4. CASE SessionNotFound(c)
    BY <1>1, <1>4, WhenReturned, WhenGone DEF SessionNotFound, CallMove, Expires
<1>5. CASE Reinitialize(c)
  <2>1. pc[c] = "reconnect" /\ \/ Recovered(c, status)
                               \/ req' = req /\ \E where \in {"closing", "opening"} : Goto(c, where)
      BY <1>5 DEF Reinitialize, OpenTransport
  <2> QED BY <1>1, <2>1, WhenRecovered, WhenGone DEF CallMove, Connects
<1>6. CASE Closed(c)
  <2>1. \/ \E o : Return(c, o)
        \/ pc[c] = "closing" /\ req' = req /\ req[c].outcome # "cancelled" /\ Goto(c, "opening")
      BY <1>6 DEF Closed, OpenTransport
  <2> QED BY <1>1, <2>1, WhenReturned, WhenGone DEF CallMove, Connects
<1> QED BY <1>2, <1>3, <1>4, <1>5, <1>6 DEF CallStep

LEMMA ConnectMoves ==
    ASSUME McpAssumption, TypeOK, LinkInv, SendInv, NEW c \in Callers, ConnectStep(c)
    PROVE  CallMove(c) /\ SameBut(c)
<1>1. PlaceOK /\ ReqOK /\ LinkOK /\ c \in Actors /\ c # Host
    BY TypeParts DEF Actors, McpAssumption
<1>2. CASE Opened(c) \/ OpenFails(c) \/ CancelConnect(c)
  <2>1. /\ req' = req /\ pc[c] \in Reconnecting \ Waiting
        /\ \E where \in {"connRefresh", "abandoning"} : Goto(c, where)
      BY <1>2 DEF Opened, OpenFails, CancelConnect, Abandon, Reconnecting, Waiting
  <2> QED BY <1>1, <2>1, WhenGone DEF CallMove, Connects, Reconnecting
<1>3. CASE Abandoned(c) \/ Escape(c)
    BY <1>1, <1>3, WhenReturned DEF Abandoned, Escape, CallMove
<1>4. CASE FailStep(c)
  <2>1. \/ Return(c, "error")
        \/ req' = req /\ pc[c] \in {"connRefresh", "connPaging"} /\ Goto(c, "abandoning")
      BY <1>4 DEF FailStep, Raise, Abandon, Reading, Refreshing
  <2> QED BY <1>1, <2>1, WhenReturned, WhenGone DEF CallMove, Connects, Reconnecting, Waiting
<1>5. CASE EnterStep(c)
  <2>1. /\ req' = req
        /\ \/ pc[c] = "callRefresh" /\ Goto(c, "callPaging")
           \/ pc[c] = "connRefresh" /\ Goto(c, "connPaging")
      BY <1>5 DEF EnterStep, Enter
  <2> QED BY <1>1, <2>1, WhenGone DEF CallMove, Connects, Reconnecting, Waiting
<1>6. CASE TurnStep(c)
    BY <1>6 DEF TurnStep, CallMove, Same, SameBut
<1>7. CASE CommitStep(c)
  <2>1. \/ pc[c] = "callPaging" /\ Send(c, [req[c] EXCEPT !.observed = generation], status)
        \/ pc[c] = "connPaging" /\ Recovered(c, "READY")
      BY <1>1, <1>7 DEF CommitStep, Commit, Refreshing
  <2>2. CASE pc[c] = "callPaging" /\ Send(c, [req[c] EXCEPT !.observed = generation], status)
    <3> DEFINE r == [req[c] EXCEPT !.observed = generation]
    <3>1. /\ r \in ReqType(Ids) /\ r.op = req[c].op /\ r.observed = generation /\ r.sends = req[c].sends
          /\ r.outcome = req[c].outcome
        BY <1>1 DEF ReqOK, ReqType, LinkOK
    <3>2. req[c].sends = 0 /\ req[c].outcome = "none"
        BY <2>2 DEF SendInv, SendOK, Waiting
    <3> HIDE DEF r
    <3>3. Send(c, r, status)
        BY <2>2 DEF r
    <3>4. transport # 0 /\ owner[transport] = "open" /\ (Accepted(status) => session = transport)
        BY <1>1, <1>7, ReadUp DEF Accepted, LinkInv
    <3> QED BY <1>1, <2>2, <3>1, <3>2, <3>3, <3>4, WhenSent DEF CallMove, SentFirst
  <2>3. CASE pc[c] = "connPaging" /\ Recovered(c, "READY")
      BY <1>1, <2>3, WhenRecovered DEF CallMove
  <2> QED BY <2>1, <2>2, <2>3
<1>8. CASE StopTimesOut(c)
    BY <1>8 DEF StopTimesOut, CallMove, Same, SameBut
<1>9. CASE CancelWait(c)
  <2>1. /\ pc[c] \in Waiting /\ pc' = pc /\ SameBut(c)
        /\ req'[c] = [req[c] EXCEPT !.outcome = "cancelled"]
      BY <1>9 DEF CancelWait, SameBut, Same
  <2>2. req'[c].outcome = "cancelled" /\ SameReq(c)
      BY <1>1, <2>1 DEF SameReq, ReqOK, ReqType
  <2> QED BY <2>1, <2>2 DEF CallMove, Interrupted
<1> QED BY <1>2, <1>3, <1>4, <1>5, <1>6, <1>7, <1>8, <1>9 DEF ConnectStep

LEMMA HostMoves ==
    ASSUME McpAssumption, TypeOK, HostStep \/ ConnectStep(Host)
    PROVE  req' = req /\ \A c \in Callers : Same(c)
<1>1. PlaceOK /\ Host \in Actors /\ Callers \subseteq Actors /\ \A c \in Callers : c # Host
    BY TypeParts DEF Actors, McpAssumption
<1>2. pc[Host] \notin {"callRefresh", "callPaging"}
    BY <1>1 DEF PlaceOK, HostPcs, Reconnecting
<1>3. req' = req
  <2>1. CASE CancelWait(Host)
    <3>1. req' = [c \in Callers |-> req[c]]
        BY <1>1, <2>1 DEF CancelWait
    <3> QED BY <3>1, TypeParts DEF ReqOK
  <2> QED BY <1>1, <1>2, <2>1
          DEF HostStep, HostStarts, HostCloses, HostClosed, ConnectStep, Opened, OpenFails, CancelConnect,
              Abandoned, StopTimesOut, Escape, FailStep, Raise, Reading, Refreshing, EnterStep, Enter, TurnStep,
              CommitStep, Commit
<1>4. pc' = pc \/ \E where : Goto(Host, where)
  <2>1. CASE HostStep
      BY <2>1 DEF HostStep, HostStarts, HostCloses, HostClosed, OpenTransport
  <2>2. CASE Opened(Host) \/ OpenFails(Host) \/ CancelConnect(Host) \/ Abandoned(Host)
      BY <2>2 DEF Opened, OpenFails, CancelConnect, Abandoned, Abandon
  <2>3. CASE FailStep(Host) \/ EnterStep(Host) \/ TurnStep(Host)
      BY <1>2, <2>3 DEF FailStep, Raise, Abandon, EnterStep, Enter, TurnStep
  <2>4. CASE CommitStep(Host)
      BY <1>2, <2>4 DEF CommitStep, Commit, Refreshing
  <2>5. CASE StopTimesOut(Host) \/ CancelWait(Host) \/ Escape(Host)
      BY <2>5 DEF StopTimesOut, CancelWait, Escape
  <2> QED BY <2>1, <2>2, <2>3, <2>4, <2>5 DEF ConnectStep
<1>5. \A c \in Callers : pc'[c] = pc[c]
    BY <1>1, <1>4, Moved
<1> QED BY <1>3, <1>5 DEF Same

LEMMA OthersMove ==
    ASSUME NEW c \in Callers,
           (\E id \in DOMAIN owner : OwnerStep(id)) \/ ServerStep \/ UNCHANGED vars
    PROVE  Same(c)
BY DEF OwnerStep, OwnerEnters, OwnerInitialised, OwnerEnds, ServerStep, ServerChanges, ServerForgets, ListChanged,
       vars, Same, linkVars, catalogVars

LEMMA SendMoves ==
    ASSUME ReqOK, NEW c \in Callers, SendOK(c), CallMove(c)
    PROVE  SendOK(c)'
<1>1. req[c].sends \in Nat
    BY ReqFields
<1>2. CASE Stops(c) \/ Marked(c) \/ SentFirst(c) \/ Interrupted(c) \/ Same(c)
    BY <1>1, <1>2 DEF SendOK, Stops, Marked, SentFirst, Interrupted, Same, SameReq, Reconnecting, Waiting
<1>3. CASE SentAgain(c)
    BY <1>1, <1>3 DEF SendOK, SentAgain, Reconnecting, Waiting
<1>4. CASE Expires(c)
    BY <1>1, <1>4 DEF SendOK, Expires, Reconnecting, Waiting
<1>5. CASE Connects(c)
    BY <1>1, <1>5 DEF SendOK, Connects, Reconnecting, Waiting
<1> QED BY <1>2, <1>3, <1>4, <1>5 DEF CallMove

LEMMA SendStep == McpAssumption /\ TypeOK /\ LinkInv /\ SendInv /\ [Next]_vars => SendInv'
<1> SUFFICES ASSUME McpAssumption, TypeOK, LinkInv, SendInv, [Next]_vars, NEW c \in Callers PROVE SendOK(c)'
    BY DEF SendInv
<1>1. PageOK /\ ReqOK /\ SendOK(c)
    BY TypeParts DEF SendInv
<1>2. Same(c) => SendOK(c)'
    BY <1>1, SendMoves DEF CallMove
<1>3. CASE HostStep
    BY <1>2, <1>3, HostMoves
<1>4. ASSUME NEW d \in Callers, CallStep(d) \/ ConnectStep(d) PROVE SendOK(c)'
    BY <1>1, <1>2, <1>4, CallMoves, ConnectMoves, SendMoves DEF SameBut
<1>5. CASE ConnectStep(Host)
    BY <1>2, <1>5, HostMoves
<1>6. CASE (\E id \in DOMAIN owner : OwnerStep(id)) \/ ServerStep \/ UNCHANGED vars
    BY <1>2, <1>6, OthersMove
<1> QED BY <1>1, <1>3, <1>4, <1>5, <1>6, Steps DEF Actors

-----------------------------------------------------------------------------
(* One reconnect for the agents that meet an expired session.              *)

\* The generation a call has noted is that of its session, as far as the
\* session that was opened last goes: a call sent on the last one, and no
\* other, has noted the generation of now.
SharedOK(c) ==
    /\ req[c].observed <= generation
    /\ pc[c] \in {"calling", "reconnect"} /\ req[c].sends = 1 =>
          /\ req[c].on \in DOMAIN owner /\ owner[req[c].on] \in {"open", "ended"}
          /\ Up => (req[c].on = transport <=> req[c].observed = generation)
    /\ pc[c] \in Reconnecting \ {"closing"} => req[c].on # transport
SharedInv == \A c \in Callers : SharedOK(c)

\* What a step of actor a does to the link.
Stays(a) ==
    /\ UNCHANGED <<generation, session, transport, owner, known, note, version>>
    /\ pc'[a] = "opening" => pc[a] = "opening"
Renews(a) ==
    /\ OpenTransport(a) /\ UNCHANGED <<generation, known, req>>
    /\ \A b \in Actors : b # a => pc[b] \notin Reconnecting
Clears(a) ==
    /\ transport' = 0 /\ session' = 0 /\ UNCHANGED <<generation, owner, known>>
    /\ pc[a] \in Reconnecting /\ pc'[a] \notin Reconnecting

LEMMA LinkChange ==
    ASSUME McpAssumption, PlaceOK, LockInv, NEW a \in Actors,
           (a = Host /\ HostStep) \/ (a \in Callers /\ CallStep(a)) \/ ConnectStep(a)
    PROVE  Stays(a) \/ Renews(a) \/ Clears(a)
<1>a. Host \in Actors /\ Callers \subseteq Actors /\ \A c \in Callers : c # Host
    BY DEF Actors, McpAssumption
<1>b. \A where : Goto(a, where) => pc'[a] = where
    BY Moved
<1>1. CASE a = Host /\ HostStarts
  <2>1. \A b \in Actors : b # a => pc[b] \notin Reconnecting
      BY <1>1 DEF HostStarts, LockInv, Actors, Reconnecting
  <2> QED BY <1>1, <2>1 DEF HostStarts, Renews, serverVars
<1>2. CASE a = Host /\ HostCloses
    BY <1>2, <1>b DEF HostCloses, Stays, serverVars
<1>3. CASE a = Host /\ HostClosed
    BY <1>3, <1>b DEF HostClosed, Clears, serverVars, Reconnecting
<1>4. CASE a \in Callers /\ ((\E o \in {"tool", "read"} : Begin(a, o)) \/ Answered(a) \/ SessionNotFound(a) \/ CancelCall(a))
  <2>1. /\ UNCHANGED <<generation, session, transport, owner, known, note, version>>
        /\ \E where \in {"idle", "calling", "callRefresh", "reconnect"} : Goto(a, where)
      BY <1>4 DEF Begin, Send, Answered, SessionNotFound, CancelCall, Return, linkVars, serverVars
  <2> QED BY <2>1, <1>b DEF Stays
<1>5. CASE StopTimesOut(a) \/ CancelWait(a)
    BY <1>5 DEF StopTimesOut, CancelWait, Stays, serverVars
<1>6. CASE a \in Callers /\ Reinitialize(a)
  <2>1. /\ UNCHANGED <<known, note, version>>
        /\ \/ UNCHANGED linkVars /\ \E where \in {"idle", "calling"} : Goto(a, where)
           \/ OpenTransport(a) /\ UNCHANGED <<generation, req>>
           \/ Goto(a, "closing") /\ UNCHANGED <<generation, session, transport, owner>>
      BY <1>6 DEF Reinitialize, Recovered, Return, Send, serverVars
  <2>2. \A b \in Actors : b # a => pc[b] \notin Reconnecting
    <3>1. pc[a] # "idle"
        BY <1>6 DEF Reinitialize
    <3>2. pc[Host] = "serving"
        BY <1>6, <3>1 DEF LockInv
    <3> QED BY <1>6, <3>2 DEF Reinitialize, ReconnectFree, Actors, Reconnecting
  <2> QED BY <2>1, <2>2, <1>b DEF Stays, Renews, linkVars
<1>7. CASE a \in Callers /\ Closed(a)
  <2>1. /\ pc[a] = "closing" /\ UNCHANGED <<generation, known>>
        /\ \/ transport' = 0 /\ session' = 0 /\ UNCHANGED owner /\ Goto(a, "idle")
           \/ OpenTransport(a) /\ UNCHANGED req
      BY <1>7 DEF Closed, Return, serverVars
  <2>2. \A b \in Actors : b # a => pc[b] \notin Reconnecting
      BY <2>1 DEF LockInv, Reconnecting
  <2> QED BY <2>1, <2>2, <1>b DEF Renews, Clears, Reconnecting
<1>8. CASE Opened(a) \/ OpenFails(a) \/ CancelConnect(a)
    BY <1>8, <1>b DEF Opened, OpenFails, CancelConnect, Abandon, Stays, linkVars, serverVars
<1>9. CASE Abandoned(a) \/ Escape(a)
    BY <1>9, <1>b DEF Abandoned, Escape, Return, Clears, serverVars, Waiting, Reconnecting
<1>10. CASE FailStep(a)
    BY <1>10, <1>b DEF FailStep, Raise, Return, Abandon, Stays, quietVars, serverVars
<1>11. CASE EnterStep(a)
    BY <1>11, <1>b DEF EnterStep, Enter, Stays, quietVars, serverVars
<1>12. CASE TurnStep(a)
    BY <1>12 DEF TurnStep, Stays, quietVars, serverVars
<1>13. CASE CommitStep(a)
  <2>1. /\ UNCHANGED <<generation, session, transport, owner, known, note, version>>
        /\ \E where \in {"idle", "calling", "serving"} : Goto(a, where)
      BY <1>13 DEF CommitStep, Commit, Send, Recovered, Return, quietVars, serverVars
  <2> QED BY <2>1, <1>b DEF Stays
<1> QED BY <1>1, <1>2, <1>3, <1>4, <1>5, <1>6, <1>7, <1>8, <1>9, <1>10, <1>11, <1>12, <1>13
           DEF HostStep, CallStep, ConnectStep

\* A new transport is not the one any call is on.
LEMMA Renewal ==
    ASSUME LinkOK, NEW a \in Actors, OpenTransport(a)
    PROVE  /\ ~Up' /\ transport' \notin Ids
           /\ \A id \in DOMAIN owner : id \in DOMAIN owner' /\ owner'[id] = owner[id]
<1>1. /\ owner \in Seq(OwnerStates) /\ Len(owner) \in Nat /\ DOMAIN owner = 1..Len(owner)
      /\ owner' = Append(owner, "opening") /\ transport' = Len(owner) + 1
    BY DEF LinkOK, OpenTransport
<1>2. owner'[transport'] = "opening"
    BY <1>1
<1> QED BY <1>1, <1>2 DEF Up, Ids

\* A call another actor's step leaves alone.
LEMMA SharedSame ==
    ASSUME LinkOK, ReqOK, SharedInv, NEW a \in Actors, Stays(a) \/ Renews(a) \/ Clears(a),
           LockInv, NEW c \in Callers, c # a, Same(c)
    PROVE  SharedOK(c)'
<1>1. SharedOK(c) /\ c \in Actors
    BY DEF SharedInv, Actors
<1>2. CASE Stays(a)
    BY <1>1, <1>2 DEF SharedOK, Same, Stays, Up
<1>3. CASE Renews(a)
  <2>1. /\ ~Up' /\ UNCHANGED <<generation, known>> /\ pc[c] \notin Reconnecting
        /\ \A id \in DOMAIN owner : id \in DOMAIN owner' /\ owner'[id] = owner[id]
      BY <1>1, <1>3, Renewal DEF Renews
  <2> QED BY <1>1, <2>1 DEF SharedOK, Same
<1>4. CASE Clears(a)
  <2>1. ~Up' /\ pc[c] \notin Reconnecting /\ UNCHANGED <<generation, owner, known>>
      BY <1>1, <1>4 DEF Clears, LockInv, Up
  <2> QED BY <1>1, <2>1 DEF SharedOK, Same
<1> QED BY <1>2, <1>3, <1>4

\* The call of the agent that moves.
LEMMA SharedMoves ==
    ASSUME LinkOK, PlaceOK, ReqOK, SendInv, SharedInv, NEW c \in Callers, CallMove(c), Stays(c) \/ Renews(c) \/ Clears(c)
    PROVE  SharedOK(c)'
<1>1. SharedOK(c) /\ SendOK(c) /\ c \in Actors
    BY DEF SharedInv, SendInv, Actors
<1>2. /\ req[c].observed \in Nat /\ req[c].sends \in Nat /\ req[c].on \in Ids
      /\ generation \in Nat
    BY ReqFields DEF LinkOK
<1>3. UNCHANGED generation /\ known' = known
    BY DEF Stays, Renews, Clears
<1>4. req'[c].observed <= generation
    BY <1>1, <1>2 DEF SharedOK, CallMove, Stops, Marked, SentFirst, SentAgain, Expires, Connects,
           Interrupted, Same, SameReq
<1>5. CASE Renews(c)
  <2>1. OpenTransport(c) /\ Goto(c, "opening") /\ req' = req
      BY <1>5 DEF Renews, OpenTransport
  <2>2. pc'[c] = "opening"
      BY <1>1, <2>1, Moved
  <2>3. req'[c].on # transport'
      BY <1>1, <1>2, <2>1, Renewal
  <2> QED BY <1>3, <1>4, <2>2, <2>3 DEF SharedOK
<1>6. CASE Clears(c)
  <2>1. pc[c] \in Reconnecting /\ pc'[c] \notin Reconnecting /\ ~Up'
      BY <1>6 DEF Clears, Up
  <2>2. pc'[c] # "reconnect" /\ (pc'[c] = "calling" => req'[c].sends # 1)
      BY <1>1, <1>2, <2>1 DEF CallMove, Stops, Marked, SentFirst, SentAgain, Expires, Connects,
             Interrupted, Same, SendOK, Reconnecting
  <2> QED BY <1>3, <1>4, <2>1, <2>2 DEF SharedOK
<1>7. CASE Stays(c)
  <2>1. UNCHANGED <<generation, transport, owner>> /\ known' = known /\ (Up' <=> Up)
      BY <1>7 DEF Stays, Up
  <2>2. CASE Stops(c) \/ Marked(c)
      BY <1>3, <1>4, <2>2 DEF SharedOK, Stops, Marked, Reconnecting
  <2>8. CASE Interrupted(c)
      BY <1>1, <1>4, <2>1, <2>8 DEF SharedOK, Interrupted, SameReq, Waiting
  <2>3. CASE SentFirst(c)
    <3>1. transport \in DOMAIN owner
        BY <2>3 DEF SentFirst, LinkOK, Ids
    <3> QED BY <1>4, <2>1, <2>3, <3>1 DEF SharedOK, SentFirst, Reconnecting
  <2>4. CASE SentAgain(c)
      BY <1>1, <1>2, <1>3, <1>4, <2>4 DEF SharedOK, SendOK, SentAgain, Reconnecting, Waiting
  <2>5. CASE Expires(c)
    <3>1. req[c].sends = 1
        BY <1>1, <1>2, <2>5 DEF SendOK, Expires
    <3> QED BY <1>1, <2>1, <2>5, <3>1 DEF SharedOK, Expires, Reconnecting
  <2>6. CASE Connects(c)
      BY <1>1, <1>4, <1>7, <2>1, <2>6 DEF SharedOK, Connects, Stays, Reconnecting, Waiting
  <2>7. CASE Same(c)
      BY <1>1, <2>1, <2>7 DEF SharedOK, Same
  <2> QED BY <2>2, <2>3, <2>4, <2>5, <2>6, <2>7, <2>8 DEF CallMove
<1> QED BY <1>5, <1>6, <1>7

\* A handshake completes on a transport no call was sent on.
LEMMA SharedOwner ==
    ASSUME LinkOK, LinkInv, ReqOK, SendInv, SharedInv, NEW c \in Callers, Same(c), NEW id \in DOMAIN owner, OwnerStep(id)
    PROVE  SharedOK(c)'
<1>1. /\ SharedOK(c) /\ req[c].observed \in Nat /\ generation \in Nat /\ id # 0
      /\ owner \in Seq(OwnerStates) /\ transport' = transport
    BY ReqFields DEF SharedInv, LinkOK, OwnerStep, OwnerEnters, OwnerInitialised, OwnerEnds
<1>2. Alive(id) /\ (id \notin cut => id = transport)
    BY DEF OwnerStep, OwnerEnters, OwnerInitialised, OwnerEnds, Alive, LinkInv, Cut
<1>3. CASE OwnerEnters(id)
  <2>1. /\ owner' = [owner EXCEPT ![transport] = "handshake"] /\ owner[transport] = "opening"
        /\ generation' = generation /\ id = transport
      BY <1>2, <1>3 DEF OwnerEnters
  <2>2. ~Up'
      BY <1>1, <1>2, <2>1 DEF Up
  <2>3. /\ DOMAIN owner' = DOMAIN owner
        /\ \A o \in DOMAIN owner : owner[o] \in {"open", "ended"} => owner'[o] = owner[o]
      BY <1>1, <2>1
  <2> QED BY <1>1, <1>2, <2>1, <2>2, <2>3 DEF SharedOK, Same
<1>4. CASE OwnerInitialised(id)
  <2>1. /\ owner' = [owner EXCEPT ![transport] = "open"] /\ owner[transport] = "handshake"
        /\ generation' = generation + 1 /\ id = transport
      BY <1>2, <1>4 DEF OwnerInitialised
  <2>2. pc[c] \in {"calling", "reconnect"} /\ req[c].sends = 1 => req[c].on # transport
      BY <1>1, <2>1 DEF SharedOK
  <2>3. pc[c] = "reconnect" => req[c].sends = 1
      BY DEF SendInv, SendOK
  <2>4. DOMAIN owner' = DOMAIN owner /\ \A o \in DOMAIN owner : o # transport => owner'[o] = owner[o]
      BY <1>1, <2>1
  <2> QED BY <1>1, <1>2, <2>1, <2>2, <2>3, <2>4 DEF SharedOK, Same
<1>5. CASE OwnerEnds(id)
  <2>1. PICK s : s = IF owner[id] = "open" THEN "ended" ELSE "failed"
      OBVIOUS
  <2>2. /\ DOMAIN owner' = DOMAIN owner /\ \A o \in DOMAIN owner : owner'[o] = IF o = id THEN s ELSE owner[o]
        /\ generation' = generation /\ owner[id] # "ended"
      BY <1>1, <1>2, <1>5, <2>1 DEF OwnerEnds, Alive
  <2>3. Up' => Up
    <3>1. CASE transport \in DOMAIN owner
        BY <1>1, <2>1, <2>2, <3>1 DEF Up
    <3>2. CASE transport \notin DOMAIN owner
        BY <1>1, <3>2 DEF Up, LinkOK, Ids
    <3> QED BY <3>1, <3>2
  <2>4. \A o \in DOMAIN owner : owner[o] \in {"open", "ended"} => owner'[o] \in {"open", "ended"}
      BY <2>1, <2>2
  <2> QED BY <1>1, <2>2, <2>3, <2>4 DEF SharedOK, Same
<1> QED BY <1>3, <1>4, <1>5 DEF OwnerStep

LEMMA SharedStep == McpAssumption /\ BaseInv /\ SendInv /\ SharedInv /\ [Next]_vars => SharedInv'
<1> SUFFICES ASSUME McpAssumption, BaseInv, SendInv, SharedInv, [Next]_vars, NEW c \in Callers PROVE SharedOK(c)'
    BY DEF SharedInv
<1>1. /\ TypeOK /\ LockInv /\ LinkInv /\ PlaceOK /\ LinkOK /\ PageOK /\ ReqOK /\ Host \in Actors
      /\ Callers \subseteq Actors /\ \A d \in Callers : d # Host
    BY TypeParts DEF BaseInv, Actors, McpAssumption
<1>2. CASE HostStep \/ ConnectStep(Host)
    BY <1>1, <1>2, HostMoves, LinkChange, SharedSame
<1>3. ASSUME NEW d \in Callers, CallStep(d) \/ ConnectStep(d) PROVE SharedOK(c)'
  <2>1. CallMove(d) /\ SameBut(d) /\ (Stays(d) \/ Renews(d) \/ Clears(d))
      BY <1>1, <1>3, CallMoves, ConnectMoves, LinkChange
  <2>2. CASE d = c
      BY <1>1, <2>1, <2>2, SharedMoves
  <2>3. CASE d # c
      BY <1>1, <2>1, <2>3, SharedSame DEF SameBut
  <2> QED BY <2>2, <2>3
<1>4. ASSUME NEW id \in DOMAIN owner, OwnerStep(id) PROVE SharedOK(c)'
    BY <1>1, <1>4, OthersMove, SharedOwner
<1>5. CASE ServerStep \/ UNCHANGED vars
  <2>1. Same(c) /\ UNCHANGED <<generation, transport, owner>>
      BY <1>5, OthersMove DEF ServerStep, ServerChanges, ServerForgets, ListChanged, vars, linkVars, serverVars
  <2> QED BY <2>1 DEF SharedInv, SharedOK, Same, Up
<1> QED BY <1>1, <1>2, <1>3, <1>4, <1>5, Steps DEF Actors

LEMMA HealthyStep ==
    ASSUME McpAssumption, BaseInv, SendInv, SharedInv, [Next]_vars, NEW c \in Callers,
           pc[c] = "reconnect", pc'[c] \in Reconnecting
    PROVE  ~(Usable /\ session # req[c].on)
<1>1. /\ TypeOK /\ LinkInv /\ PlaceOK /\ ReqOK /\ PageOK /\ SharedOK(c) /\ req[c].sends = 1
      /\ c \in Actors /\ c # Host
    BY TypeParts DEF BaseInv, SharedInv, SendInv, SendOK, Actors, McpAssumption
<1>2. ~Same(c)
    BY DEF Same, Reconnecting
<1>3. CallStep(c) \/ ConnectStep(c)
    BY <1>1, <1>2, Steps, HostMoves, OthersMove, CallMoves, ConnectMoves DEF SameBut, Actors
<1>4. Reinitialize(c)
  <2>1. ~ConnectStep(c)
      BY DEF ConnectStep, Opened, OpenFails, CancelConnect, Abandoned, StopTimesOut, CancelWait, Escape, Waiting,
             FailStep, EnterStep, TurnStep, CommitStep, Reading, Refreshing
  <2>2. ~CancelCall(c)
      BY <1>1, WhenReturned DEF CancelCall, Stops, Reconnecting
  <2> QED BY <1>3, <2>1, <2>2 DEF CallStep, Begin, Answered, SessionNotFound, Closed
<1>5. ~Reuse(c)
  <2>1. ~Recovered(c, status)
      BY <1>1, WhenRecovered DEF Stops, SentAgain, Reconnecting
  <2> QED BY <1>4, <2>1 DEF Reinitialize
<1>6. ASSUME Usable, session # req[c].on PROVE FALSE
  <2>1. session = transport /\ Up
      BY <1>1, <1>6, UsableUp DEF Up
  <2>2. req[c].observed = generation
      BY <1>5, <1>6 DEF Reuse
  <2> QED BY <1>1, <1>6, <2>1, <2>2 DEF SharedOK
<1> QED BY <1>6

LEMMA UnknownStep ==
    ASSUME McpAssumption, BaseInv, SendInv, SharedInv, [Next]_vars, NEW c \in Callers,
           req[c].outcome # "unknown", req'[c].outcome = "unknown"
    PROVE  catalog'.from = transport' /\ transport' \notin {0, req[c].on}
<1>1. /\ TypeOK /\ LinkInv /\ CatInv /\ LinkOK /\ PlaceOK /\ ReqOK /\ PageOK /\ ServerOK /\ SharedOK(c) /\ SendOK(c)
      /\ c \in Actors /\ c # Host /\ version \in Nat /\ version # 0
    BY TypeParts DEF BaseInv, SharedInv, SendInv, Actors, McpAssumption, ServerOK
<1>2. ~Same(c)
    BY DEF Same
<1>3. CallStep(c) \/ ConnectStep(c)
    BY <1>1, <1>2, Steps, HostMoves, OthersMove, CallMoves, ConnectMoves DEF SameBut, Actors
<1>4. ASSUME NEW o, Return(c, o) PROVE o = "unknown"
    BY <1>1, <1>4, WhenReturned
<1>5. req' # req
    OBVIOUS
<1>6. CASE CallStep(c)
  <2>1. Reinitialize(c)
    <3>1. ~(\E o \in {"tool", "read"} : Begin(c, o))
        BY <1>6, CallMoves, BeginKnown, <1>1
    <3>2. ~Answered(c) /\ ~SessionNotFound(c) /\ ~CancelCall(c)
        BY <1>4, <1>5 DEF Answered, SessionNotFound, CancelCall
    <3>3. ~Closed(c)
        BY <1>4, <1>5 DEF Closed
    <3> QED BY <1>6, <3>1, <3>2, <3>3 DEF CallStep
  <2>2. Reuse(c) /\ UNCHANGED linkVars /\ UNCHANGED catalogVars /\ pc[c] = "reconnect"
      BY <1>5, <2>1 DEF Reinitialize
  <2>3. Usable /\ generation # req[c].observed
      BY <2>2 DEF Reuse
  <2>4. Up
      BY <1>1, <2>3, UsableUp DEF Up
  <2>5. req[c].on # transport
      BY <1>1, <2>2, <2>3, <2>4 DEF SharedOK, SendOK
  <2>6. catalog.from = transport
      BY <1>1, <2>3 DEF CatInv, LinkInv, Usable
  <2> QED BY <2>2, <2>4, <2>5, <2>6 DEF Up, linkVars, catalogVars
<1>7. CASE ConnectStep(c)
  <2>1. CommitStep(c)
    <3>1. ~Abandoned(c) /\ ~FailStep(c) /\ ~Escape(c)
        BY <1>1, <1>4, <1>5 DEF Abandoned, FailStep, Raise, Escape
    <3>2. ~CancelWait(c)
        BY <1>1 DEF CancelWait, ReqOK, ReqType
    <3> QED BY <1>5, <1>7, <3>1, <3>2
            DEF ConnectStep, Opened, OpenFails, CancelConnect, StopTimesOut, EnterStep, Enter, TurnStep
  <2>2. pc[c] = "connPaging"
    <3>1. ASSUME pc[c] = "callPaging" PROVE FALSE
      <4> DEFINE r == [req[c] EXCEPT !.observed = generation]
      <4>1. Send(c, r, status) /\ r \in ReqType(Ids) /\ r.outcome = req[c].outcome
          BY <1>1, <2>1, <3>1 DEF CommitStep, Commit, ReqOK, ReqType, LinkOK
      <4> HIDE DEF r
      <4> QED BY <1>1, <4>1, WhenSent
    <3> QED BY <2>1, <3>1 DEF CommitStep, Refreshing
  <2>3. transport # 0 /\ transport' = transport
      BY <1>1, <2>1, ReadUp DEF CommitStep, quietVars
  <2>4. catalog'.from = Loaded(c).from
      BY <2>1, <2>2 DEF CommitStep, Commit
  <2>5. Loaded(c).from = transport
      BY <1>1, <2>2, LoadedType DEF CatInv, ReadsHere
  <2>6. req[c].on # transport
      BY <1>1, <2>2 DEF SharedOK, Reconnecting
  <2> QED BY <2>3, <2>4, <2>5, <2>6
<1> QED BY <1>3, <1>6, <1>7

-----------------------------------------------------------------------------
(* What has changed on the server since a catalogue was read.              *)

\* Pages and the catalogue come from sessions that were initialised; one that
\* is older than what the session it came from has announced is known to be.
ReadOn(id) == id \in DOMAIN owner /\ owner[id] \in {"open", "ended"}
Missed(id, v) == id = session /\ session \in known /\ v < version /\ ~note
PageFresh(a) ==
    pc[a] \in Refreshing =>
        /\ page[a].on # 0
        /\ page[a].seen = 0 => page[a].from = 0
        /\ page[a].seen # 0 => ReadOn(page[a].from)
        /\ page[a].seen # 0 /\ Missed(page[a].from, page[a].seen) => page[a].late
CatFresh ==
    catalog.version # 0 =>
        /\ ReadOn(catalog.from)
        /\ Missed(catalog.from, catalog.version) => stale \/ overtaken
ChangeInv == CatFresh /\ \A a \in Actors : PageFresh(a)

\* A step after which no session has missed more than before.
NoNews ==
    /\ \A id : ReadOn(id) => ReadOn(id)'
    /\ \A id, v : ReadOn(id) /\ Missed(id, v)' => Missed(id, v)

LEMMA NoSession ==
    ASSUME LinkOK, LinkInv, session' = 0, known' \subseteq known, \A id : ReadOn(id) => ReadOn(id)'
    PROVE  NoNews
<1>1. 0 \notin known
    BY DEF LinkInv, LinkOK
<1> QED BY <1>1 DEF NoNews, Missed

LEMMA ActorNoNews ==
    ASSUME LinkOK, LinkInv, NEW a \in Actors, Stays(a) \/ Renews(a) \/ Clears(a)
    PROVE  NoNews
<1>1. CASE Stays(a)
    BY <1>1 DEF Stays, NoNews, ReadOn, Missed
<1>2. CASE Renews(a)
  <2>1. session' = 0 /\ known' = known /\ OpenTransport(a)
      BY <1>2 DEF Renews, OpenTransport
  <2>2. \A id : ReadOn(id) => ReadOn(id)'
      BY <2>1, Renewal DEF ReadOn
  <2> QED BY <2>1, <2>2, NoSession
<1>3. CASE Clears(a)
    BY <1>3, NoSession DEF Clears, ReadOn
<1> QED BY <1>1, <1>2, <1>3

LEMMA OwnerNoNews ==
    ASSUME LinkOK, LinkInv, NEW id \in DOMAIN owner, OwnerStep(id)
    PROVE  NoNews
<1>1. owner \in Seq(OwnerStates) /\ Alive(id)
    BY DEF LinkOK, OwnerStep, OwnerEnters, OwnerInitialised, OwnerEnds, Alive
<1>2. PICK s : owner' = [owner EXCEPT ![id] = s]
    BY DEF OwnerStep, OwnerEnters, OwnerInitialised, OwnerEnds
<1>3. DOMAIN owner' = DOMAIN owner /\ \A o \in DOMAIN owner : owner'[o] = IF o = id THEN s ELSE owner[o]
    BY <1>1, <1>2
<1>4. CASE OwnerEnters(id)
  <2>1. owner[id] = "opening" /\ session' = id /\ known' = known
      BY <1>4 DEF OwnerEnters, serverVars
  <2>2. id \notin known /\ ~ReadOn(id)
      BY <2>1 DEF LinkInv, ReadOn
  <2> QED BY <1>3, <2>1, <2>2 DEF NoNews, ReadOn, Missed
<1>5. CASE OwnerInitialised(id)
  <2>1. /\ owner[id] = "handshake" /\ known' = known \cup {id}
        /\ UNCHANGED <<session, version, note>>
      BY <1>5 DEF OwnerInitialised
  <2>2. ~ReadOn(id)
      BY <2>1 DEF ReadOn
  <2> QED BY <1>3, <2>1, <2>2 DEF NoNews, ReadOn, Missed
<1>6. CASE OwnerEnds(id)
  <2>1. session' = 0 /\ known' \subseteq known
      BY <1>6 DEF OwnerEnds
  <2>2. owner[id] # "ended" /\ (owner[id] = "open" => s = "ended")
    <3>1. owner' = [owner EXCEPT ![id] = IF @ = "open" THEN "ended" ELSE "failed"]
        BY <1>6 DEF OwnerEnds
    <3>2. owner'[id] = IF owner[id] = "open" THEN "ended" ELSE "failed"
        BY <1>1, <3>1
    <3> QED BY <1>1, <1>3, <3>2 DEF Alive
  <2>3. \A o : ReadOn(o) => ReadOn(o)'
      BY <1>3, <2>2 DEF ReadOn
  <2> QED BY <2>1, <2>3, NoSession
<1> QED BY <1>4, <1>5, <1>6 DEF OwnerStep

KeepsPage(a) == pc'[a] \in Refreshing => pc[a] \in Refreshing /\ page'[a] = page[a]
KeepsCat ==
    /\ catalog'.version = catalog.version /\ catalog'.from = catalog.from
    /\ stale' \in {stale, TRUE} /\ overtaken' = overtaken

LEMMA FreshPage ==
    ASSUME NEW a \in Actors, PageFresh(a), NoNews, KeepsPage(a)
    PROVE  PageFresh(a)'
<1> SUFFICES ASSUME pc'[a] \in Refreshing PROVE PageFresh(a)'
    BY DEF PageFresh
<1>1. pc[a] \in Refreshing /\ page'[a] = page[a]
    BY DEF KeepsPage
<1>2. page[a].seen # 0 => ReadOn(page[a].from)
    BY <1>1 DEF PageFresh
<1>3. page[a].seen # 0 => ReadOn(page[a].from)'
    BY <1>1, <1>2 DEF NoNews, ReadOn
<1>4. page[a].seen # 0 /\ Missed(page[a].from, page[a].seen)' => Missed(page[a].from, page[a].seen)
    BY <1>1, <1>2 DEF NoNews, Missed
<1> QED BY <1>1, <1>3, <1>4 DEF PageFresh

LEMMA FreshCat ==
    ASSUME CatFresh, NoNews, KeepsCat
    PROVE  CatFresh'
<1> SUFFICES ASSUME catalog.version # 0 PROVE CatFresh'
    BY DEF CatFresh, KeepsCat
<1>1. ReadOn(catalog.from)
    BY DEF CatFresh
<1>2. ReadOn(catalog.from)'
    BY <1>1 DEF NoNews, ReadOn, KeepsCat
<1>3. Missed(catalog.from, catalog.version)' => Missed(catalog.from, catalog.version)
    BY <1>1 DEF NoNews, Missed, KeepsCat
<1> QED BY <1>2, <1>3 DEF CatFresh, KeepsCat

\* Nothing but one actor moves, and leaves its page behind.
LEMMA Keeps ==
    ASSUME PlaceOK, PageOK, NEW a \in Actors, NEW where, Goto(a, where), where \notin Refreshing,
           page' \in {page, [page EXCEPT ![a] = NoPage]}
    PROVE  \A b \in Actors : KeepsPage(b)
<1>1. pc'[a] = where /\ \A b \in Actors : b # a => pc'[b] = pc[b]
    BY Moved
<1>2. \A b \in Actors : b # a => page'[b] = page[b]
    BY DEF PageOK
<1> QED BY <1>1, <1>2 DEF KeepsPage

LEMMA CallKeeps ==
    ASSUME McpAssumption, TypeOK, NEW a \in Actors, (a = Host /\ HostStep) \/ (a \in Callers /\ CallStep(a))
    PROVE  KeepsCat /\ \A b \in Actors : KeepsPage(b)
<1>1. PlaceOK /\ PageOK
    BY TypeParts
<1>2. UNCHANGED <<catalogVars, overtaken>>
    BY DEF HostStep, HostStarts, HostCloses, HostClosed, CallStep, Begin, Answered, SessionNotFound, Reinitialize,
           Closed, CancelCall
<1>3. page' \in {page, [page EXCEPT ![a] = NoPage]}
    BY DEF HostStep, HostStarts, HostCloses, HostClosed, CallStep, Begin, Answered, SessionNotFound, Reinitialize,
           Closed, CancelCall
<1>4. CASE a = Host /\ HostStep
  <2>1. \E where \in {"opening", "closing", "over"} : Goto(a, where)
      BY <1>4 DEF HostStep, HostStarts, HostCloses, HostClosed, OpenTransport
  <2> QED BY <1>1, <1>2, <1>3, <2>1, Keeps DEF KeepsCat, catalogVars, Refreshing
<1>5. CASE a \in Callers /\ CallStep(a)
  <2>1. \E where \in {"idle", "calling", "callRefresh", "reconnect", "closing", "opening"} : Goto(a, where)
      BY <1>5 DEF CallStep, Begin, Send, Answered, SessionNotFound, CancelCall, Return, Reinitialize, Recovered,
             OpenTransport, Closed
  <2> QED BY <1>1, <1>2, <1>3, <2>1, Keeps DEF KeepsCat, catalogVars, Refreshing
<1> QED BY <1>4, <1>5

WaitStep(a) == StopTimesOut(a) \/ CancelWait(a) \/ Escape(a)

LEMMA ConnectKeeps ==
    ASSUME McpAssumption, TypeOK, NEW a \in Actors,
           Opened(a) \/ OpenFails(a) \/ CancelConnect(a) \/ Abandoned(a) \/ FailStep(a) \/ WaitStep(a)
    PROVE  KeepsCat /\ \A b \in Actors : KeepsPage(b)
<1>1. PlaceOK /\ PageOK /\ CatalogOK
    BY TypeParts
<1>2. page' \in {page, [page EXCEPT ![a] = NoPage]}
    BY DEF Opened, OpenFails, CancelConnect, Abandoned, FailStep, WaitStep, StopTimesOut, CancelWait, Escape
<1>3. KeepsCat
  <2>1. CASE FailStep(a)
      BY <1>1, <2>1 DEF FailStep, KeepsCat, catalogVars, CatalogOK
  <2>2. CASE ~FailStep(a)
      BY <2>2 DEF Opened, OpenFails, CancelConnect, Abandoned, WaitStep, StopTimesOut, CancelWait, Escape, KeepsCat,
             catalogVars
  <2> QED BY <2>1, <2>2
<1>4. CASE StopTimesOut(a) \/ CancelWait(a)
    BY <1>3, <1>4 DEF StopTimesOut, CancelWait, KeepsPage
<1>5. CASE ~(StopTimesOut(a) \/ CancelWait(a))
  <2>1. \E where \in {"connRefresh", "abandoning", "over", "serving", "idle"} : Goto(a, where)
      BY <1>5 DEF Opened, OpenFails, CancelConnect, Abandoned, FailStep, WaitStep, Escape, Abandon, Raise, Return
  <2> QED BY <1>1, <1>2, <1>3, <2>1, Keeps DEF Refreshing
<1> QED BY <1>4, <1>5

\* A page that has arrived is as fresh as the session it came on.
LoadedFresh(a) ==
    /\ Loaded(a).seen # 0
    /\ ReadOn(Loaded(a).from)
    /\ Missed(Loaded(a).from, Loaded(a).seen) => Loaded(a).late

LEMMA LoadedIsFresh ==
    ASSUME McpAssumption, LinkOK, PageOK, ServerOK, LinkInv, NEW a \in Actors, PageFresh(a),
           pc[a] \in Refreshing, Answers(page[a].on)
    PROVE  LoadedFresh(a)
<1>1. /\ Loaded(a).late = page[a].late
      /\ Loaded(a).seen = IF page[a].seen = 0 THEN version ELSE page[a].seen
      /\ Loaded(a).from = IF page[a].from = 0 THEN page[a].on ELSE page[a].from
    BY LoadedType
<1>2. version \in Nat /\ version # 0
    BY DEF ServerOK, McpAssumption
<1>3. ReadOn(page[a].on)
    BY DEF LinkInv, ReadOn, Answers
<1>4. CASE page[a].seen = 0
    BY <1>1, <1>2, <1>3, <1>4 DEF PageFresh, LoadedFresh, Missed
<1>5. CASE page[a].seen # 0
  <2>1. page[a].from # 0
      BY <1>5 DEF PageFresh, ReadOn, LinkOK
  <2> QED BY <1>1, <1>5, <2>1 DEF PageFresh, LoadedFresh
<1> QED BY <1>4, <1>5

LEMMA ChangeStep == McpAssumption /\ BaseInv /\ ChangeInv /\ [Next]_vars => ChangeInv'
<1> SUFFICES ASSUME McpAssumption, BaseInv, ChangeInv, [Next]_vars PROVE ChangeInv'
    OBVIOUS
<1>1. /\ TypeOK /\ LockInv /\ LinkInv /\ LinkOK /\ PlaceOK /\ PageOK /\ CatalogOK /\ ServerOK /\ Host \in Actors
      /\ Callers \subseteq Actors
    BY TypeParts DEF BaseInv, Actors
<1>2. NoNews /\ KeepsCat /\ (\A b \in Actors : KeepsPage(b)) => ChangeInv'
    BY FreshPage, FreshCat DEF ChangeInv
<1>3. CASE HostStep
    BY <1>1, <1>2, <1>3, LinkChange, ActorNoNews, CallKeeps
<1>4. ASSUME NEW c \in Callers, CallStep(c) PROVE ChangeInv'
    BY <1>1, <1>2, <1>4, LinkChange, ActorNoNews, CallKeeps
<1>5. ASSUME NEW a \in Actors, ConnectStep(a) PROVE ChangeInv'
  <2>1. NoNews
      BY <1>1, <1>5, LinkChange, ActorNoNews
  <2>2. CASE Opened(a) \/ OpenFails(a) \/ CancelConnect(a) \/ Abandoned(a) \/ FailStep(a) \/ WaitStep(a)
      BY <1>1, <1>2, <2>1, <2>2, ConnectKeeps
  <2>3. CASE EnterStep(a)
    <3>1. /\ UNCHANGED <<catalogVars, overtaken>> /\ session # 0 /\ \E where : Goto(a, where)
          /\ page' = [page EXCEPT ![a] = [NoPage EXCEPT !.count = 1, !.on = session]]
        BY <2>3 DEF EnterStep, Enter, Accepted
    <3>2. page'[a].seen = 0 /\ page'[a].from = 0 /\ page'[a].on # 0
        BY <1>1, <3>1 DEF PageOK, NoPage
    <3>3. \A b \in Actors : b # a => KeepsPage(b)
        BY <1>1, <3>1, Moved DEF PageOK, KeepsPage
    <3>4. PageFresh(a)'
        BY <3>2 DEF PageFresh
    <3>5. KeepsCat
        BY <3>1 DEF KeepsCat, catalogVars
    <3> QED BY <2>1, <3>3, <3>4, <3>5, FreshPage, FreshCat DEF ChangeInv
  <2>4. CASE TurnStep(a)
    <3>1. /\ UNCHANGED <<catalogVars, overtaken, pc, version>> /\ session # 0 /\ pc[a] \in Refreshing
          /\ page' = [page EXCEPT ![a] = [Loaded(a) EXCEPT !.count = @ + 1, !.on = session]]
        BY <2>4 DEF TurnStep, Accepted, quietVars, serverVars
    <3>2. Loaded(a) \in PageType(Ids, version)
        BY <1>1, LoadedType
    <3>3. /\ page'[a].on # 0 /\ page'[a].seen = Loaded(a).seen /\ page'[a].from = Loaded(a).from
          /\ page'[a].late = Loaded(a).late
        BY <1>1, <3>1, <3>2 DEF PageOK, PageType
    <3>4. LoadedFresh(a)
        BY <1>1, <2>4, LoadedIsFresh DEF ChangeInv, TurnStep
    <3>5. PageFresh(a)'
      <4>1. /\ ReadOn(page[a].from)'
            /\ Missed(page[a].from, page[a].seen)' => Missed(Loaded(a).from, Loaded(a).seen)
          BY <2>1, <3>3, <3>4 DEF NoNews, ReadOn, Missed, LoadedFresh
      <4> QED BY <3>3, <3>4, <4>1 DEF PageFresh, LoadedFresh
    <3>6. \A b \in Actors : b # a => KeepsPage(b)
        BY <1>1, <3>1 DEF PageOK, KeepsPage
    <3>7. KeepsCat
        BY <3>1 DEF KeepsCat, catalogVars
    <3> QED BY <2>1, <3>5, <3>6, <3>7, FreshPage, FreshCat DEF ChangeInv
  <2>5. CASE CommitStep(a)
    <3>1. PICK truncated \in BOOLEAN : Commit(a, Loaded(a), truncated)
        BY <2>5 DEF CommitStep
    <3>2. /\ catalog'.version = Loaded(a).seen /\ catalog'.from = Loaded(a).from /\ overtaken' = Loaded(a).late
          /\ \E where \in {"idle", "calling", "serving"} : Goto(a, where)
        BY <3>1 DEF Commit, Send, Recovered, Return
    <3>3. LoadedFresh(a)
        BY <1>1, <2>5, LoadedIsFresh DEF ChangeInv, CommitStep
    <3>4. CatFresh'
      <4>1. /\ ReadOn(catalog.from)'
            /\ Missed(catalog.from, catalog.version)' => Missed(Loaded(a).from, Loaded(a).seen)
          BY <2>1, <3>2, <3>3 DEF NoNews, ReadOn, Missed, LoadedFresh
      <4> QED BY <3>2, <3>3, <4>1 DEF CatFresh, LoadedFresh
    <3>5. \A b \in Actors : pc'[b] \notin Refreshing
        BY <1>1, <2>5, <3>2, Moved DEF CommitStep, LockInv, Refreshing
    <3> QED BY <3>4, <3>5 DEF ChangeInv, PageFresh
  <2> QED BY <1>5, <2>2, <2>3, <2>4, <2>5 DEF ConnectStep, WaitStep
<1>6. ASSUME NEW id \in DOMAIN owner, OwnerStep(id) PROVE ChangeInv'
  <2>1. UNCHANGED <<catalogVars, pc, page, overtaken>>
      BY <1>6 DEF OwnerStep, OwnerEnters, OwnerInitialised, OwnerEnds
  <2> QED BY <1>1, <1>2, <1>6, <2>1, OwnerNoNews DEF KeepsCat, KeepsPage, catalogVars
<1>7. CASE ServerChanges \/ ServerForgets \/ UNCHANGED vars
  <2>1. UNCHANGED <<session, owner, catalogVars, pc, page, overtaken>>
      BY <1>7 DEF ServerChanges, ServerForgets, vars, linkVars
  <2>2. NoNews
    <3>1. CASE ServerChanges
      <4>1. session \in {0, transport} /\ 0 \notin known /\ known' = known /\ session' = session
          BY <1>1, <3>1 DEF ServerChanges, linkVars, LinkInv, LinkOK
      <4>2. session' \in known' => note'
          BY <3>1, <4>1 DEF ServerChanges
      <4> QED BY <2>1, <4>2 DEF NoNews, ReadOn, Missed
    <3>2. CASE ServerForgets
        BY <2>1, <3>2 DEF ServerForgets, NoNews, ReadOn, Missed
    <3>3. CASE UNCHANGED vars
        BY <2>1, <3>3 DEF vars, serverVars, NoNews, ReadOn, Missed
    <3> QED BY <1>7, <3>1, <3>2, <3>3
  <2> QED BY <1>2, <2>1, <2>2 DEF KeepsCat, KeepsPage, catalogVars
<1>8. CASE ListChanged
  <2>1. /\ UNCHANGED <<owner, catalog, pc>> /\ stale' = TRUE
        /\ page' = [a \in Actors |-> [page[a] EXCEPT !.late = pc[a] \in Refreshing]]
      BY <1>8 DEF ListChanged, linkVars
  <2>2. CatFresh'
      BY <2>1 DEF ChangeInv, CatFresh, ReadOn
  <2>3. ASSUME NEW a \in Actors, pc[a] \in Refreshing PROVE PageFresh(a)'
    <3>1. page[a] \in PageType(Ids, version) /\ page'[a] = [page[a] EXCEPT !.late = TRUE]
        BY <1>1, <2>1, <2>3 DEF PageOK
    <3>2. /\ page'[a].on = page[a].on /\ page'[a].seen = page[a].seen /\ page'[a].from = page[a].from
          /\ page'[a].late = TRUE
        BY <3>1 DEF PageType
    <3> QED BY <2>1, <2>3, <3>2 DEF ChangeInv, PageFresh, ReadOn
  <2> QED BY <2>1, <2>2, <2>3 DEF ChangeInv, PageFresh
<1> QED BY <1>1, <1>3, <1>4, <1>5, <1>6, <1>7, <1>8, Steps DEF ServerStep

-----------------------------------------------------------------------------
(* Waiting for a transport.                                                *)

\* One actor moves, to no wait.
LEMMA AwaitLeaves ==
    ASSUME PlaceOK, LockInv, AwaitedStops, NEW a \in Actors, NEW where, Goto(a, where), where \notin Waiting,
           stop' = stop, transport' = transport \/ pc[a] \in Reconnecting \/ \A b \in Actors : pc[b] \notin Reconnecting
    PROVE  AwaitedStops'
<1>1. pc'[a] = where /\ \A b \in Actors : b # a => pc'[b] = pc[b]
    BY Moved
<1>2. ASSUME NEW b \in Actors, pc'[b] \in Waiting PROVE b # a /\ pc[b] \in Waiting
    BY <1>1, <1>2
<1>3. Waiting \subseteq Reconnecting
    BY DEF Waiting, Reconnecting
<1>4. ASSUME NEW b \in Actors, pc'[b] \in Waiting PROVE transport' \in stop'
    BY <1>2, <1>3, <1>4 DEF LockInv, AwaitedStops, Waiting
<1> QED BY <1>4 DEF AwaitedStops, Waiting

\* One actor starts to wait, and tells the transport to stop.
LEMMA AwaitStops ==
    ASSUME stop' = stop \cup {transport}, transport' = transport
    PROVE  AwaitedStops'
BY DEF AwaitedStops

\* Nobody starts to wait, and the transport is the same.
LEMMA AwaitCalm ==
    ASSUME AwaitedStops, pc' = pc, UNCHANGED <<stop, transport>>
    PROVE  AwaitedStops'
BY DEF AwaitedStops

LEMMA AwaitStep == McpAssumption /\ TypeOK /\ LockInv /\ AwaitedStops /\ [Next]_vars => AwaitedStops'
<1> SUFFICES ASSUME McpAssumption, TypeOK, LockInv, AwaitedStops, [Next]_vars PROVE AwaitedStops'
    OBVIOUS
<1>1. /\ PlaceOK /\ PageOK /\ Host \in Actors /\ Callers \subseteq Actors
    BY TypeParts DEF Actors
<1>2. CASE HostStarts
  <2>1. Goto(Host, "opening") /\ pc[Host] = "created" /\ stop' = stop
      BY <1>2 DEF HostStarts, OpenTransport
  <2>2. \A b \in Actors : pc[b] \notin Reconnecting
      BY <2>1 DEF LockInv, Actors, Reconnecting
  <2> QED BY <1>1, <2>1, <2>2, AwaitLeaves DEF Waiting
<1>3. CASE HostCloses
  <2>1. CASE transport = 0
      BY <1>1, <1>3, <2>1, AwaitLeaves DEF HostCloses, Waiting
  <2>2. CASE transport # 0
      BY <1>3, <2>2, AwaitStops DEF HostCloses
  <2> QED BY <2>1, <2>2
<1>4. CASE HostClosed
    BY <1>1, <1>4, AwaitLeaves DEF HostClosed, Waiting, Reconnecting
<1>5. ASSUME NEW c \in Callers, CallStep(c) PROVE AwaitedStops'
  <2>1. CASE (\E o \in {"tool", "read"} : Begin(c, o)) \/ Answered(c) \/ SessionNotFound(c) \/ CancelCall(c)
    <3>1. /\ UNCHANGED <<transport, stop>>
          /\ \E where \in {"idle", "calling", "callRefresh", "reconnect"} : Goto(c, where)
        BY <2>1 DEF Begin, Send, Answered, SessionNotFound, CancelCall, Return, linkVars
    <3> QED BY <1>1, <3>1, AwaitLeaves DEF Waiting
  <2>2. CASE Reinitialize(c)
    <3>1. CASE UNCHANGED linkVars /\ \E where \in {"idle", "calling"} : Goto(c, where)
        BY <1>1, <3>1, AwaitLeaves DEF Waiting, linkVars
    <3>2. CASE OpenTransport(c) /\ UNCHANGED stop
      <4>1. pc[Host] = "serving"
          BY <2>2 DEF LockInv, Reinitialize
      <4>2. \A b \in Actors : pc[b] \notin Reconnecting
          BY <2>2, <4>1 DEF Reinitialize, ReconnectFree, Actors, Reconnecting
      <4> QED BY <1>1, <3>2, <4>2, AwaitLeaves DEF OpenTransport, Waiting
    <3>3. CASE stop' = stop \cup {transport} /\ UNCHANGED transport
        BY <3>3, AwaitStops
    <3> QED BY <2>2, <3>1, <3>2, <3>3 DEF Reinitialize, Recovered, Return, Send
  <2>3. CASE Closed(c)
    <3>1. /\ pc[c] \in Reconnecting /\ stop' = stop
          /\ \E where \in {"idle", "opening"} : Goto(c, where)
        BY <2>3 DEF Closed, OpenTransport, Return, Reconnecting
    <3> QED BY <1>1, <3>1, AwaitLeaves DEF Waiting
  <2> QED BY <1>5, <2>1, <2>2, <2>3 DEF CallStep
<1>6. ASSUME NEW a \in Actors, ConnectStep(a) PROVE AwaitedStops'
  <2>1. CASE Opened(a)
      BY <1>1, <2>1, AwaitLeaves DEF Opened, linkVars, Waiting
  <2>2. CASE OpenFails(a) \/ CancelConnect(a)
      BY <2>2, AwaitStops DEF OpenFails, CancelConnect, Abandon
  <2>3. CASE Abandoned(a) \/ Escape(a)
    <3>1. /\ pc[a] \in Reconnecting /\ stop' = stop
          /\ \E where \in {"over", "serving", "idle"} : Goto(a, where)
        BY <2>3 DEF Abandoned, Escape, Return, Waiting, Reconnecting
    <3> QED BY <1>1, <3>1, AwaitLeaves DEF Waiting
  <2>4. CASE FailStep(a)
    <3>1. /\ transport' = transport
          /\ \/ Goto(a, "idle") /\ stop' = stop
             \/ stop' = stop \cup {transport}
        BY <2>4 DEF FailStep, Raise, Return, Abandon, quietVars
    <3> QED BY <1>1, <3>1, AwaitLeaves, AwaitStops DEF Waiting
  <2>5. CASE EnterStep(a)
    <3>1. /\ UNCHANGED <<transport, stop>>
          /\ \E where \in {"callPaging", "connPaging"} : Goto(a, where)
        BY <2>5 DEF EnterStep, Enter, quietVars
    <3> QED BY <1>1, <3>1, AwaitLeaves DEF Waiting
  <2>6. CASE TurnStep(a)
      BY <2>6, AwaitCalm DEF TurnStep, quietVars
  <2>7. CASE CommitStep(a)
    <3>1. /\ UNCHANGED <<transport, stop>>
          /\ \E where \in {"serving", "idle", "calling"} : Goto(a, where)
        BY <2>7 DEF CommitStep, Commit, Send, Recovered, Return, quietVars
    <3> QED BY <1>1, <3>1, AwaitLeaves DEF Waiting
  <2>8. CASE StopTimesOut(a) \/ CancelWait(a)
      BY <2>8, AwaitCalm DEF StopTimesOut, CancelWait
  <2> QED BY <1>6, <2>1, <2>2, <2>3, <2>4, <2>5, <2>6, <2>7, <2>8 DEF ConnectStep
<1>7. ASSUME NEW id \in DOMAIN owner, OwnerStep(id) PROVE AwaitedStops'
    BY <1>7, AwaitCalm DEF OwnerStep, OwnerEnters, OwnerInitialised, OwnerEnds
<1>8. CASE ServerStep
    BY <1>8, AwaitCalm DEF ServerStep, ServerChanges, ServerForgets, ListChanged, linkVars
<1>9. CASE UNCHANGED vars
    BY <1>9, AwaitCalm DEF vars, linkVars
<1> QED BY <1>1, <1>2, <1>3, <1>4, <1>5, <1>6, <1>7, <1>8, <1>9, Steps DEF HostStep

-----------------------------------------------------------------------------
(* The theorems.                                                           *)

\* Every variable of the connection stays in its domain, for any number of
\* agents and catalogues and any page limit (mcp/connection.py).
THEOREM TypeCorrect == Spec => []TypeOK
<1>1. McpAssumption
    BY McpAssumption
<1>2. Init => BaseInv
    BY <1>1, BaseInit
<1>3. BaseInv /\ [Next]_vars => BaseInv'
    BY <1>1, BaseStep
<1>4. BaseInv => TypeOK
    BY DEF BaseInv
<1> QED BY <1>2, <1>3, <1>4, PTL DEF Spec

\* No owner left running that is neither the connection's own nor cancelled, the
\* catalogue of the session of now, and nobody waiting for a transport that was
\* not told to stop, with cancellations at every await of a connect, a close and
\* of the wait for the owner itself (mcp/connection.py: connect, close,
\* _stop_transport, refresh_catalogs).
THEOREM SessionCorrect == Spec => []SessionSound
<1>1. McpAssumption
    BY McpAssumption
<1>2. Init => BaseInv /\ AwaitedStops
  <2>1. Init => AwaitedStops
      BY DEF Init, AwaitedStops, Waiting
  <2> QED BY <1>1, <2>1, BaseInit
<1>3. BaseInv /\ AwaitedStops /\ [Next]_vars => (BaseInv /\ AwaitedStops)'
    BY <1>1, BaseStep, AwaitStep DEF BaseInv
<1>4. BaseInv /\ AwaitedStops => SessionSound
  <2>1. BaseInv => NoLeakedTransport
      BY DEF BaseInv, LinkInv, NoLeakedTransport, Cut
  <2>2. BaseInv => CatalogOfThisSession
      BY DEF BaseInv, LinkInv, CatInv, CatalogOfThisSession, Usable
  <2> QED BY <2>1, <2>2 DEF SessionSound
<1> QED BY <1>2, <1>3, <1>4, PTL DEF Spec

\* A tool call reaches the server at most once and a read at most twice, through
\* every refresh, reconnect and retry (mcp/connection.py: call_tool, _request).
THEOREM SentCorrect == Spec => []SentOnce
<1>1. McpAssumption
    BY McpAssumption
<1>2. Init => BaseInv /\ SendInv
  <2>1. Init => SendInv
      BY <1>1 DEF Init, SendInv, SendOK, Idle, Actors, McpAssumption, Reconnecting
  <2> QED BY <1>1, <2>1, BaseInit
<1>3. BaseInv /\ SendInv /\ [Next]_vars => (BaseInv /\ SendInv)'
    BY <1>1, BaseStep, SendStep DEF BaseInv
<1>4. SendInv => SentOnce
    BY DEF SendInv, SendOK, SentOnce
<1> QED BY <1>2, <1>3, <1>4, PTL DEF Spec

\* Agents that meet the same expired session share one reconnect: none closes a
\* usable connection other than the one its own request failed on, whatever the
\* failure was taken for, and a call that reports "unknown" leaves a new transport
\* and its catalogue (mcp/connection.py: _reinitialize, _is_session_not_found).
THEOREM SharedCorrect == Spec => SessionShared
<1> DEFINE Inv == BaseInv /\ SendInv /\ SharedInv
<1>1. McpAssumption
    BY McpAssumption
<1>2. Init => Inv
  <2>1. Init => SendInv
      BY <1>1 DEF Init, SendInv, SendOK, Idle, Actors, McpAssumption, Reconnecting
  <2>2. Init => SharedInv
      BY <1>1 DEF Init, SharedInv, SharedOK, Idle, Actors, McpAssumption, Reconnecting
  <2> QED BY <1>1, <2>1, <2>2, BaseInit
<1>3. Inv /\ [Next]_vars => Inv'
    BY <1>1, BaseStep, SendStep, SharedStep DEF BaseInv
<1>4. Inv /\ [Next]_vars =>
         [\A c \in Callers :
            pc[c] = "reconnect" /\ pc'[c] \in Reconnecting => ~(Usable /\ session # req[c].on)]_vars
    BY <1>1, HealthyStep
<1>5. Inv /\ [Next]_vars =>
         [\A c \in Callers :
            req[c].outcome # "unknown" /\ req'[c].outcome = "unknown"
               => catalog'.from = transport' /\ transport' \notin {0, req[c].on}]_vars
    BY <1>1, UnknownStep
<1> HIDE DEF Inv
<1>6. Spec => HealthySessionKept
    BY <1>2, <1>3, <1>4, PTL DEF Spec, HealthySessionKept
<1>7. Spec => UnknownOnNewSession
    BY <1>2, <1>3, <1>5, PTL DEF Spec, UnknownOnNewSession
<1> QED BY <1>6, <1>7 DEF SessionShared

\* A list_changed is not forgotten: a usable catalogue older than the one
\* announced is marked stale, unless a refresh that was reading took the mark
\* off (mcp/connection.py: _handle_message, refresh_catalogs).
THEOREM ChangeCorrect == Spec => []ChangeRemembered
<1>1. McpAssumption
    BY McpAssumption
<1>2. Init => BaseInv /\ ChangeInv
  <2>1. Init => ChangeInv
    <3> SUFFICES ASSUME Init PROVE ChangeInv
        OBVIOUS
    <3>1. catalog.version = 0 /\ \A a \in Actors : pc[a] \notin Refreshing
        BY DEF Init, Refreshing
    <3> QED BY <3>1 DEF ChangeInv, CatFresh, PageFresh
  <2> QED BY <1>1, <2>1, BaseInit
<1>3. BaseInv /\ ChangeInv /\ [Next]_vars => (BaseInv /\ ChangeInv)'
    BY <1>1, BaseStep, ChangeStep
<1>4. BaseInv /\ ChangeInv => ChangeRemembered
  <2> SUFFICES ASSUME BaseInv, ChangeInv, Usable, session \in known, catalog.version < version, ~note
               PROVE  stale \/ overtaken
      BY DEF ChangeRemembered
  <2>1. catalog.version # 0 /\ catalog.from = session
      BY UsableUp DEF BaseInv, LinkInv, CatInv, Usable
  <2> QED BY <2>1 DEF ChangeInv, CatFresh, Missed
<1> QED BY <1>2, <1>3, <1>4, PTL DEF Spec

=============================================================================
