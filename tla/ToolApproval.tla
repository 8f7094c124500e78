----------------------------- MODULE ToolApproval -----------------------------
(***************************************************************************)
(* What a tool call has to pass before it runs: the pipeline of            *)
(* tools/runtime.py over the permission engine, the rules, the path        *)
(* policy, hooks, approvals and grants, under the tool scope that inline   *)
(* skills and the disclosure of MCP tools give to a turn.                  *)
(*                                                                         *)
(* One process runs the threads the CLI opens one after the other with     *)
(* /new, their turns numbered from 1 in each, and a subagent beside the    *)
(* root.  It may stop anywhere and be resumed.  A provider may repeat a    *)
(* call id.  How a turn ends on record is TurnRecovery's subject; here a   *)
(* turn matters for what its approvals, skills and schemas allow.          *)
(***************************************************************************)
EXTENDS Integers, FiniteSets, SequencesExt

CONSTANTS Tool,      \* traits of each tool, by name
          Path,        \* what the path policy makes of each argument
          Requests,    \* [tool, arg] the model may ask for
          Rules,       \* the built-in rules and security.rules
          Presets,     \* sandbox mode and approval policy of /permissions
          SkillTools,  \* allowed-tools of the inline skill; empty, it restricts nothing
          Delegable,   \* requests a subagent may make; their MCP tools it may be given
          Hooks,       \* what PreToolUse hooks answer; the CLI registers none: PASS
          MixedIds,    \* a response may give one id to different calls
          Threads,     \* bound: threads of the process
          MaxTurns,    \* bound: turns of a thread
          MaxCalls,    \* bound: calls of a response, and call ids
          MaxIssued,   \* bound: calls the model ever asks for
          MaxCrashes   \* bound: ends of the process

Kinds == {"file", "delete", "command", "mcp", "search", "skill", "spawn"}
Verdicts == {"ALLOW", "ASK", "DENY"}

ASSUME ApprovalAssumption ==
    /\ \A t \in DOMAIN Tool :
          /\ Tool[t].kind \in Kinds
          /\ Tool[t].risk \in {"READ_ONLY", "LOW", "MEDIUM", "HIGH", "CRITICAL"}
          /\ Tool[t].able \in BOOLEAN
          /\ Tool[t].mode \in {"inherit", "always", "writes", "never"}
          /\ Tool[t].safeRead \in BOOLEAN
          /\ Tool[t].eager \in BOOLEAN
    /\ \A r \in Requests \cup Delegable : r.tool \in DOMAIN Tool /\ r.arg \in DOMAIN Path
    /\ \A a \in DOMAIN Path : Path[a] \in {"plain", "protected", "denied", "malformed"}
    /\ \A r \in Rules : r.decision \in Verdicts /\ r.trusted \in BOOLEAN
    /\ SkillTools \subseteq DOMAIN Tool
    /\ Hooks \subseteq {"PASS", "ASK", "DENY"}
    /\ MixedIds \in BOOLEAN
    /\ Threads \in Nat \ {0} /\ {MaxTurns, MaxCalls, MaxIssued, MaxCrashes} \subseteq Nat

VARIABLES
    thread,    \* the thread the CLI shows
    turn,      \* its last turn
    preset,    \* security.sandbox_mode and approval_policy
    pc,        \* where the root turn is suspended
    response,  \* calls of the turn's last model response
    todo,      \* positions of those still to run, in order
    results,   \* call ids with a tool message
    verdict,   \* evaluation.decision of the current call
    point,     \* resume point of the last checkpoint
    quota,     \* how many calls the model may still ask for
    decided,   \* pending_approvals of this turn: approval id -> decision
    consumed,  \* _executed_approvals
    grants,    \* _turn_grants and _thread_grants
    skills,    \* turns with an ACTIVE inline execution
    loaded,    \* turn_loaded of the MCP runtime
    delegated, \* MCP names in the subagent definition's enabled_tools
    child,     \* the subagent: what it was delegated and what it runs
    crashes,   \* how often the process has ended
    consents,  \* history: what the user has allowed
    ran        \* history: asked-for calls this process ran in the turn

turnVars == <<response, todo, results, verdict, point, quota>>
approvalVars == <<decided, consumed, grants, consents>>
scopeVars == <<skills, loaded>>
childVars == <<delegated, child>>
vars == <<thread, turn, preset, pc, turnVars, approvalVars, scopeVars, childVars, crashes, ran>>

Names == DOMAIN Tool
Remote == {t \in Names : Tool[t].kind = "mcp"}
Ids == 1..MaxCalls
Current == CHOOSE i \in todo : \A j \in todo : i <= j
Call == response[Current]
Decisions == {"ALLOW_ONCE", "ALLOW_TURN", "ALLOW_THREAD", "DENY_ONCE", "CANCEL_TURN"}
NoChild == [state |-> "none", given |-> {}, call |-> CHOOSE r \in Requests : TRUE]

Init ==
    /\ thread = 1
    /\ turn = 0
    /\ preset \in Presets
    /\ pc = "idle"
    /\ response = <<>>
    /\ todo = {}
    /\ results = {}
    /\ verdict = "DENY"
    /\ point = "TERMINAL"
    /\ quota = MaxIssued
    /\ decided = <<>>
    /\ consumed = {}
    /\ grants = {}
    /\ skills = {}
    /\ loaded = {}
    /\ delegated = {}
    /\ child = NoChild
    /\ crashes = 0
    /\ consents = {}
    /\ ran = {}

-----------------------------------------------------------------------------
(* The permission engine: hard boundaries, then rules, then defaults.      *)

\* Names a skill leaves to the turn, less the MCP schemas that are neither
\* always loaded nor found by a search.  The server is up: McpConnection is
\* about the rest.
Restricted == turn \in skills /\ SkillTools # {}

Effective ==
    LET scoped == IF Restricted THEN SkillTools ELSE Names
    IN  {t \in scoped : t \in Remote => Tool[t].eager \/ <<turn, t>> \in loaded}

OnPath(c) == IF Tool[c.tool].kind \in {"file", "delete", "command"} THEN Path[c.arg] ELSE "plain"

\* An ALLOW rule of an untrusted source is ignored.
Matching(c) ==
    {r \in Rules : r.tool = c.tool /\ c.arg \in r.args /\ (r.trusted \/ r.decision # "ALLOW")}

\* resolve_rule_decision: DENY before ASK before ALLOW.
Strongest(rules) ==
    CHOOSE d \in Verdicts :
        /\ \E r \in rules : r.decision = d
        /\ d = "ASK" => \A r \in rules : r.decision # "DENY"
        /\ d = "ALLOW" => \A r \in rules : r.decision = "ALLOW"

\* MCPApprovalResolver.resolve; "none" leaves it to the host's defaults.
McpDecision(t) ==
    CASE t.kind # "mcp" \/ t.mode = "inherit" -> "none"
      [] t.kind = "mcp" /\ t.mode = "always" -> "ASK"
      [] t.kind = "mcp" /\ t.mode = "never" -> "ALLOW"
      [] t.kind = "mcp" /\ t.mode = "writes" -> IF t.safeRead THEN "ALLOW" ELSE "ASK"

DefaultDecision(t, p) ==
    IF p.sandbox = "read-only" /\ t.risk # "READ_ONLY" THEN "DENY"
    ELSE IF \/ p.policy = "untrusted" /\ t.risk # "READ_ONLY"
            \/ t.kind = "delete"
            \/ t.risk \in {"HIGH", "CRITICAL"}
         THEN "ASK"
         ELSE "ALLOW"

Boundary(c, names) ==
    c.tool \in names /\ Tool[c.tool].able /\ OnPath(c) # "denied"

\* PermissionEngine.evaluate for a principal with these tools and rules.
Evaluate(c, names, rules, p) ==
    IF ~Boundary(c, names) THEN "DENY"
    ELSE IF OnPath(c) = "protected" THEN "ASK"
    ELSE IF rules # {} THEN Strongest(rules)
    ELSE IF McpDecision(Tool[c.tool]) # "none" THEN McpDecision(Tool[c.tool])
    ELSE DefaultDecision(Tool[c.tool], p)

-----------------------------------------------------------------------------
(* How the root's turn goes on.                                            *)

Lasting == {k \in consents : k.scope = "ALLOW_THREAD"}

Remaining(calls, done) == {i \in DOMAIN calls : calls[i].id \notin done}

\* Mutant: only the approvals are cleaned up.
ClearApprovals ==
    /\ grants' = {g \in grants : g.thread # thread \/ g.turn # turn}
    /\ UNCHANGED <<skills, loaded>>

\* The turn's part of the finally clause of run_existing.
ClearTurn ==
    /\ grants' = {g \in grants : g.thread # thread \/ g.turn # turn}
    /\ skills' = skills \ {turn}
    /\ loaded' = {l \in loaded : l[1] # turn}

\* The turn ends; cancel_all ends the subagent with it.
Finally ==
    /\ ClearTurn
    /\ pc' = "idle"
    /\ child' = NoChild
    /\ delegated' = {}

\* Mutant: the loop ends one call late.
SettleLate ==
    /\ results' = results \cup {Call.id}
    /\ todo' = todo \ {Current}
    /\ pc' = IF todo = {} THEN "model" ELSE "call"

\* A tool message is appended and the loop goes on with the rest.
Settle ==
    /\ results' = results \cup {Call.id}
    /\ todo' = todo \ {Current}
    /\ pc' = IF todo' = {} THEN "model" ELSE "call"

-----------------------------------------------------------------------------
(* Approvals and grants.                                                   *)

\* stable_approval_id: of thread, turn and agent, which are the same for the
\* whole of the table here, the call's id and its arguments.
ApprovalId(c) == [id |-> c.id, arg |-> c.arg]

\* GrantKey; a thread grant has no turn.
Key(c, t) == [thread |-> thread, turn |-> t, tool |-> c.tool, arg |-> c.arg]

\* Mutant: a grant is looked up without its thread and turn.
GrantedAnywhere(c) == \E g \in grants : g.tool = c.tool /\ g.arg = c.arg

Granted(c) == {Key(c, turn), Key(c, 0)} \cap grants # {}

GrantFor(c, d) ==
    CASE d = "ALLOW_TURN" -> {Key(c, turn)}
      [] d = "ALLOW_THREAD" -> {Key(c, 0)}
      [] OTHER -> {}

OnRecord(c) == ApprovalId(c) \in DOMAIN decided

\* Mutant: an approval is never used up.
RulingUnspent(c, d) ==
    CASE d = "CANCEL_TURN" -> "cancel" [] d = "DENY_ONCE" -> "refuse" [] OTHER -> "run"

\* What a decision lets the call do, made just now or on record.
Ruling(c, d) ==
    CASE d = "CANCEL_TURN" -> "cancel"
      [] d = "DENY_ONCE" -> "refuse"
      [] OTHER -> IF ApprovalId(c) \in consumed THEN "refuse" ELSE "run"

\* Mutant: a grant answers a denial as well.
AuthorizationByGrant(c, v) ==
    IF v = "ALLOW" \/ Granted(c) THEN "run"
    ELSE IF v = "DENY" \/ preset.policy = "never" THEN "refuse"
    ELSE IF OnRecord(c) THEN Ruling(c, decided[ApprovalId(c)])
    ELSE "ask"

\* _authorize_or_approve up to the question: a grant is looked up before the
\* policy "never", a decision on record before the user is asked.
Authorization(c, v) ==
    IF v = "DENY" THEN "refuse"
    ELSE IF v = "ALLOW" \/ Granted(c) THEN "run"
    ELSE IF preset.policy = "never" THEN "refuse"
    ELSE IF OnRecord(c) THEN Ruling(c, decided[ApprovalId(c)])
    ELSE "ask"

\* The decision d, if one was used, is consumed and granted by a call that runs.
Proceed(how, d) ==
    \/ /\ how = "run"
       /\ pc' = "executing"
       /\ consumed' = IF d = "none" THEN consumed ELSE consumed \cup {ApprovalId(Call)}
       /\ grants' = grants \cup GrantFor(Call, d)
       /\ UNCHANGED <<todo, results, skills, loaded, childVars>>
    \/ /\ how = "ask"
       /\ pc' = "asking"
       /\ UNCHANGED <<todo, results, consumed, grants, skills, loaded, childVars>>
    \/ /\ how = "refuse"
       /\ Settle
       /\ UNCHANGED <<consumed, grants, skills, loaded, childVars>>
    \/ /\ how = "cancel"
       /\ Finally
       /\ UNCHANGED <<todo, results, consumed>>

\* The checkpoint that stands after it; a refusal ends in a tool result.
PointAfter(how, here) ==
    CASE how = "refuse" -> "AFTER_TOOL"
      [] how = "ask" -> "WAITING_APPROVAL"
      [] OTHER -> here

-----------------------------------------------------------------------------
(* The steps of the root's turn.                                           *)

\* /permissions between turns.
SetPreset ==
    /\ pc = "idle"
    /\ preset' \in Presets \ {preset}
    /\ UNCHANGED <<thread, turn, pc, turnVars, approvalVars, scopeVars, childVars, crashes, ran>>

\* /new keeps the run manager: its grants, executions and MCP runtime.
NewThread ==
    /\ pc = "idle"
    /\ thread < Threads
    /\ thread' = thread + 1
    /\ turn' = 0
    /\ point' = "TERMINAL"
    /\ results' = {}
    /\ UNCHANGED <<preset, pc, response, todo, verdict, quota, approvalVars,
                   scopeVars, childVars, crashes, ran>>

\* run_turn: a tool runtime and an agent registry of its own; /skill-name
\* starts an inline execution before the loop.
StartTurn ==
    /\ pc = "idle"
    /\ turn < MaxTurns
    /\ turn' = turn + 1
    /\ pc' = "model"
    /\ point' = "BEFORE_MODEL"
    /\ response' = <<>> /\ todo' = {} /\ verdict' = "DENY"
    /\ decided' = <<>> /\ consumed' = {}
    /\ consents' = Lasting
    /\ \E explicit \in BOOLEAN : skills' = IF explicit THEN skills \cup {turn'} ELSE skills
    /\ ran' = {}
    /\ UNCHANGED <<thread, preset, results, quota, grants, loaded, childVars, crashes>>

\* The model asks for tools under ids of the provider's making: a call may
\* come twice, or under an id of an earlier response.  Those that have a
\* result are skipped.  Ids are numbered as they appear.
ModelResponds ==
    /\ pc = "model"
    /\ \E n \in {k \in 1..MaxCalls : k <= quota} : \E rs \in [1..n -> Requests], ids \in [1..n -> Ids] :
          /\ \A i \in 1..n : ids[i] <= 1 + Cardinality(results \cup {ids[j] : j \in 1..(i - 1)})
          /\ MixedIds \/ \A i, j \in 1..n : ids[i] = ids[j] => rs[i] = rs[j]
          /\ quota' = quota - n
          /\ response' = [i \in 1..n |-> [id |-> ids[i], tool |-> rs[i].tool, arg |-> rs[i].arg]]
    /\ todo' = Remaining(response', results)
    /\ pc' = IF todo' = {} THEN "model" ELSE "call"
    /\ point' = "AFTER_MODEL"
    /\ UNCHANGED <<thread, turn, preset, results, verdict, approvalVars, scopeVars,
                   childVars, crashes, ran>>

\* Arguments that fail validation, and a path outside the workspace or in a
\* protected store, raise before any hook.
Raises ==
    \/ Path[Call.arg] = "malformed"
    \/ Call.tool \in Effective /\ Tool[Call.tool].able /\ OnPath(Call) = "denied"

\* execute up to the hooks: validation of the arguments, then evaluation.
BeginCall ==
    /\ pc = "call"
    /\ IF Raises
       THEN Settle /\ point' = "AFTER_TOOL" /\ UNCHANGED <<verdict, childVars>>
       ELSE /\ pc' = "hook"
            /\ point' = "TOOL_IN_FLIGHT"
            /\ verdict' = Evaluate(Call, Effective, Matching(Call), preset)
            /\ UNCHANGED <<todo, results, childVars>>
    /\ UNCHANGED <<thread, turn, preset, response, quota, approvalVars, scopeVars,
                   crashes, ran>>

\* Mutant: a hook's ASK overrules a denial.
AfterHookAsk(h) == CASE h = "DENY" -> "DENY" [] h = "ASK" -> "ASK" [] OTHER -> verdict

\* A hook may lower the verdict and never raise it.
AfterHook(h) ==
    CASE h = "DENY" -> "DENY"
      [] h = "ASK" /\ verdict = "ALLOW" -> "ASK"
      [] OTHER -> verdict

\* The PreToolUse hooks answer; nothing is awaited up to the question.
Hook ==
    /\ pc = "hook"
    /\ \E h \in Hooks :
          LET v == AfterHook(h)
              how == Authorization(Call, v)
              recorded == v = "ASK" /\ ~Granted(Call) /\ OnRecord(Call)
          IN  /\ verdict' = v
              /\ Proceed(how, IF recorded THEN decided[ApprovalId(Call)] ELSE "none")
              /\ point' = PointAfter(how, point)
    /\ UNCHANGED <<thread, turn, preset, response, quota, decided, consents, crashes, ran>>

\* The user answers; the decision is stored before it takes effect.
Answer ==
    /\ pc = "asking"
    /\ \E d \in Decisions :
          /\ decided' = [a \in DOMAIN decided \cup {ApprovalId(Call)} |->
                           IF a = ApprovalId(Call) THEN d ELSE decided[a]]
          /\ consents' = IF d \in {"DENY_ONCE", "CANCEL_TURN"} THEN consents
                         ELSE consents \cup {[scope |-> d, thread |-> thread, turn |-> turn,
                                              id |-> Call.id, tool |-> Call.tool, arg |-> Call.arg]}
          /\ Proceed(Ruling(Call, d), d)
          /\ point' = PointAfter(Ruling(Call, d), "BEFORE_TOOL")
    /\ UNCHANGED <<thread, turn, preset, response, verdict, quota, crashes, ran>>

\* _run_child extends enabled_tools of a shallow copy of the agent's
\* definition: the list is the definition's own.
ChildStarts ==
    \E given \in SUBSET {t \in Remote : \E r \in Delegable : r.tool = t} :
        /\ delegated' = delegated \cup given
        /\ child' = [NoChild EXCEPT !.state = "model", !.given = given]

\* The executor returns or fails: a search loads the server's
\* schemas, a skill starts its execution, spawn_subagent a child.
Executed ==
    /\ pc = "executing"
    /\ Settle
    /\ point' = "AFTER_TOOL"
    /\ ran' = IF verdict = "ASK" THEN ran \cup {Call} ELSE ran
    /\ \/ UNCHANGED <<scopeVars, childVars>>
       \/ /\ Tool[Call.tool].kind = "search"
          /\ loaded' = loaded \cup {<<turn, t>> : t \in Remote}
          /\ UNCHANGED <<skills, childVars>>
       \/ /\ Tool[Call.tool].kind = "skill"
          /\ skills' = skills \cup {turn}
          /\ UNCHANGED <<loaded, childVars>>
       \/ /\ Tool[Call.tool].kind = "spawn" /\ child.state = "none"
          /\ ChildStarts
          /\ UNCHANGED scopeVars
    /\ UNCHANGED <<thread, turn, preset, response, verdict, quota, approvalVars, crashes>>

\* The final answer, or an error or a limit that ends the turn.  Nothing
\* reads its approvals again: their ids are the turn's.  Its tool messages
\* stay in the thread.
EndTurn ==
    /\ pc \in {"model", "call"}
    /\ Finally
    /\ point' = "TERMINAL"
    /\ response' = <<>> /\ todo' = {} /\ verdict' = "DENY"
    /\ decided' = <<>> /\ consumed' = {} /\ ran' = {}
    /\ consents' = Lasting
    /\ UNCHANGED <<thread, turn, preset, results, quota, crashes>>

\* The task is cancelled at an await; no checkpoint is written.
CancelTurn ==
    /\ pc \in {"model", "hook", "asking", "executing"}
    /\ Finally
    /\ point' = IF pc = "model" THEN "MODEL_IN_FLIGHT" ELSE point
    /\ UNCHANGED <<thread, turn, preset, response, todo, results, verdict, quota, decided,
                   consumed, consents, crashes, ran>>

-----------------------------------------------------------------------------
(* Subagent, MCP server and process.                                       *)

\* Its tool runtime has grants of its own, always empty, and a handler that
\* denies.
ChildMay(v) == v = "ALLOW"

\* It runs under the defaults of AgentLoop, and no rules.
ChildPreset == [sandbox |-> "workspace-write", policy |-> "on-request"]

\* Its request lists the schemas of enabled_tools; one its registry does not
\* hold ends the turn with an error.
ChildFails ==
    /\ child.state = "model"
    /\ ~(delegated \subseteq child.given)
    /\ child' = NoChild
    /\ UNCHANGED <<thread, turn, preset, pc, turnVars, approvalVars, scopeVars, delegated, crashes, ran>>

ChildCalls ==
    /\ child.state = "model"
    /\ delegated \subseteq child.given
    /\ \E r \in Delegable :
          /\ Path[r.arg] # "malformed"
          /\ r.tool \in Remote => r.tool \in child.given
          /\ ChildMay(Evaluate(r, Names, {}, ChildPreset))
          /\ child' = [child EXCEPT !.state = "executing", !.call = r]
    /\ UNCHANGED <<thread, turn, preset, pc, turnVars, approvalVars, scopeVars, delegated, crashes, ran>>

ChildReturns ==
    /\ child.state = "executing"
    /\ \E s \in {"model", "none"} : child' = IF s = "none" THEN NoChild ELSE [child EXCEPT !.state = s, !.call = NoChild.call]
    /\ UNCHANGED <<thread, turn, preset, pc, turnVars, approvalVars, scopeVars, delegated, crashes, ran>>

\* The process ends: the database and the rollout stay.
Crash ==
    /\ pc # "down"
    /\ crashes < MaxCrashes
    /\ crashes' = crashes + 1
    /\ pc' = "down"
    /\ consumed' = {} /\ grants' = {} /\ skills' = {} /\ loaded' = {}
    /\ delegated' = {} /\ child' = NoChild /\ ran' = {}
    /\ point' \in {point} \cup IF pc = "model" THEN {"MODEL_IN_FLIGHT"} ELSE {}
    /\ UNCHANGED <<thread, turn, preset, response, todo, results, verdict, quota, decided, consents>>

\* A tool in flight, and a turn that is over, are not continued.
Resume ==
    /\ pc = "down"
    /\ IF point \in {"AFTER_MODEL", "WAITING_APPROVAL", "BEFORE_TOOL", "AFTER_TOOL"}
       THEN /\ todo' = Remaining(response, results)
            /\ pc' = IF todo' = {} THEN "model" ELSE "call"
       ELSE /\ pc' = IF point \in {"BEFORE_MODEL", "MODEL_IN_FLIGHT"} THEN "model" ELSE "idle"
            /\ UNCHANGED todo
    /\ UNCHANGED <<thread, turn, preset, response, results, verdict, point, quota,
                   approvalVars, scopeVars, childVars, crashes, ran>>

Next ==
    \/ SetPreset \/ NewThread \/ StartTurn \/ ModelResponds \/ BeginCall \/ Hook
    \/ Answer \/ Executed \/ EndTurn \/ CancelTurn
    \/ ChildFails \/ ChildCalls \/ ChildReturns
    \/ Crash \/ Resume

Spec == Init /\ [][Next]_vars

-----------------------------------------------------------------------------
(* Properties.                                                             *)

CallType == [id : Ids, tool : Names, arg : DOMAIN Path]

\* Every variable has its type, and a call under way comes from the
\* response.
TypeOK ==
    /\ thread \in 1..Threads /\ turn \in 0..MaxTurns /\ preset \in Presets
    /\ pc \in {"idle", "model", "call", "hook", "asking", "executing", "down"}
    /\ ToSet(response) \subseteq CallType /\ Len(response) <= MaxCalls
    /\ pc \in {"call", "hook", "asking", "executing"} => todo # {} /\ todo \subseteq DOMAIN response
    /\ results \subseteq Ids
    /\ verdict \in Verdicts
    /\ \A k \in DOMAIN decided : decided[k] \in Decisions
    /\ \A g \in grants : g.thread \in 1..Threads /\ g.turn \in 0..MaxTurns
    /\ skills \subseteq 1..MaxTurns
    /\ loaded \subseteq (1..MaxTurns) \X Remote
    /\ delegated \subseteq Remote
    /\ child.state \in {"none", "model", "executing"}

\* A call whose verdict is ASK runs only on what the user said about this
\* very tool and argument: for this call, for this turn, or for this thread.
\* Neither another thread with the same turn numbers, nor a repeated call
\* id, nor the record of an earlier process stretches it.
Covers(k) ==
    /\ k.tool = Call.tool /\ k.arg = Call.arg /\ k.thread = thread
    /\ CASE k.scope = "ALLOW_ONCE" -> k.turn = turn /\ k.id = Call.id /\ Call \notin ran
         [] k.scope = "ALLOW_TURN" -> k.turn = turn
         [] k.scope = "ALLOW_THREAD" -> TRUE

ApprovalCovers == pc = "executing" /\ verdict = "ASK" => \E k \in consents : Covers(k)

\* No grant, approval or hook lets a call run outside the tools, capabilities
\* and paths of its agent.  A rule that denies it is overridden in one place
\* only, a protected path, about which the engine asks before it reads the
\* rules; and there by nothing but what the user said of this tool and argument.
BoundaryHolds ==
    pc = "executing" =>
        /\ Tool[Call.tool].able
        /\ OnPath(Call) # "denied"
        /\ Restricted => Call.tool \in SkillTools
        /\ (\E r \in Matching(Call) : r.decision = "DENY") =>
              OnPath(Call) = "protected" /\ \E k \in consents : Covers(k)

\* Whatever ends a turn, nothing of it is left for a later turn of the same
\* number in another thread: no turn grant, no skill scope, no schema.
TurnLeavesNothing ==
    pc = "idle" => skills = {} /\ loaded = {} /\ \A g \in grants : g.turn = 0

-----------------------------------------------------------------------------
(* What the documents say and the code does not do; each is false.          *)

\* Doc, stage 3, 5.4: no DENY is overridden by an ALLOW; 11.2: the rules that
\* deny are read before any that asks.  An approval, or a grant, lets a call on
\* a protected path run against a denying rule.
DenyIsFinal == pc = "executing" => \A r \in Matching(Call) : r.decision # "DENY"

\* Doc, stage 3, 5.5: a child only narrows what its parent may do.  It runs
\* under the defaults of the loop, not under the preset and the rules.
ChildNarrows ==
    child.state = "executing" =>
        Evaluate(child.call, Names, Matching(child.call), preset) # "DENY"

\* mcp/runtime.py: a child registers only an explicitly delegated subset.
\* The list it is enabled for is shared with the children before it.
DelegatedOnly == child.state = "model" => delegated \subseteq child.given

=============================================================================
