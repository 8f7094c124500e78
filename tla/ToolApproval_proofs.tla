--------------------------- MODULE ToolApproval_proofs ---------------------------
(***************************************************************************)
(* Proofs about ToolApproval, for any tools, paths, rules, presets, hooks  *)
(* and requests, and any number of threads, turns, calls and crashes.      *)
(*                                                                         *)
(* ScopeInv: while a turn runs, what is scoped to a turn is scoped to this *)
(* one, of this thread; otherwise there is nothing of the kind.            *)
(* VerdictInv: from the evaluation of a call to its end, a verdict that is *)
(* not a denial was given within the boundary of the call.                 *)
(* ConsentInv: decisions on record and grants are what the user said, and  *)
(* what has run on one of them is used up or granted; PlaceInv says which  *)
(* calls are still to run, here and after a restart.                       *)
(***************************************************************************)
EXTENDS ToolApproval, WellFoundedInduction, TLAPS

Resting == {"idle", "down"}

ScopeInv ==
    /\ pc \in Resting => skills = {} /\ loaded = {} /\ \A g \in grants : g.turn = 0
    /\ skills \subseteq {turn}
    /\ \A l \in loaded : l[1] = turn
    /\ \A g \in grants : g.turn = 0 \/ (g.thread = thread /\ g.turn = turn)

\* The verdict v lies within the boundary of the call c, and is a question on
\* a protected path, where alone a rule may deny the call.
Allowed(c, v) ==
    /\ Tool[c.tool].able
    /\ OnPath(c) # "denied"
    /\ Restricted => c.tool \in SkillTools
    /\ OnPath(c) = "protected" => v = "ASK"
    /\ \A r \in Matching(c) : r.decision = "DENY" => OnPath(c) = "protected"

VerdictInv ==
    /\ pc \in {"hook", "asking", "executing"} => (verdict # "DENY" => Allowed(Call, verdict))
    /\ pc \in {"asking", "executing"} => verdict # "DENY"

-----------------------------------------------------------------------------
(* Scopes.                                                                 *)

LEMMA Cleared ==
    ASSUME ScopeInv, ClearTurn
    PROVE  skills' = {} /\ loaded' = {} /\ \A g \in grants' : g.turn = 0
BY DEF ScopeInv, ClearTurn

LEMMA Ended ==
    ASSUME ScopeInv, Finally, UNCHANGED <<thread, turn>>
    PROVE  ScopeInv'
<1>1. skills' = {} /\ loaded' = {} /\ \A g \in grants' : g.turn = 0
    BY Cleared DEF Finally
<1> QED BY <1>1 DEF ScopeInv

\* A call of a running turn that runs, asks, is refused or cancels the turn.
LEMMA Proceeded ==
    ASSUME ScopeInv, pc \notin Resting, NEW how, NEW d, Proceed(how, d), UNCHANGED <<thread, turn>>
    PROVE  ScopeInv'
<1>1. CASE pc' = "executing" /\ grants' = grants \cup GrantFor(Call, d) /\ UNCHANGED <<skills, loaded>>
  <2>1. \A g \in GrantFor(Call, d) : g.turn = 0 \/ (g.thread = thread /\ g.turn = turn)
      BY DEF GrantFor, Key
  <2> QED BY <1>1, <2>1 DEF ScopeInv, Resting
<1>2. CASE pc' \notin Resting /\ UNCHANGED <<grants, skills, loaded>>
    BY <1>2 DEF ScopeInv
<1>3. CASE Finally
    BY <1>3, Ended
<1>4. Settle => pc' \notin Resting
    BY DEF Settle, Resting
<1> QED BY <1>1, <1>2, <1>3, <1>4 DEF Proceed, Resting

LEMMA ScopeStep == ScopeInv /\ [Next]_vars => ScopeInv'
<1> SUFFICES ASSUME ScopeInv, [Next]_vars PROVE ScopeInv'
    OBVIOUS
<1>1. CASE SetPreset
    BY <1>1 DEF SetPreset, ScopeInv, approvalVars, scopeVars
<1>2. CASE NewThread
    BY <1>2 DEF NewThread, ScopeInv, Resting, approvalVars, scopeVars
<1>3. CASE StartTurn
  <2>1. /\ skills' \subseteq {turn'} /\ loaded' = {} /\ \A g \in grants' : g.turn = 0
        /\ pc' = "model"
      BY <1>3 DEF StartTurn, ScopeInv, Resting
  <2> QED BY <2>1 DEF ScopeInv, Resting
<1>4. CASE ModelResponds
  <2>1. pc' \notin Resting /\ UNCHANGED <<thread, turn, grants, skills, loaded>>
      BY <1>4 DEF ModelResponds, Resting, approvalVars, scopeVars
  <2> QED BY <2>1 DEF ScopeInv
<1>5. CASE BeginCall
  <2>1. pc' \notin Resting /\ UNCHANGED <<thread, turn, grants, skills, loaded>>
      BY <1>5 DEF BeginCall, Settle, Resting, approvalVars, scopeVars
  <2> QED BY <2>1 DEF ScopeInv
<1>6. CASE Hook
  <2>1. pc \notin Resting /\ UNCHANGED <<thread, turn>> /\ \E how, d : Proceed(how, d)
      BY <1>6 DEF Hook, Resting
  <2> QED BY <2>1, Proceeded
<1>7. CASE Answer
  <2>1. pc \notin Resting /\ UNCHANGED <<thread, turn>> /\ \E how, d : Proceed(how, d)
      BY <1>7 DEF Answer, Resting
  <2> QED BY <2>1, Proceeded
<1>8. CASE Executed
  <2>1. /\ pc \notin Resting /\ pc' \notin Resting /\ UNCHANGED <<thread, turn, grants>>
        /\ skills' \subseteq skills \cup {turn}
        /\ \A l \in loaded' : l \in loaded \/ l[1] = turn
      BY <1>8 DEF Executed, Settle, Resting, approvalVars, scopeVars
  <2> QED BY <2>1 DEF ScopeInv
<1>9. CASE EndTurn
    BY <1>9, Ended DEF EndTurn
<1>10. CASE CancelTurn
    BY <1>10, Ended DEF CancelTurn
<1>11. CASE ChildFails \/ ChildCalls \/ ChildReturns
    BY <1>11 DEF ChildFails, ChildCalls, ChildReturns, ScopeInv, approvalVars, scopeVars
<1>12. CASE Crash
    BY <1>12 DEF Crash, ScopeInv
<1>13. CASE Resume
    BY <1>13 DEF Resume, ScopeInv, Resting, approvalVars, scopeVars
<1>14. CASE UNCHANGED vars
    BY <1>14 DEF vars, ScopeInv, approvalVars, scopeVars
<1> QED BY <1>1, <1>2, <1>3, <1>4, <1>5, <1>6, <1>7, <1>8, <1>9, <1>10, <1>11, <1>12, <1>13, <1>14
        DEF Next

\* Nothing of a turn is left when it is over, however it ended: by its answer,
\* an error, a cancellation, CANCEL_TURN or the end of the process
\* (runtime/run_manager.py, the finally clause of run_existing).
THEOREM NothingLeft == Spec => []TurnLeavesNothing
<1>1. Init => ScopeInv
    BY DEF Init, ScopeInv
<1>2. ScopeInv => TurnLeavesNothing
    BY DEF ScopeInv, TurnLeavesNothing, Resting
<1> QED BY <1>1, <1>2, ScopeStep, PTL DEF Spec

-----------------------------------------------------------------------------
(* Verdicts.                                                               *)

\* One denying rule is enough, whatever the others say.
LEMMA OneDenies ==
    ASSUME NEW rules, NEW r \in rules, r.decision = "DENY"
    PROVE  Strongest(rules) = "DENY"
<1> DEFINE P(d) == /\ \E x \in rules : x.decision = d
                   /\ d = "ASK" => \A x \in rules : x.decision # "DENY"
                   /\ d = "ALLOW" => \A x \in rules : x.decision = "ALLOW"
<1>1. "DENY" \in Verdicts /\ P("DENY")
    BY DEF Verdicts
<1>2. Strongest(rules) = CHOOSE d \in Verdicts : P(d)
    BY DEF Strongest
<1> HIDE DEF P
<1>3. Strongest(rules) \in Verdicts /\ P(Strongest(rules))
    BY <1>1, <1>2
<1>4. ~P("ASK") /\ ~P("ALLOW")
    BY DEF P
<1> QED BY <1>3, <1>4 DEF Verdicts

\* What the engine does not deny is within the boundary of the call.
LEMMA EvaluateAllowed ==
    ASSUME NEW c, NEW p, Evaluate(c, Effective, Matching(c), p) # "DENY"
    PROVE  Allowed(c, Evaluate(c, Effective, Matching(c), p))
<1>1. Boundary(c, Effective)
    BY DEF Evaluate
<1>2. Restricted => c.tool \in SkillTools
    BY <1>1 DEF Boundary, Effective
<1>4. OnPath(c) = "protected" => Evaluate(c, Effective, Matching(c), p) = "ASK"
    BY <1>1 DEF Evaluate
<1>3. ASSUME NEW r \in Matching(c), r.decision = "DENY", OnPath(c) # "protected"
      PROVE  FALSE
  <2>1. Evaluate(c, Effective, Matching(c), p) = Strongest(Matching(c))
      BY <1>1, <1>3 DEF Evaluate
  <2>2. Strongest(Matching(c)) = "DENY"
      BY <1>3, OneDenies
  <2> QED BY <2>1, <2>2
<1> QED BY <1>1, <1>2, <1>3, <1>4 DEF Allowed, Boundary

\* Only a verdict that is no denial leads to a question or to the executor.
LEMMA NeverOnDenial ==
    ASSUME NEW c, NEW v, Authorization(c, v) \in {"run", "ask"}
    PROVE  v # "DENY"
BY DEF Authorization

\* The call stays the same through the hooks, the question and the executor,
\* and so do the tools, the rules and the skills that bound it.
LEMMA VerdictProceeds ==
    ASSUME NEW how, NEW d, Proceed(how, d), UNCHANGED <<turn, response>>,
           how \in {"run", "ask"} => verdict' # "DENY" /\ Allowed(Call, verdict')
    PROVE  VerdictInv'
<1>1. CASE pc' \in {"asking", "executing"}
  <2>1. how \in {"run", "ask"} /\ UNCHANGED <<todo, skills>>
      BY <1>1 DEF Proceed, Settle, Finally
  <2>2. Call' = Call /\ Matching(Call)' = Matching(Call) /\ OnPath(Call)' = OnPath(Call)
      BY <2>1 DEF Call, Current, Matching, OnPath
  <2> QED BY <2>1, <2>2 DEF VerdictInv, Allowed, Restricted
<1>2. CASE pc' \notin {"hook", "asking", "executing"}
    BY <1>2 DEF VerdictInv
<1>3. pc' # "hook"
    BY DEF Proceed, Settle, Finally
<1> QED BY <1>1, <1>2, <1>3

LEMMA VerdictSame ==
    ASSUME VerdictInv, UNCHANGED <<pc, response, todo, turn, skills, verdict>>
    PROVE  VerdictInv'
<1>1. Call' = Call /\ Matching(Call)' = Matching(Call) /\ OnPath(Call)' = OnPath(Call)
    BY DEF Call, Current, Matching, OnPath
<1> QED BY <1>1 DEF VerdictInv, Allowed, Restricted

LEMMA VerdictStep == VerdictInv /\ [Next]_vars => VerdictInv'
<1> SUFFICES ASSUME VerdictInv, [Next]_vars PROVE VerdictInv'
    OBVIOUS
<1>1. CASE pc' \in {"idle", "model", "call", "down"}
    BY <1>1 DEF VerdictInv
<1>2. CASE SetPreset \/ NewThread \/ StartTurn \/ ModelResponds
  <2>1. pc' \in {"idle", "model", "call"}
      BY <1>2 DEF SetPreset, NewThread, StartTurn, ModelResponds
  <2> QED BY <1>1, <2>1
<1>3. CASE BeginCall
  <2>1. CASE Raises
    <3>1. pc' \in {"model", "call"}
        BY <1>3, <2>1 DEF BeginCall, Settle
    <3> QED BY <1>1, <3>1
  <2>2. CASE ~Raises
    <3>1. /\ pc' = "hook" /\ UNCHANGED <<response, todo, turn, skills>>
          /\ verdict' = Evaluate(Call, Effective, Matching(Call), preset)
        BY <1>3, <2>2 DEF BeginCall, scopeVars
    <3>2. verdict' # "DENY" => Allowed(Call, verdict')
        BY <3>1, EvaluateAllowed
    <3>3. Call' = Call /\ Matching(Call)' = Matching(Call) /\ OnPath(Call)' = OnPath(Call)
        BY <3>1 DEF Call, Current, Matching, OnPath
    <3> QED BY <3>1, <3>2, <3>3 DEF VerdictInv, Allowed, Restricted
  <2> QED BY <2>1, <2>2
<1>4. CASE Hook
  <2>1. PICK h \in Hooks :
          LET v == AfterHook(h)
              how == Authorization(Call, v)
              recorded == v = "ASK" /\ ~Granted(Call) /\ OnRecord(Call)
          IN  /\ verdict' = v
              /\ Proceed(how, IF recorded THEN decided[ApprovalId(Call)] ELSE "none")
      BY <1>4 DEF Hook
  <2>2. PICK how, d : how = Authorization(Call, AfterHook(h)) /\ Proceed(how, d)
      BY <2>1
  <2>3. how \in {"run", "ask"} => verdict' # "DENY"
      BY <2>1, <2>2, NeverOnDenial
  <2>4. AfterHook(h) # "DENY" => verdict # "DENY" /\ (verdict = "ASK" => AfterHook(h) = "ASK")
      BY DEF AfterHook
  <2>5. pc = "hook" /\ UNCHANGED <<turn, response>>
      BY <1>4 DEF Hook
  <2>6. how \in {"run", "ask"} => Allowed(Call, verdict')
      BY <2>1, <2>3, <2>4, <2>5 DEF VerdictInv, Allowed
  <2> QED BY <2>2, <2>3, <2>5, <2>6, VerdictProceeds
<1>5. CASE Answer
  <2>1. PICK how, d : Proceed(how, d)
      BY <1>5 DEF Answer
  <2>2. pc = "asking" /\ UNCHANGED <<turn, response, verdict>>
      BY <1>5 DEF Answer
  <2>3. verdict' # "DENY" /\ Allowed(Call, verdict')
      BY <2>2 DEF VerdictInv
  <2> QED BY <2>1, <2>2, <2>3, VerdictProceeds
<1>6. CASE Executed \/ EndTurn \/ CancelTurn \/ Crash \/ Resume
  <2>1. pc' \in {"idle", "model", "call", "down"}
      BY <1>6 DEF Executed, Settle, EndTurn, CancelTurn, Finally, Crash, Resume
  <2> QED BY <1>1, <2>1
<1>7. CASE ChildFails \/ ChildCalls \/ ChildReturns
    BY <1>7, VerdictSame DEF ChildFails, ChildCalls, ChildReturns, turnVars, scopeVars
<1>8. CASE UNCHANGED vars
    BY <1>8, VerdictSame DEF vars, turnVars, scopeVars
<1> QED BY <1>2, <1>3, <1>4, <1>5, <1>6, <1>7, <1>8 DEF Next

-----------------------------------------------------------------------------
(* Consents.                                                               *)

Running == {"call", "hook", "asking", "executing"}
Allows == {"ALLOW_ONCE", "ALLOW_TURN", "ALLOW_THREAD"}
Settled(i) == response[i].id \in results
AtModel == {"BEFORE_MODEL", "MODEL_IN_FLIGHT"}

\* Where the turn is, what of its response is left, and what a restart goes on
\* with: a call is settled or to be run, and before a model request all are
\* settled.
PlaceInv ==
    /\ turn \in Nat
    /\ DOMAIN response \subseteq Nat
    /\ todo \subseteq DOMAIN response
    /\ pc \in Running => todo # {}
    /\ pc = "model" => todo = {}
    /\ pc \notin Resting => \A i \in DOMAIN response : Settled(i) \/ i \in todo
    /\ point \in AtModel => todo = {} /\ \A i \in DOMAIN response : Settled(i)
    /\ turn = 0 => point = "TERMINAL"
    /\ pc \notin Resting => point # "TERMINAL"

\* The consent k allows what was decided about the call c.
Said(k, d, c) ==
    /\ k.scope = d /\ k.thread = thread /\ k.turn = turn
    /\ k.id = c.id /\ k.tool = c.tool /\ k.arg = c.arg

\* Every allowing decision on record stands for a consent about each call it
\* can still be found for.
RecordInv ==
    /\ \A i, j \in DOMAIN response :
          response[i].id = response[j].id => response[i].tool = response[j].tool /\ response[i].arg = response[j].arg
    /\ point # "TERMINAL" =>
          \A a \in DOMAIN decided :
              /\ decided[a] \in Decisions
              /\ a.id \in results \/ \E i \in DOMAIN response : response[i].id = a.id
              /\ decided[a] \in Allows =>
                    \A i \in DOMAIN response :
                        (~Settled(i) \/ i \in todo) /\ ApprovalId(response[i]) = a =>
                            \E k \in consents : Said(k, decided[a], response[i])

\* Every grant was said.
Backs(k, g) ==
    /\ k.tool = g.tool /\ k.arg = g.arg /\ k.thread = g.thread
    /\ g.turn = 0 => k.scope = "ALLOW_THREAD"
    /\ g.turn # 0 => k.scope = "ALLOW_TURN" /\ k.turn = g.turn
GrantInv == \A g \in grants : \E k \in consents : Backs(k, g)

\* What an asked-for call ran on is used up or a grant.
RanInv ==
    /\ pc \notin Resting => \A c \in ran : ApprovalId(c) \in consumed \/ Granted(c)
    /\ pc = "down" => ran = {}

\* A question is asked only where there is no grant; what runs was said, and
\* is used up or granted from then on.
ExecInv ==
    /\ pc = "asking" => ~Granted(Call)
    /\ pc = "executing" /\ verdict = "ASK" =>
          /\ ApprovalId(Call) \in consumed \/ Granted(Call)
          /\ \E k \in consents : Covers(k)

ConsentInv == ScopeInv /\ PlaceInv /\ RecordInv /\ GrantInv /\ RanInv /\ ExecInv

-----------------------------------------------------------------------------
(* The current call.                                                       *)

LEMMA LeastExists ==
    ASSUME NEW S \in SUBSET Nat, S # {}
    PROVE  \E x \in S : \A y \in S : x <= y
<1> DEFINE R == OpToRel(<, Nat)
<1>1. IsWellFoundedOn(R, Nat) /\ S \subseteq Nat
    BY NatLessThanWellFounded, Zenon
<1>2. \A x, y \in Nat : <<y, x>> \notin R => x <= y
    BY DEF OpToRel
<1> HIDE DEF R
<1>3. \E x \in S : \A y \in S : <<y, x>> \notin R
    BY <1>1, WFMin, Zenon
<1> QED BY <1>2, <1>3

LEMMA CurrentIsNext ==
    ASSUME PlaceInv, pc \in Running
    PROVE  Current \in todo /\ Current \in DOMAIN response
<1>1. todo \in SUBSET Nat /\ todo # {} /\ todo \subseteq DOMAIN response
    BY DEF PlaceInv
<1>2. \E i \in todo : \A j \in todo : i <= j
    BY <1>1, LeastExists
<1> QED BY <1>1, <1>2 DEF Current

-----------------------------------------------------------------------------
(* Places.                                                                 *)

\* The parts of PlaceInv that do not depend on the place in the turn.
LEMMA PlaceUnchanged ==
    ASSUME PlaceInv, UNCHANGED <<turn, pc, response, todo, results, point>>
    PROVE  PlaceInv'
BY DEF PlaceInv, Settled

\* A refused call, and one that returned.
LEMMA SettlePlace ==
    ASSUME PlaceInv, pc \in Running, Settle, UNCHANGED <<turn, response>>, point' = "AFTER_TOOL"
    PROVE  PlaceInv'
<1>1. Current \in todo /\ todo' = todo \ {Current} /\ results' = results \cup {Call.id}
    BY CurrentIsNext DEF Settle
<1>2. pc' = (IF todo' = {} THEN "model" ELSE "call") /\ pc \notin Resting
    BY DEF Settle, Running, Resting
<1>3. \A i \in DOMAIN response' : Settled(i)' \/ i \in todo'
  <2>1. \A i \in DOMAIN response : Settled(i) \/ i \in todo
      BY <1>2 DEF PlaceInv
  <2>2. \A i \in DOMAIN response : Settled(i) => Settled(i)'
      BY <1>1 DEF Settled
  <2>3. \A i \in DOMAIN response : i = Current => Settled(i)'
      BY <1>1 DEF Settled, Call
  <2> QED BY <1>1, <2>1, <2>2, <2>3
<1>4. turn' # 0
    BY <1>2 DEF PlaceInv
<1> QED BY <1>1, <1>2, <1>3, <1>4 DEF PlaceInv, Running, Resting, AtModel

LEMMA ProceedPlace ==
    ASSUME PlaceInv, pc \in Running, NEW how, NEW d, NEW here, Proceed(how, d), UNCHANGED <<turn, response>>,
           point' = PointAfter(how, here), here \notin AtModel \cup {"TERMINAL"}
    PROVE  PlaceInv'
<1>1. CASE how = "refuse"
  <2>1. Settle /\ point' = "AFTER_TOOL"
      BY <1>1 DEF Proceed, PointAfter
  <2> QED BY <2>1, SettlePlace
<1>2. CASE how # "refuse"
  <2>1. pc' \in Running \cup {"idle"} /\ UNCHANGED <<todo, results>>
      BY <1>2 DEF Proceed, Finally, Running
  <2>2. point' \notin AtModel \cup {"TERMINAL"}
      BY <1>2 DEF PointAfter, AtModel
  <2>3. \A i \in DOMAIN response : Settled(i)' <=> Settled(i)
      BY <2>1 DEF Settled
  <2>4. pc \notin Resting /\ turn # 0
      BY DEF PlaceInv, Running, Resting
  <2>5. pc' # "model"
      BY <2>1 DEF Running
  <2> QED BY <2>1, <2>2, <2>3, <2>4, <2>5 DEF PlaceInv
<1> QED BY <1>1, <1>2

\* While a call runs, the last checkpoint is not one before a request.
LEMMA RunningPoint ==
    ASSUME PlaceInv, pc \in Running
    PROVE  pc \notin Resting /\ point \notin AtModel \cup {"TERMINAL"} /\ turn # 0
BY DEF PlaceInv, Running, Resting

LEMMA PlaceStep == ApprovalAssumption /\ PlaceInv /\ [Next]_vars => PlaceInv'
<1> SUFFICES ASSUME ApprovalAssumption, PlaceInv, [Next]_vars PROVE PlaceInv'
    OBVIOUS
<1>1. CASE SetPreset \/ ChildFails \/ ChildCalls \/ ChildReturns \/ UNCHANGED vars
  <2>1. UNCHANGED <<turn, pc, response, todo, results, point>>
      BY <1>1 DEF SetPreset, ChildFails, ChildCalls, ChildReturns, vars, turnVars
  <2> QED BY <2>1, PlaceUnchanged
<1>2. CASE NewThread
    BY <1>2 DEF NewThread, PlaceInv, Running, Resting, AtModel
<1>3. CASE StartTurn
  <2>1. /\ turn' = turn + 1 /\ pc' = "model" /\ response' = <<>> /\ todo' = {} /\ point' = "BEFORE_MODEL"
      BY <1>3 DEF StartTurn
  <2>2. DOMAIN response' = {} /\ turn' \in Nat /\ turn' # 0
      BY <2>1 DEF PlaceInv
  <2> QED BY <2>1, <2>2 DEF PlaceInv, Running, Resting
<1>4. CASE ModelResponds
  <2>1. PICK n \in {k \in 1..MaxCalls : k <= quota} : \E rs \in [1..n -> Requests], ids \in [1..n -> Ids] :
            /\ \A i \in 1..n : ids[i] <= 1 + Cardinality(results \cup {ids[j] : j \in 1..(i - 1)})
            /\ MixedIds \/ \A i, j \in 1..n : ids[i] = ids[j] => rs[i] = rs[j]
            /\ quota' = quota - n
            /\ response' = [i \in 1..n |-> [id |-> ids[i], tool |-> rs[i].tool, arg |-> rs[i].arg]]
      BY <1>4, Zenon DEF ModelResponds
  <2>2. DOMAIN response' \subseteq Nat
    <3>1. PICK rs \in [1..n -> Requests], ids \in [1..n -> Ids] :
              response' = [i \in 1..n |-> [id |-> ids[i], tool |-> rs[i].tool, arg |-> rs[i].arg]]
        BY <2>1, Zenon
    <3>2. DOMAIN response' = 1..n
        BY <3>1
    <3> QED BY <3>2
  <2>3. /\ todo' = Remaining(response', results)
        /\ pc' = IF todo' = {} THEN "model" ELSE "call"
        /\ point' = "AFTER_MODEL" /\ turn' = turn /\ results' = results
      BY <1>4 DEF ModelResponds
  <2>4. todo' \subseteq DOMAIN response' /\ \A i \in DOMAIN response' : Settled(i)' \/ i \in todo'
      BY <2>3 DEF Remaining, Settled
  <2>5. turn # 0
      BY <1>4 DEF PlaceInv, ModelResponds, Resting
  <2> QED BY <2>2, <2>3, <2>4, <2>5 DEF PlaceInv, Running, Resting, AtModel
<1>5. CASE BeginCall
  <2>1. pc \in Running /\ UNCHANGED <<turn, response>>
      BY <1>5 DEF BeginCall, Running
  <2>2. CASE Raises
      BY <1>5, <2>1, <2>2, SettlePlace DEF BeginCall
  <2>3. CASE ~Raises
    <3>1. pc' = "hook" /\ point' = "TOOL_IN_FLIGHT" /\ UNCHANGED <<todo, results>>
        BY <1>5, <2>3 DEF BeginCall
    <3>2. \A i \in DOMAIN response : Settled(i)' <=> Settled(i)
        BY <2>1, <3>1 DEF Settled
    <3> QED BY <2>1, <3>1, <3>2, RunningPoint DEF PlaceInv, Running, Resting, AtModel
  <2> QED BY <2>2, <2>3
<1>6. CASE Hook
  <2>1. pc \in Running /\ UNCHANGED <<turn, response>>
      BY <1>6 DEF Hook, Running
  <2>2. \E how, d : Proceed(how, d) /\ point' = PointAfter(how, point)
      BY <1>6 DEF Hook
  <2> QED BY <2>1, <2>2, RunningPoint, ProceedPlace
<1>7. CASE Answer
  <2>1. pc \in Running /\ UNCHANGED <<turn, response>>
      BY <1>7 DEF Answer, Running
  <2>2. \E how, d : Proceed(how, d) /\ point' = PointAfter(how, "BEFORE_TOOL")
      BY <1>7 DEF Answer
  <2>3. "BEFORE_TOOL" \notin AtModel \cup {"TERMINAL"}
      BY DEF AtModel
  <2> QED BY <2>1, <2>2, <2>3, ProceedPlace
<1>8. CASE Executed
    BY <1>8, SettlePlace DEF Executed, Running
<1>9. CASE EndTurn
  <2>1. pc' = "idle" /\ response' = <<>> /\ todo' = {} /\ point' = "TERMINAL" /\ turn' = turn
      BY <1>9 DEF EndTurn, Finally
  <2> QED BY <2>1 DEF PlaceInv, Running, Resting, AtModel
<1>10. CASE CancelTurn
  <2>1. /\ pc' = "idle" /\ UNCHANGED <<turn, response, todo, results>>
        /\ point' = IF pc = "model" THEN "MODEL_IN_FLIGHT" ELSE point
        /\ pc \notin Resting
      BY <1>10 DEF CancelTurn, Finally, Resting
  <2>2. \A i \in DOMAIN response : Settled(i)' <=> Settled(i)
      BY <2>1 DEF Settled
  <2> QED BY <2>1, <2>2 DEF PlaceInv, Running, Resting, AtModel
<1>11. CASE Crash
  <2>1. /\ pc' = "down" /\ UNCHANGED <<turn, response, todo, results>>
        /\ point' = point \/ (pc = "model" /\ point' = "MODEL_IN_FLIGHT")
      BY <1>11 DEF Crash
  <2>2. \A i \in DOMAIN response : Settled(i)' <=> Settled(i)
      BY <2>1 DEF Settled
  <2> QED BY <2>1, <2>2 DEF PlaceInv, Running, Resting, AtModel
<1>12. CASE Resume
  <2>1. UNCHANGED <<turn, response, results, point>>
      BY <1>12 DEF Resume
  <2>2. \A i \in DOMAIN response : Settled(i)' <=> Settled(i)
      BY <2>1 DEF Settled
  <2>3. CASE point \in {"AFTER_MODEL", "WAITING_APPROVAL", "BEFORE_TOOL", "AFTER_TOOL"}
    <3>1. todo' = Remaining(response, results) /\ pc' = IF todo' = {} THEN "model" ELSE "call"
        BY <1>12, <2>3 DEF Resume
    <3>2. todo' \subseteq DOMAIN response /\ \A i \in DOMAIN response : Settled(i) \/ i \in todo'
        BY <3>1 DEF Remaining, Settled
    <3> QED BY <2>1, <2>2, <2>3, <3>1, <3>2 DEF PlaceInv, Running, Resting, AtModel
  <2>4. CASE point \notin {"AFTER_MODEL", "WAITING_APPROVAL", "BEFORE_TOOL", "AFTER_TOOL"}
    <3>1. todo' = todo /\ pc' = IF point \in AtModel THEN "model" ELSE "idle"
        BY <1>12, <2>4 DEF Resume, AtModel
    <3> QED BY <2>1, <2>2, <3>1 DEF PlaceInv, Running, Resting, AtModel
  <2> QED BY <2>3, <2>4
<1> QED BY <1>1, <1>2, <1>3, <1>4, <1>5, <1>6, <1>7, <1>8, <1>9, <1>10, <1>11, <1>12 DEF Next

-----------------------------------------------------------------------------
(* Decisions on record.                                                    *)

LEMMA ProceedShrinks ==
    ASSUME NEW how, NEW d, Proceed(how, d)
    PROVE  todo' \subseteq todo /\ results \subseteq results' /\ pc' # "down"
BY DEF Proceed, Settle, Finally

\* No decision is made, no call is asked for, no consent is forgotten.
LEMMA RecordKept ==
    ASSUME RecordInv, UNCHANGED <<response, decided, thread, turn>>,
           consents \subseteq consents', results \subseteq results',
           \A i \in DOMAIN response : i \in todo' => ~Settled(i) \/ i \in todo,
           point' # "TERMINAL" => point # "TERMINAL"
    PROVE  RecordInv'
<1>1. \A i \in DOMAIN response : ~Settled(i)' \/ i \in todo' => ~Settled(i) \/ i \in todo
    BY DEF Settled
<1>2. \A k, d, c : Said(k, d, c)' <=> Said(k, d, c)
    BY DEF Said
<1>3. \A i \in DOMAIN response : ApprovalId(response[i])' = ApprovalId(response[i])
    BY DEF ApprovalId
<1> QED BY <1>1, <1>2, <1>3 DEF RecordInv

LEMMA RecordForgotten ==
    ASSUME RecordInv, point' = "TERMINAL", response' \in {response, <<>>}
    PROVE  RecordInv'
BY DEF RecordInv

\* The decision about the current call is what the user said of it.
LEMMA OnRecordSaid ==
    ASSUME PlaceInv, RecordInv, pc \in Running, OnRecord(Call), decided[ApprovalId(Call)] \in Allows
    PROVE  \E k \in consents : Said(k, decided[ApprovalId(Call)], Call)
<1>1. Current \in todo /\ Current \in DOMAIN response /\ point # "TERMINAL"
    BY CurrentIsNext, RunningPoint
<1> QED BY <1>1 DEF RecordInv, OnRecord, Call

\* The answer about the current call, and what it stands for.
LEMMA AnswerSaid ==
    ASSUME NEW d \in Decisions,
           consents' = IF d \in {"DENY_ONCE", "CANCEL_TURN"} THEN consents
                       ELSE consents \cup {[scope |-> d, thread |-> thread, turn |-> turn,
                                            id |-> Call.id, tool |-> Call.tool, arg |-> Call.arg]}
    PROVE  /\ consents \subseteq consents'
           /\ d \in Allows => \E k \in consents' : Said(k, d, Call)
<1>1. consents \subseteq consents'
    OBVIOUS
<1>2. ASSUME d \in Allows
      PROVE  \E k \in consents' : Said(k, d, Call)
  <2> DEFINE k == [scope |-> d, thread |-> thread, turn |-> turn,
                   id |-> Call.id, tool |-> Call.tool, arg |-> Call.arg]
  <2>1. k \in consents'
      BY <1>2 DEF Allows
  <2>2. Said(k, d, Call)
      BY DEF Said
  <2> QED BY <2>1, <2>2
<1> QED BY <1>1, <1>2

LEMMA RecordStep ==
    ApprovalAssumption /\ ~MixedIds /\ PlaceInv /\ RecordInv /\ [Next]_vars => RecordInv'
<1> SUFFICES ASSUME ApprovalAssumption, ~MixedIds, PlaceInv, RecordInv, [Next]_vars PROVE RecordInv'
    OBVIOUS
<1>1. CASE SetPreset \/ ChildFails \/ ChildCalls \/ ChildReturns \/ UNCHANGED vars
  <2>1. UNCHANGED <<response, decided, thread, turn, consents, results, todo, point>>
      BY <1>1 DEF SetPreset, ChildFails, ChildCalls, ChildReturns, vars, turnVars, approvalVars
  <2> QED BY <2>1, RecordKept
<1>2. CASE NewThread
    BY <1>2, RecordForgotten DEF NewThread
<1>3. CASE StartTurn
  <2>1. response' = <<>> /\ decided' = <<>>
      BY <1>3 DEF StartTurn
  <2>2. DOMAIN response' = {} /\ DOMAIN decided' = {}
      BY <2>1
  <2> QED BY <2>2 DEF RecordInv
<1>4. CASE ModelResponds
  <2>1. PICK n \in {k \in 1..MaxCalls : k <= quota} : \E rs \in [1..n -> Requests], ids \in [1..n -> Ids] :
            /\ \A i \in 1..n : ids[i] <= 1 + Cardinality(results \cup {ids[j] : j \in 1..(i - 1)})
            /\ MixedIds \/ \A i, j \in 1..n : ids[i] = ids[j] => rs[i] = rs[j]
            /\ quota' = quota - n
            /\ response' = [i \in 1..n |-> [id |-> ids[i], tool |-> rs[i].tool, arg |-> rs[i].arg]]
      BY <1>4, Zenon DEF ModelResponds
  <2>2. PICK rs \in [1..n -> Requests], ids \in [1..n -> Ids] :
            /\ \A i, j \in 1..n : ids[i] = ids[j] => rs[i] = rs[j]
            /\ response' = [i \in 1..n |-> [id |-> ids[i], tool |-> rs[i].tool, arg |-> rs[i].arg]]
      BY <2>1, Zenon
  <2>3. \A i, j \in DOMAIN response' :
            response'[i].id = response'[j].id =>
                response'[i].tool = response'[j].tool /\ response'[i].arg = response'[j].arg
      BY <2>2
  <2>4. /\ pc = "model" /\ todo' = Remaining(response', results)
        /\ UNCHANGED <<results, decided>>
      BY <1>4 DEF ModelResponds, approvalVars
  <2>5. \A i \in DOMAIN response : Settled(i)
      BY <2>4 DEF PlaceInv, Resting
  <2>6. point # "TERMINAL"
      BY <2>4 DEF PlaceInv, Resting
  <2>7. \A a \in DOMAIN decided : decided[a] \in Decisions /\ a.id \in results
      BY <2>5, <2>6 DEF RecordInv, Settled
  <2>8. \A i \in DOMAIN response' : ~Settled(i)' \/ i \in todo' => response'[i].id \notin results
      BY <2>4 DEF Remaining, Settled
  <2>9. \A i \in DOMAIN response' : ApprovalId(response[i])' = [id |-> response'[i].id, arg |-> response'[i].arg]
      BY DEF ApprovalId
  <2>10. \A a \in DOMAIN decided, i \in DOMAIN response' :
             ~((~Settled(i)' \/ i \in todo') /\ ApprovalId(response[i])' = a)
      BY <2>7, <2>8, <2>9
  <2> QED BY <2>3, <2>4, <2>7, <2>10 DEF RecordInv
<1>5. CASE BeginCall
  <2>1. pc \in Running /\ UNCHANGED <<response, decided, thread, turn, consents>>
      BY <1>5 DEF BeginCall, approvalVars, Running
  <2>2. todo' \subseteq todo /\ results \subseteq results'
      BY <1>5 DEF BeginCall, Settle
  <2> QED BY <2>1, <2>2, RunningPoint, RecordKept
<1>6. CASE Hook
  <2>1. pc \in Running /\ UNCHANGED <<response, decided, thread, turn, consents>>
      BY <1>6 DEF Hook, Running
  <2>2. todo' \subseteq todo /\ results \subseteq results'
      BY <1>6, ProceedShrinks DEF Hook
  <2> QED BY <2>1, <2>2, RunningPoint, RecordKept
<1>7. CASE Answer
  <2>1. pc \in Running /\ UNCHANGED <<response, thread, turn>>
      BY <1>7 DEF Answer, Running
  <2>2. PICK d \in Decisions :
          /\ decided' = [a \in DOMAIN decided \cup {ApprovalId(Call)} |->
                           IF a = ApprovalId(Call) THEN d ELSE decided[a]]
          /\ consents' = IF d \in {"DENY_ONCE", "CANCEL_TURN"} THEN consents
                         ELSE consents \cup {[scope |-> d, thread |-> thread, turn |-> turn,
                                              id |-> Call.id, tool |-> Call.tool, arg |-> Call.arg]}
          /\ Proceed(Ruling(Call, d), d)
      BY <1>7 DEF Answer
  <2>3. consents \subseteq consents' /\ (d \in Allows => \E k \in consents' : Said(k, d, Call))
      BY <2>2, AnswerSaid
  <2>4. todo' \subseteq todo /\ results \subseteq results'
      BY <2>2, ProceedShrinks
  <2> DEFINE a0 == ApprovalId(Call)
  <2>5. /\ DOMAIN decided' = {a0} \cup DOMAIN decided
        /\ decided'[a0] = d
        /\ \A a \in DOMAIN decided : a # a0 => decided'[a] = decided[a]
      BY <2>2
  <2>6. Current \in DOMAIN response /\ point # "TERMINAL" /\ a0.id = response[Current].id
      BY <2>1, CurrentIsNext, RunningPoint DEF ApprovalId, Call
  <2>7. \A i \in DOMAIN response : ApprovalId(response[i]) = a0 =>
            response[i].id = Call.id /\ response[i].arg = Call.arg /\ response[i].tool = Call.tool
      BY <2>6 DEF ApprovalId, Call, RecordInv
  <2>8. \A k, e, c : Said(k, e, c)' <=> Said(k, e, c)
      BY <2>1 DEF Said
  <2>9. d \in Allows => \A i \in DOMAIN response : ApprovalId(response[i]) = a0 =>
            \E k \in consents' : Said(k, d, response[i])
      BY <2>3, <2>7 DEF Said
  <2>10. \A i \in DOMAIN response : ~Settled(i)' \/ i \in todo' => ~Settled(i) \/ i \in todo
      BY <2>1, <2>4 DEF Settled
  <2>11. \A i \in DOMAIN response : ApprovalId(response[i])' = ApprovalId(response[i])
      BY <2>1 DEF ApprovalId
  <2> HIDE DEF a0
  <2>12. ASSUME NEW a \in DOMAIN decided'
         PROVE  /\ decided'[a] \in Decisions
                /\ a.id \in results' \/ \E i \in DOMAIN response : response[i].id = a.id
                /\ decided'[a] \in Allows =>
                      \A i \in DOMAIN response :
                          (~Settled(i)' \/ i \in todo') /\ ApprovalId(response[i]) = a =>
                              \E k \in consents' : Said(k, decided'[a], response[i])
    <3>1. CASE a = a0
        BY <2>5, <2>6, <2>9, <3>1
    <3>2. CASE a # a0
      <4>1. a \in DOMAIN decided /\ decided'[a] = decided[a]
          BY <2>5, <3>2
      <4> QED BY <2>3, <2>4, <2>6, <2>10, <4>1 DEF RecordInv
    <3> QED BY <3>1, <3>2
  <2> QED BY <2>1, <2>8, <2>11, <2>12 DEF RecordInv
<1>8. CASE Executed
  <2>1. pc \in Running /\ UNCHANGED <<response, decided, thread, turn, consents>>
      BY <1>8 DEF Executed, approvalVars, Running
  <2>2. todo' \subseteq todo /\ results \subseteq results'
      BY <1>8 DEF Executed, Settle
  <2> QED BY <2>1, <2>2, RunningPoint, RecordKept
<1>9. CASE EndTurn
    BY <1>9, RecordForgotten DEF EndTurn
<1>10. CASE CancelTurn
  <2>1. point' # "TERMINAL" => point # "TERMINAL"
      BY <1>10 DEF CancelTurn, PlaceInv, Resting
  <2> QED BY <1>10, <2>1, RecordKept DEF CancelTurn
<1>11. CASE Crash
  <2>1. point' # "TERMINAL" => point # "TERMINAL"
      BY <1>11 DEF Crash, PlaceInv, Resting
  <2> QED BY <1>11, <2>1, RecordKept DEF Crash
<1>12. CASE Resume
  <2>1. \A i \in DOMAIN response : i \in todo' => ~Settled(i) \/ i \in todo
      BY <1>12 DEF Resume, Remaining, Settled
  <2> QED BY <1>12, <2>1, RecordKept DEF Resume, approvalVars
<1> QED BY <1>1, <1>2, <1>3, <1>4, <1>5, <1>6, <1>7, <1>8, <1>9, <1>10, <1>11, <1>12 DEF Next

-----------------------------------------------------------------------------
(* Grants.                                                                 *)

LEMMA GrantKept ==
    ASSUME GrantInv, grants' \subseteq grants, consents \subseteq consents'
    PROVE  GrantInv'
BY DEF GrantInv, Backs

\* Where a turn begins or is over, only thread grants are left, and what the
\* user said for the thread is kept.
LEMMA GrantLasting ==
    ASSUME GrantInv, grants' \subseteq grants, \A g \in grants' : g.turn = 0, consents' = Lasting
    PROVE  GrantInv'
<1> SUFFICES ASSUME NEW g \in grants'
             PROVE  \E k \in consents' : Backs(k, g)
    BY DEF GrantInv, Backs
<1>1. PICK k \in consents : Backs(k, g)
    BY DEF GrantInv
<1>2. k.scope = "ALLOW_THREAD"
    BY <1>1 DEF Backs
<1>3. k \in consents'
    BY <1>2 DEF Lasting
<1> QED BY <1>1, <1>3

LEMMA GrantProceeds ==
    ASSUME GrantInv, consents \subseteq consents', turn # 0,
           NEW how, NEW d, Proceed(how, d),
           how = "run" /\ d \in {"ALLOW_TURN", "ALLOW_THREAD"} => \E k \in consents' : Said(k, d, Call)
    PROVE  GrantInv'
<1>1. CASE how = "run"
  <2>1. grants' = grants \cup GrantFor(Call, d)
      BY <1>1 DEF Proceed
  <2>2. ASSUME NEW g \in GrantFor(Call, d)
        PROVE  \E k \in consents' : Backs(k, g)
    <3>1. CASE d = "ALLOW_TURN"
      <4>1. PICK k \in consents' : Said(k, d, Call)
          BY <1>1, <3>1
      <4>2. g = Key(Call, turn)
          BY <2>2, <3>1 DEF GrantFor
      <4>3. Backs(k, g)
          BY <3>1, <4>1, <4>2 DEF Backs, Said, Key
      <4> QED BY <4>3
    <3>2. CASE d = "ALLOW_THREAD"
      <4>1. PICK k \in consents' : Said(k, d, Call)
          BY <1>1, <3>2
      <4>2. g = Key(Call, 0)
          BY <2>2, <3>2 DEF GrantFor
      <4>3. Backs(k, g)
          BY <3>2, <4>1, <4>2 DEF Backs, Said, Key
      <4> QED BY <4>3
    <3> QED BY <2>2, <3>1, <3>2 DEF GrantFor
  <2> QED BY <2>1, <2>2 DEF GrantInv, Backs
<1>2. CASE how # "run"
  <2>1. grants' \subseteq grants
      BY <1>2 DEF Proceed, Finally, ClearTurn
  <2> QED BY <2>1, GrantKept
<1> QED BY <1>1, <1>2

\* What a hook lets run without a question, on record or on a grant.
LEMMA HookSaid ==
    ASSUME PlaceInv, RecordInv, pc \in Running, NEW v, Authorization(Call, v) = "run",
           v = "ASK", ~Granted(Call), OnRecord(Call)
    PROVE  /\ decided[ApprovalId(Call)] \in Allows
           /\ ApprovalId(Call) \notin consumed
           /\ \E k \in consents : Said(k, decided[ApprovalId(Call)], Call)
<1>1. point # "TERMINAL"
    BY RunningPoint
<1>2. decided[ApprovalId(Call)] \in Decisions
    BY <1>1 DEF RecordInv, OnRecord
<1>3. Ruling(Call, decided[ApprovalId(Call)]) = "run"
    BY DEF Authorization
<1>4. decided[ApprovalId(Call)] \in Allows /\ ApprovalId(Call) \notin consumed
    BY <1>2, <1>3 DEF Ruling, Decisions, Allows
<1> QED BY <1>4, OnRecordSaid

LEMMA GrantStep ==
    ScopeInv /\ PlaceInv /\ RecordInv /\ GrantInv /\ [Next]_vars => GrantInv'
<1> SUFFICES ASSUME ScopeInv, PlaceInv, RecordInv, GrantInv, [Next]_vars PROVE GrantInv'
    OBVIOUS
<1>1. CASE grants' \subseteq grants /\ consents \subseteq consents'
    BY <1>1, GrantKept
<1>2. CASE SetPreset \/ NewThread \/ ModelResponds \/ BeginCall \/ Executed \/ CancelTurn
  <2>1. grants' \subseteq grants /\ consents' = consents
      BY <1>2 DEF SetPreset, NewThread, ModelResponds, BeginCall, Executed, CancelTurn, Finally, ClearTurn,
                  approvalVars
  <2> QED BY <1>1, <2>1
<1>3. CASE ChildFails \/ ChildCalls \/ ChildReturns \/ Crash \/ Resume \/ UNCHANGED vars
  <2>1. grants' \subseteq grants /\ consents' = consents
      BY <1>3 DEF ChildFails, ChildCalls, ChildReturns, Crash, Resume, vars, approvalVars
  <2> QED BY <1>1, <2>1
<1>4. CASE StartTurn
  <2>1. grants' = grants /\ consents' = Lasting /\ \A g \in grants' : g.turn = 0
      BY <1>4 DEF StartTurn, ScopeInv, Resting
  <2> QED BY <2>1, GrantLasting
<1>5. CASE EndTurn
  <2>1. ClearTurn /\ consents' = Lasting
      BY <1>5 DEF EndTurn, Finally
  <2>2. grants' \subseteq grants
      BY <2>1 DEF ClearTurn
  <2> QED BY <2>1, <2>2, Cleared, GrantLasting
<1>6. CASE Hook
  <2>1. pc \in Running /\ consents' = consents
      BY <1>6 DEF Hook, Running
  <2>2. PICK h \in Hooks :
          LET v == AfterHook(h)
              how == Authorization(Call, v)
              recorded == v = "ASK" /\ ~Granted(Call) /\ OnRecord(Call)
          IN  Proceed(how, IF recorded THEN decided[ApprovalId(Call)] ELSE "none")
      BY <1>6 DEF Hook
  <2>3. PICK v, how, d :
          /\ Proceed(how, d) /\ how = Authorization(Call, v)
          /\ d # "none" => v = "ASK" /\ ~Granted(Call) /\ OnRecord(Call) /\ d = decided[ApprovalId(Call)]
      BY <2>2
  <2>4. how = "run" /\ d \in {"ALLOW_TURN", "ALLOW_THREAD"} => \E k \in consents' : Said(k, d, Call)
      BY <2>1, <2>3, HookSaid
  <2>5. turn # 0
      BY <2>1, RunningPoint
  <2> QED BY <2>1, <2>3, <2>4, <2>5, GrantProceeds
<1>7. CASE Answer
  <2>1. PICK d \in Decisions :
          /\ consents' = IF d \in {"DENY_ONCE", "CANCEL_TURN"} THEN consents
                         ELSE consents \cup {[scope |-> d, thread |-> thread, turn |-> turn,
                                              id |-> Call.id, tool |-> Call.tool, arg |-> Call.arg]}
          /\ Proceed(Ruling(Call, d), d)
      BY <1>7 DEF Answer
  <2>2. consents \subseteq consents' /\ (d \in Allows => \E k \in consents' : Said(k, d, Call))
      BY <2>1, AnswerSaid
  <2>3. turn # 0
      BY <1>7, RunningPoint DEF Answer, Running
  <2> QED BY <2>1, <2>2, <2>3, GrantProceeds DEF Allows
<1> QED BY <1>2, <1>3, <1>4, <1>5, <1>6, <1>7 DEF Next

-----------------------------------------------------------------------------
(* What ran, and what may run.                                             *)

LEMMA RanKept ==
    ASSUME RanInv, UNCHANGED <<thread, turn, ran>>, pc \notin Resting,
           pc' \notin Resting => consumed \subseteq consumed' /\ grants \subseteq grants',
           pc' # "down"
    PROVE  RanInv'
BY DEF RanInv, ApprovalId, Granted, Key, Resting

LEMMA ProceedGrows ==
    ASSUME NEW how, NEW d, Proceed(how, d)
    PROVE  /\ pc' \notin Resting => consumed \subseteq consumed' /\ grants \subseteq grants'
           /\ pc' # "down"
BY DEF Proceed, Settle, Finally, Resting

LEMMA RanStep == RanInv /\ ExecInv /\ [Next]_vars => RanInv'
<1> SUFFICES ASSUME RanInv, ExecInv, [Next]_vars PROVE RanInv'
    OBVIOUS
<1>1. CASE SetPreset \/ NewThread \/ EndTurn \/ CancelTurn
  <2>1. pc' = "idle"
      BY <1>1 DEF SetPreset, NewThread, EndTurn, CancelTurn, Finally
  <2> QED BY <2>1 DEF RanInv, Resting
<1>2. CASE StartTurn \/ Crash
  <2>1. ran' = {}
      BY <1>2 DEF StartTurn, Crash
  <2> QED BY <2>1 DEF RanInv
<1>3. CASE Resume
  <2>1. ran' = {}
      BY <1>3 DEF Resume, RanInv
  <2> QED BY <2>1 DEF RanInv
<1>4. CASE ModelResponds
  <2>1. pc \notin Resting /\ pc' # "down" /\ UNCHANGED <<thread, turn, ran, consumed, grants>>
      BY <1>4 DEF ModelResponds, Resting, approvalVars
  <2> QED BY <2>1, RanKept
<1>5. CASE BeginCall
  <2>1. pc \notin Resting /\ pc' # "down" /\ UNCHANGED <<thread, turn, ran, consumed, grants>>
      BY <1>5 DEF BeginCall, Settle, Resting, approvalVars
  <2> QED BY <2>1, RanKept
<1>6. CASE Hook
  <2>1. pc \notin Resting /\ UNCHANGED <<thread, turn, ran>> /\ \E how, d : Proceed(how, d)
      BY <1>6 DEF Hook, Resting
  <2> QED BY <2>1, ProceedGrows, RanKept
<1>7. CASE Answer
  <2>1. pc \notin Resting /\ UNCHANGED <<thread, turn, ran>> /\ \E how, d : Proceed(how, d)
      BY <1>7 DEF Answer, Resting
  <2> QED BY <2>1, ProceedGrows, RanKept
<1>8. CASE Executed
  <2>1. /\ pc = "executing" /\ pc' # "down"
        /\ UNCHANGED <<thread, turn, consumed, grants>>
        /\ ran' = IF verdict = "ASK" THEN ran \cup {Call} ELSE ran
      BY <1>8 DEF Executed, Settle, approvalVars
  <2>2. \A c : Granted(c)' <=> Granted(c)
      BY <2>1 DEF Granted, Key
  <2>3. \A c \in ran' : ApprovalId(c) \in consumed \/ Granted(c)
      BY <2>1 DEF RanInv, ExecInv, Resting
  <2>4. \A c \in ran' : ApprovalId(c) \in consumed' \/ Granted(c)'
      BY <2>1, <2>2, <2>3
  <2> QED BY <2>1, <2>4 DEF RanInv, ApprovalId, Granted, Key
<1>9. CASE ChildFails \/ ChildCalls \/ ChildReturns \/ UNCHANGED vars
  <2>1. UNCHANGED <<pc, thread, turn, ran, consumed, grants>>
      BY <1>9 DEF ChildFails, ChildCalls, ChildReturns, vars, approvalVars
  <2> QED BY <2>1 DEF RanInv, ApprovalId, Granted, Key
<1> QED BY <1>1, <1>2, <1>3, <1>4, <1>5, <1>6, <1>7, <1>8, <1>9 DEF Next

\* A grant covers the call it is found for, the consent behind it does.
LEMMA GrantCovers ==
    ASSUME GrantInv, turn # 0, Granted(Call)
    PROVE  \E k \in consents : Covers(k)
<1>1. PICK t \in {turn, 0} : Key(Call, t) \in grants
    BY DEF Granted
<1>2. PICK k \in consents : Backs(k, Key(Call, t))
    BY <1>1 DEF GrantInv
<1>3. k.tool = Call.tool /\ k.arg = Call.arg /\ k.thread = thread
    BY <1>2 DEF Backs, Key
<1>4. CASE t = 0
  <2>1. k.scope = "ALLOW_THREAD"
      BY <1>2, <1>4 DEF Backs, Key
  <2> QED BY <1>3, <2>1 DEF Covers
<1>5. CASE t = turn
  <2>1. k.scope = "ALLOW_TURN" /\ k.turn = turn
      BY <1>2, <1>5 DEF Backs, Key
  <2> QED BY <1>3, <2>1 DEF Covers
<1> QED BY <1>4, <1>5

\* An approval that is not used up covers the call it was given for: no call
\* like it has run.
LEMMA FreshCovers ==
    ASSUME RanInv, pc \notin Resting, ApprovalId(Call) \notin consumed, ~Granted(Call),
           NEW k, NEW d \in Allows, Said(k, d, Call)
    PROVE  Covers(k)
<1>1. Call \notin ran
    BY DEF RanInv
<1> QED BY <1>1 DEF Said, Covers, Allows

LEMMA SameCall ==
    ASSUME UNCHANGED <<thread, turn, response, todo>>
    PROVE  /\ Call' = Call
           /\ ApprovalId(Call)' = ApprovalId(Call)
           /\ UNCHANGED grants => (Granted(Call)' <=> Granted(Call))
           /\ grants \subseteq grants' => (Granted(Call) => Granted(Call)')
           /\ UNCHANGED ran => \A k : Covers(k)' <=> Covers(k)
BY DEF Call, Current, ApprovalId, Granted, Key, Covers

\* A call that runs, asks, is refused or cancels the turn.
LEMMA ExecProceeds ==
    ASSUME UNCHANGED <<thread, turn, response, ran>>, consents \subseteq consents',
           NEW how, NEW d, Proceed(how, d),
           how = "ask" => ~Granted(Call),
           how = "run" /\ verdict' = "ASK" =>
               /\ d # "none" \/ Granted(Call)
               /\ \E k \in consents' : Covers(k)
    PROVE  ExecInv'
<1>1. CASE how = "run"
  <2>1. /\ pc' = "executing" /\ UNCHANGED todo /\ grants \subseteq grants'
        /\ d # "none" => ApprovalId(Call) \in consumed'
      BY <1>1 DEF Proceed
  <2> QED BY <1>1, <2>1, SameCall DEF ExecInv
<1>2. CASE how = "ask"
  <2>1. pc' = "asking" /\ UNCHANGED <<todo, grants>>
      BY <1>2 DEF Proceed
  <2> QED BY <1>2, <2>1, SameCall DEF ExecInv
<1>3. CASE how \notin {"run", "ask"}
  <2>1. pc' \notin {"asking", "executing"}
      BY <1>3 DEF Proceed, Settle, Finally
  <2> QED BY <2>1 DEF ExecInv
<1> QED BY <1>1, <1>2, <1>3

LEMMA ExecStep ==
    PlaceInv /\ RecordInv /\ GrantInv /\ RanInv /\ ExecInv /\ [Next]_vars => ExecInv'
<1> SUFFICES ASSUME PlaceInv, RecordInv, GrantInv, RanInv, ExecInv, [Next]_vars PROVE ExecInv'
    OBVIOUS
<1>1. CASE pc' \notin {"asking", "executing"}
    BY <1>1 DEF ExecInv
<1>2. CASE SetPreset \/ NewThread \/ StartTurn \/ ModelResponds \/ BeginCall \/ Executed
  <2>1. pc' \notin {"asking", "executing"}
      BY <1>2 DEF SetPreset, NewThread, StartTurn, ModelResponds, BeginCall, Executed, Settle
  <2> QED BY <1>1, <2>1
<1>3. CASE EndTurn \/ CancelTurn \/ Crash \/ Resume
  <2>1. pc' \notin {"asking", "executing"}
      BY <1>3 DEF EndTurn, CancelTurn, Finally, Crash, Resume
  <2> QED BY <1>1, <2>1
<1>4. CASE ChildFails \/ ChildCalls \/ ChildReturns \/ UNCHANGED vars
  <2>1. UNCHANGED <<pc, verdict, thread, turn, response, todo, grants, consumed, consents, ran>>
      BY <1>4 DEF ChildFails, ChildCalls, ChildReturns, vars, turnVars, approvalVars
  <2> QED BY <2>1, SameCall DEF ExecInv
<1>5. CASE Hook
  <2>1. /\ pc \in Running /\ pc \notin Resting
        /\ UNCHANGED <<thread, turn, response, ran, consents>>
      BY <1>5 DEF Hook, Running, Resting
  <2>2. PICK h \in Hooks :
          LET v == AfterHook(h)
              how == Authorization(Call, v)
              recorded == v = "ASK" /\ ~Granted(Call) /\ OnRecord(Call)
          IN  /\ verdict' = v
              /\ Proceed(how, IF recorded THEN decided[ApprovalId(Call)] ELSE "none")
      BY <1>5 DEF Hook
  <2>3. PICK v, how, d :
          /\ verdict' = v /\ Proceed(how, d) /\ how = Authorization(Call, v)
          /\ v = "ASK" /\ ~Granted(Call) /\ OnRecord(Call) => d = decided[ApprovalId(Call)]
      BY <2>2
  <2>4. how = "ask" => ~Granted(Call)
      BY <2>3 DEF Authorization, Ruling
  <2>5. ASSUME how = "run", v = "ASK"
        PROVE  /\ d # "none" \/ Granted(Call)
               /\ \E k \in consents' : Covers(k)
    <3>1. CASE Granted(Call)
        BY <2>1, <3>1, RunningPoint, GrantCovers
    <3>2. CASE ~Granted(Call)
      <4>1. OnRecord(Call)
          BY <2>3, <2>5, <3>2 DEF Authorization
      <4>2. /\ d \in Allows /\ ApprovalId(Call) \notin consumed
            /\ \E k \in consents : Said(k, d, Call)
          BY <2>1, <2>3, <2>5, <3>2, <4>1, HookSaid
      <4>3. \E k \in consents : Covers(k)
          BY <2>1, <3>2, <4>2, FreshCovers
      <4> QED BY <2>1, <4>2, <4>3 DEF Allows
    <3> QED BY <3>1, <3>2
  <2> QED BY <2>1, <2>3, <2>4, <2>5, ExecProceeds
<1>6. CASE Answer
  <2>1. /\ pc = "asking" /\ pc \in Running /\ pc \notin Resting
        /\ UNCHANGED <<thread, turn, response, ran>>
      BY <1>6 DEF Answer, Running, Resting
  <2>2. PICK d \in Decisions :
          /\ consents' = IF d \in {"DENY_ONCE", "CANCEL_TURN"} THEN consents
                         ELSE consents \cup {[scope |-> d, thread |-> thread, turn |-> turn,
                                              id |-> Call.id, tool |-> Call.tool, arg |-> Call.arg]}
          /\ Proceed(Ruling(Call, d), d)
      BY <1>6 DEF Answer
  <2>3. consents \subseteq consents' /\ (d \in Allows => \E k \in consents' : Said(k, d, Call))
      BY <2>2, AnswerSaid
  <2>4. Ruling(Call, d) # "ask" /\ d # "none"
      BY DEF Ruling, Decisions
  <2>5. ASSUME Ruling(Call, d) = "run"
        PROVE  \E k \in consents' : Covers(k)
    <3>1. d \in Allows /\ ApprovalId(Call) \notin consumed
        BY <2>5 DEF Ruling, Decisions, Allows
    <3>2. ~Granted(Call)
        BY <2>1 DEF ExecInv
    <3> QED BY <2>1, <2>3, <3>1, <3>2, FreshCovers
  <2> QED BY <2>1, <2>2, <2>3, <2>4, <2>5, ExecProceeds
<1> QED BY <1>2, <1>3, <1>4, <1>5, <1>6 DEF Next

\* If a response gives one id to calls that are alike only, a call whose
\* verdict is ASK runs on what the user said about this very tool and
\* argument, for this call, this turn or this thread (tools/runtime.py:
\* _authorize_or_approve; approvals/grants.py).
THEOREM ConsentCorrect == ASSUME ~MixedIds PROVE Spec => []ApprovalCovers
<1>1. ApprovalAssumption
    BY ApprovalAssumption
<1>2. Init => ConsentInv
    BY DEF Init, ConsentInv, ScopeInv, PlaceInv, RecordInv, GrantInv, RanInv, ExecInv, Running, Resting, AtModel
<1>3. ConsentInv /\ [Next]_vars => ConsentInv'
    BY <1>1, ScopeStep, PlaceStep, RecordStep, GrantStep, RanStep, ExecStep DEF ConsentInv
<1>4. ConsentInv => ApprovalCovers
    BY DEF ConsentInv, ExecInv, ApprovalCovers
<1> QED BY <1>2, <1>3, <1>4, PTL DEF Spec

\* No grant, approval or hook lets a call run outside the tools, the
\* capabilities or the paths of its agent.  If a response gives one id to calls
\* that are alike only, a call that a rule denies runs nowhere but on a
\* protected path, and there on what the user said about it
\* (security/permission_engine.py: evaluate; tools/runtime.py:
\* _authorize_or_approve).
THEOREM BoundaryCorrect == ASSUME ~MixedIds PROVE Spec => []BoundaryHolds
<1>1. Init => VerdictInv
    BY DEF Init, VerdictInv
<1>2. VerdictInv /\ ApprovalCovers => BoundaryHolds
    BY DEF VerdictInv, BoundaryHolds, Allowed, ApprovalCovers
<1> QED BY <1>1, <1>2, VerdictStep, ConsentCorrect, PTL DEF Spec

-----------------------------------------------------------------------------
(* Types.                                                                  *)

\* The call under way comes from PlaceInv.
TypeInv ==
    /\ thread \in 1..Threads /\ turn \in 0..MaxTurns /\ preset \in Presets
    /\ pc \in Running \cup Resting \cup {"model"}
    /\ response \in Seq(CallType) /\ Len(response) <= MaxCalls
    /\ results \subseteq Ids
    /\ verdict \in Verdicts
    /\ \A a \in DOMAIN decided : decided[a] \in Decisions
    /\ \A g \in grants : g.thread \in 1..Threads /\ g.turn \in 0..MaxTurns
    /\ skills \subseteq 1..MaxTurns
    /\ loaded \subseteq (1..MaxTurns) \X Remote
    /\ delegated \subseteq Remote
    /\ child.state \in {"none", "model", "executing"}

LEMMA StrongestVerdict ==
    ASSUME NEW rules, rules # {}, \A r \in rules : r.decision \in Verdicts
    PROVE  Strongest(rules) \in Verdicts
<1> DEFINE P(d) == /\ \E x \in rules : x.decision = d
                   /\ d = "ASK" => \A x \in rules : x.decision # "DENY"
                   /\ d = "ALLOW" => \A x \in rules : x.decision = "ALLOW"
<1>1. \E d \in Verdicts : P(d)
  <2>1. CASE \E x \in rules : x.decision = "DENY"
      BY <2>1 DEF Verdicts
  <2>2. CASE ~\E x \in rules : x.decision = "DENY"
    <3>1. CASE \E x \in rules : x.decision = "ASK"
        BY <2>2, <3>1 DEF Verdicts
    <3>2. CASE ~\E x \in rules : x.decision = "ASK"
        BY <2>2, <3>2 DEF Verdicts
    <3> QED BY <3>1, <3>2
  <2> QED BY <2>1, <2>2
<1>2. Strongest(rules) = CHOOSE d \in Verdicts : P(d)
    BY DEF Strongest
<1> HIDE DEF P
<1> QED BY <1>1, <1>2

LEMMA EvaluateVerdict ==
    ASSUME ApprovalAssumption, NEW c, c.tool \in Names, NEW names, NEW p
    PROVE  Evaluate(c, names, Matching(c), p) \in Verdicts
<1>1. \A r \in Matching(c) : r.decision \in Verdicts
    BY DEF Matching, ApprovalAssumption
<1>2. Matching(c) # {} => Strongest(Matching(c)) \in Verdicts
    BY <1>1, StrongestVerdict
<1>3. McpDecision(Tool[c.tool]) \in Verdicts \cup {"none"}
  <2>1. Tool[c.tool].mode \in {"inherit", "always", "writes", "never"}
      BY DEF ApprovalAssumption, Names
  <2> QED BY <2>1 DEF McpDecision, Verdicts
<1>4. DefaultDecision(Tool[c.tool], p) \in Verdicts
    BY DEF DefaultDecision, Verdicts
<1>5. {"DENY", "ASK"} \subseteq Verdicts
    BY DEF Verdicts
<1> QED BY <1>2, <1>3, <1>4, <1>5 DEF Evaluate

LEMMA CurrentCall ==
    ASSUME PlaceInv, TypeInv, pc \in Running
    PROVE  Call \in CallType
<1>1. Current \in DOMAIN response
    BY CurrentIsNext
<1> QED BY <1>1 DEF Call, TypeInv

LEMMA SettleType ==
    ASSUME PlaceInv, TypeInv, pc \in Running, Settle
    PROVE  results' \subseteq Ids /\ pc' \in {"model", "call"}
BY CurrentCall DEF Settle, CallType, TypeInv

LEMMA FinallyType ==
    ASSUME TypeInv, Finally
    PROVE  /\ pc' = "idle" /\ delegated' = {} /\ child'.state = "none"
           /\ grants' \subseteq grants /\ skills' \subseteq skills /\ loaded' \subseteq loaded
BY DEF Finally, ClearTurn, NoChild

LEMMA ProceedType ==
    ASSUME ApprovalAssumption, PlaceInv, TypeInv, pc \in Running, NEW how, NEW d, Proceed(how, d),
           UNCHANGED <<thread, turn, preset, response>>, verdict' \in Verdicts,
           \A a \in DOMAIN decided' : decided'[a] \in Decisions
    PROVE  TypeInv'
<1>1. CASE how = "run" /\ Proceed(how, d)
  <2>1. pc' = "executing" /\ grants' = grants \cup GrantFor(Call, d)
        /\ UNCHANGED <<results, skills, loaded, delegated, child>>
      BY <1>1 DEF Proceed, childVars
  <2>2. \A g \in GrantFor(Call, d) : g.thread \in 1..Threads /\ g.turn \in 0..MaxTurns
    <3>1. 0 \in 0..MaxTurns
        BY DEF ApprovalAssumption
    <3> QED BY <3>1 DEF GrantFor, Key, TypeInv
  <2> QED BY <2>1, <2>2 DEF TypeInv, Running
<1>2. CASE how = "ask"
  <2>1. pc' = "asking" /\ UNCHANGED <<results, grants, skills, loaded, delegated, child>>
      BY <1>2 DEF Proceed, childVars
  <2> QED BY <2>1 DEF TypeInv, Running
<1>3. CASE how = "refuse"
  <2>1. Settle /\ UNCHANGED <<grants, skills, loaded, delegated, child>>
      BY <1>3 DEF Proceed, childVars
  <2> QED BY <2>1, SettleType DEF TypeInv, Running
<1>4. CASE how = "cancel"
  <2>1. Finally /\ results' = results
      BY <1>4 DEF Proceed
  <2> QED BY <2>1, FinallyType DEF TypeInv, Resting
<1> QED BY <1>1, <1>2, <1>3, <1>4 DEF Proceed

LEMMA AfterHookVerdict ==
    ASSUME TypeInv, NEW h
    PROVE  AfterHook(h) \in Verdicts
<1>1. CASE h = "DENY"
    BY <1>1 DEF AfterHook, Verdicts
<1>2. CASE h = "ASK" /\ verdict = "ALLOW"
    BY <1>2 DEF AfterHook, Verdicts
<1>3. CASE h # "DENY" /\ ~(h = "ASK" /\ verdict = "ALLOW")
    BY <1>3 DEF AfterHook, TypeInv
<1> QED BY <1>1, <1>2, <1>3

LEMMA ResponseType ==
    ASSUME ApprovalAssumption, ModelResponds
    PROVE  response' \in Seq(CallType) /\ Len(response') <= MaxCalls
<1>1. PICK n \in {k \in 1..MaxCalls : k <= quota} : \E rs \in [1..n -> Requests], ids \in [1..n -> Ids] :
        /\ \A i \in 1..n : ids[i] <= 1 + Cardinality(results \cup {ids[j] : j \in 1..(i - 1)})
        /\ MixedIds \/ \A i, j \in 1..n : ids[i] = ids[j] => rs[i] = rs[j]
        /\ quota' = quota - n
        /\ response' = [i \in 1..n |-> [id |-> ids[i], tool |-> rs[i].tool, arg |-> rs[i].arg]]
    BY Zenon DEF ModelResponds
<1>2. PICK rs \in [1..n -> Requests], ids \in [1..n -> Ids] :
        response' = [i \in 1..n |-> [id |-> ids[i], tool |-> rs[i].tool, arg |-> rs[i].arg]]
    BY <1>1, Zenon
<1>3. \A i \in 1..n : [id |-> ids[i], tool |-> rs[i].tool, arg |-> rs[i].arg] \in CallType
  <2>1. TAKE i \in 1..n
  <2>2. rs[i] \in Requests /\ ids[i] \in Ids
      OBVIOUS
  <2>3. rs[i].tool \in Names /\ rs[i].arg \in DOMAIN Path
      BY <2>2 DEF ApprovalAssumption, Names
  <2> QED BY <2>2, <2>3 DEF CallType
<1>4. n \in Nat /\ n <= MaxCalls
    BY DEF ApprovalAssumption
<1> QED BY <1>2, <1>3, <1>4

LEMMA ModelRespondsType ==
    ASSUME ApprovalAssumption, TypeInv, ModelResponds
    PROVE  TypeInv'
<1>1. /\ pc' \in {"model", "call"}
      /\ UNCHANGED <<thread, turn, preset, results, verdict, decided, grants, skills, loaded, delegated, child>>
    BY DEF ModelResponds, approvalVars, scopeVars, childVars
<1> QED BY <1>1, ResponseType DEF TypeInv, Running

LEMMA TypeStep == ApprovalAssumption /\ PlaceInv /\ TypeInv /\ [Next]_vars => TypeInv'
<1> SUFFICES ASSUME ApprovalAssumption, PlaceInv, TypeInv, [Next]_vars PROVE TypeInv'
    OBVIOUS
<1>1. CASE SetPreset
    BY <1>1 DEF SetPreset, TypeInv, turnVars, approvalVars, scopeVars, childVars
<1>2. CASE NewThread
  <2>1. /\ thread' \in 1..Threads /\ turn' \in 0..MaxTurns /\ results' = {}
        /\ UNCHANGED <<preset, pc, response, verdict, decided, grants, skills, loaded, delegated, child>>
      BY <1>2 DEF NewThread, TypeInv, approvalVars, scopeVars, childVars, ApprovalAssumption
  <2> QED BY <2>1 DEF TypeInv
<1>3. CASE StartTurn
  <2>1. /\ turn' \in 1..MaxTurns /\ turn' \in 0..MaxTurns
        /\ pc' = "model" /\ response' = <<>> /\ verdict' = "DENY" /\ decided' = <<>>
        /\ skills' \subseteq skills \cup {turn'}
        /\ UNCHANGED <<thread, preset, results, grants, loaded, delegated, child>>
      BY <1>3 DEF StartTurn, TypeInv, childVars, ApprovalAssumption
  <2>2. <<>> \in Seq(CallType) /\ Len(<<>>) <= MaxCalls /\ "DENY" \in Verdicts
      BY DEF ApprovalAssumption, Verdicts
  <2>3. \A a \in DOMAIN decided' : decided'[a] \in Decisions
      BY <2>1
  <2> QED BY <2>1, <2>2, <2>3 DEF TypeInv
<1>4. CASE ModelResponds
    BY <1>4, ModelRespondsType
<1>5. CASE BeginCall
  <2>1. pc \in Running
        /\ UNCHANGED <<thread, turn, preset, response, decided, grants, skills, loaded, delegated, child>>
      BY <1>5 DEF BeginCall, Running, approvalVars, scopeVars, childVars
  <2>2. CASE Raises
    <3>1. Settle /\ verdict' = verdict
        BY <1>5, <2>2 DEF BeginCall
    <3> QED BY <2>1, <3>1, SettleType DEF TypeInv, Running
  <2>3. CASE ~Raises
    <3>1. pc' = "hook" /\ results' = results /\ verdict' = Evaluate(Call, Effective, Matching(Call), preset)
        BY <1>5, <2>3 DEF BeginCall
    <3>2. verdict' \in Verdicts
        BY <2>1, <3>1, CurrentCall, EvaluateVerdict DEF CallType
    <3> QED BY <2>1, <3>1, <3>2 DEF TypeInv, Running
  <2> QED BY <2>2, <2>3
<1>6. CASE Hook
  <2>1. /\ pc \in Running /\ UNCHANGED <<thread, turn, preset, response, decided>>
        /\ \E h \in Hooks : verdict' = AfterHook(h) /\ \E how, d : Proceed(how, d)
      BY <1>6 DEF Hook, Running
  <2>2. verdict' \in Verdicts /\ \A a \in DOMAIN decided' : decided'[a] \in Decisions
      BY <2>1, AfterHookVerdict DEF TypeInv
  <2> QED BY <2>1, <2>2, ProceedType
<1>7. CASE Answer
  <2>1. PICK d \in Decisions :
            /\ decided' = [a \in DOMAIN decided \cup {ApprovalId(Call)} |->
                             IF a = ApprovalId(Call) THEN d ELSE decided[a]]
            /\ \E how : Proceed(how, d)
      BY <1>7 DEF Answer
  <2>2. pc \in Running /\ UNCHANGED <<thread, turn, preset, response, verdict>>
      BY <1>7 DEF Answer, Running
  <2>3. verdict' \in Verdicts /\ \A a \in DOMAIN decided' : decided'[a] \in Decisions
      BY <2>1, <2>2 DEF TypeInv
  <2> QED BY <2>1, <2>2, <2>3, ProceedType
<1>8. CASE Executed
  <2>1. pc \in Running /\ Settle /\ UNCHANGED <<thread, turn, preset, response, verdict, decided, grants>>
      BY <1>8 DEF Executed, Running, approvalVars
  <2>2. turn \in 1..MaxTurns
      BY <2>1, RunningPoint DEF TypeInv, ApprovalAssumption
  <2>3. skills' \subseteq skills \cup {turn} /\ loaded' \subseteq loaded \cup {<<turn, t>> : t \in Remote}
      BY <1>8 DEF Executed, scopeVars
  <2>4. delegated' \subseteq Remote /\ child'.state \in {"none", "model", "executing"}
    <3>1. CASE UNCHANGED childVars
        BY <3>1 DEF TypeInv, childVars
    <3>2. CASE ChildStarts
      <4>1. PICK given \in SUBSET Remote :
                /\ delegated' = delegated \cup given
                /\ child' = [NoChild EXCEPT !.state = "model", !.given = given]
          BY <3>2 DEF ChildStarts
      <4>2. child'.state = "model"
          BY <4>1 DEF NoChild
      <4> QED BY <4>1, <4>2 DEF TypeInv
    <3> QED BY <1>8, <3>1, <3>2 DEF Executed
  <2>5. loaded' \subseteq (1..MaxTurns) \X Remote
      BY <2>2, <2>3 DEF TypeInv
  <2>6. skills' \subseteq 1..MaxTurns
      BY <2>2, <2>3 DEF TypeInv
  <2> QED BY <2>1, <2>4, <2>5, <2>6, SettleType DEF TypeInv, Running
<1>9. CASE EndTurn
  <2>1. /\ Finally /\ response' = <<>> /\ verdict' = "DENY" /\ decided' = <<>>
        /\ UNCHANGED <<thread, turn, preset, results>>
      BY <1>9 DEF EndTurn
  <2>2. <<>> \in Seq(CallType) /\ Len(<<>>) <= MaxCalls /\ "DENY" \in Verdicts
      BY DEF ApprovalAssumption, Verdicts
  <2>3. \A a \in DOMAIN decided' : decided'[a] \in Decisions
      BY <2>1
  <2>4. /\ pc' \in Resting /\ delegated' \subseteq Remote /\ child'.state \in {"none", "model", "executing"}
        /\ grants' \subseteq grants /\ skills' \subseteq skills /\ loaded' \subseteq loaded
      BY <2>1, FinallyType DEF Resting
  <2> QED BY <2>1, <2>2, <2>3, <2>4 DEF TypeInv
<1>10. CASE CancelTurn
  <2>1. Finally /\ UNCHANGED <<thread, turn, preset, response, results, verdict, decided>>
      BY <1>10 DEF CancelTurn
  <2> QED BY <2>1, FinallyType DEF TypeInv, Resting
<1>11. CASE ChildFails \/ ChildCalls \/ ChildReturns
  <2>1. /\ UNCHANGED <<thread, turn, preset, pc, response, results, verdict, decided, grants, skills, loaded, delegated>>
      BY <1>11 DEF ChildFails, ChildCalls, ChildReturns, turnVars, approvalVars, scopeVars
  <2>2. child'.state \in {"none", "model", "executing"}
    <3>1. CASE ChildFails
        BY <3>1 DEF ChildFails, NoChild
    <3>2. CASE ChildCalls
      <4>1. PICK r \in Delegable : child' = [child EXCEPT !.state = "executing", !.call = r]
          BY <3>2 DEF ChildCalls
      <4> QED BY <4>1 DEF TypeInv
    <3>3. CASE ChildReturns
      <4>1. PICK s \in {"model", "none"} :
                child' = IF s = "none" THEN NoChild ELSE [child EXCEPT !.state = s, !.call = NoChild.call]
          BY <3>3 DEF ChildReturns
      <4> QED BY <4>1 DEF NoChild
    <3> QED BY <1>11, <3>1, <3>2, <3>3
  <2> QED BY <2>1, <2>2 DEF TypeInv
<1>12. CASE Crash
  <2>1. /\ pc' = "down" /\ grants' = {} /\ skills' = {} /\ loaded' = {} /\ delegated' = {} /\ child' = NoChild
        /\ UNCHANGED <<thread, turn, preset, response, results, verdict, decided>>
      BY <1>12 DEF Crash
  <2> QED BY <2>1 DEF TypeInv, NoChild, Resting
<1>13. CASE Resume
  <2>1. /\ pc' \in {"model", "call", "idle"}
        /\ UNCHANGED <<thread, turn, preset, response, results, verdict, decided, grants, skills, loaded, delegated, child>>
      BY <1>13 DEF Resume, approvalVars, scopeVars, childVars
  <2> QED BY <2>1 DEF TypeInv, Running, Resting
<1>14. CASE UNCHANGED vars
    BY <1>14 DEF vars, TypeInv, turnVars, approvalVars, scopeVars, childVars
<1> QED BY <1>1, <1>2, <1>3, <1>4, <1>5, <1>6, <1>7, <1>8, <1>9, <1>10, <1>11, <1>12, <1>13, <1>14 DEF Next

\* Every variable has its type, and the call under way comes from the response
\* of the turn, for any tools, rules, presets, hooks and numbers of threads,
\* turns, calls and crashes (execute, run_existing, /new).
THEOREM TypeCorrect == Spec => []TypeOK
<1>1. Init => PlaceInv /\ TypeInv
  <2> SUFFICES ASSUME Init PROVE PlaceInv /\ TypeInv
      OBVIOUS
  <2>1. PlaceInv
      BY DEF Init, PlaceInv, Running, Resting, AtModel
  <2>2. /\ thread \in 1..Threads /\ turn \in 0..MaxTurns /\ response \in Seq(CallType) /\ Len(response) <= MaxCalls
      BY ApprovalAssumption DEF ApprovalAssumption, Init
  <2>3. child.state = "none" /\ verdict \in Verdicts /\ DOMAIN decided = {}
      BY DEF Init, NoChild, Verdicts
  <2> QED BY <2>1, <2>2, <2>3 DEF Init, TypeInv, Resting
<1>2. PlaceInv /\ TypeInv => TypeOK
  <2> SUFFICES ASSUME PlaceInv, TypeInv PROVE TypeOK
      OBVIOUS
  <2>1. ToSet(response) \subseteq CallType
      BY DEF TypeInv, ToSet
  <2> QED BY <2>1 DEF PlaceInv, TypeInv, TypeOK, Running, Resting
<1> QED BY <1>1, <1>2, PlaceStep, TypeStep, ApprovalAssumption, PTL DEF Spec
=============================================================================
