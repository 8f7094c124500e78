------------------------ MODULE TurnRecovery_proofs ------------------------
(* Safety of turns across process lifetimes, and the promise of TurnLedger, *)
(* for any number of turns and tool calls and any limit of model calls.    *)
EXTENDS TurnRecovery, WellFoundedInduction, TLAPS

\* Where the loop works on a call of the last response.
AtCall == {"tool", "authorize", "approval", "decided", "apply", "executing"}

Final == {"COMPLETED", "FAILED", "CANCELLED"}

Item == [turn : Turns, kind : Terminal \cup {"turn.started"}]

\* The calls a state knows of have been issued.
Known(r) == r.response \subseteq 1..issued /\ r.results \subseteq 1..issued

\* Types alone are not inductive: a terminal item needs a turn and an outcome,
\* a result needs a call, and a call needs to be issued.
CkptInv ==
    /\ ckpt \in [point : Points, run : RunStates]
    /\ Known(ckpt.run)
    /\ ckpt.point # "NONE" => ckpt.run.turn \in Turns
    /\ ckpt.point = "TERMINAL" => ckpt.run.status \in Final
    /\ answered \subseteq 1..issued

RunInv ==
    /\ issued \in 0..MaxCalls
    /\ pc \in Places
    /\ run \in RunStates
    /\ Known(run)
    /\ pc \in InTurn => run.turn \in Turns
    /\ pc \in {"leaving", "finish"} => run.status \in Final
    /\ pc \in AtCall => Open # {}

LogInv ==
    /\ log \in Seq(Item)
    /\ durable \in 0..Len(log)

RestInv ==
    /\ decision \in [Calls -> {"none", "allow", "deny", "cancel"}]
    /\ meta \in [status : {"IDLE", "ACTIVE", "CLOSED", "RECOVERY_REQUIRED"}, turns : 0..MaxTurns]
    /\ resumed \in BOOLEAN
    /\ raising \in BOOLEAN
    /\ executions \in [Calls -> Nat]
    /\ manual \subseteq Turns

TypeInv == CkptInv /\ RunInv /\ LogInv /\ RestInv

\* Where the loop has the calls of the last response before it.
Ready == {"starting", "wiring"} \cup InLoop

\* How the place of the session, the last checkpoint and the calls of the last
\* response go together.  The loop begins with no open call, unless the turn
\* is resumed from a checkpoint; no request is made while calls are open.
FlowInv ==
    /\ pc \in {"down", "idle", "starting"} => ~resumed
    /\ pc = "starting" \/ (pc = "wiring" /\ ~resumed) => run.response = {}
    /\ pc = "wiring" /\ resumed =>
         ckpt.run = run /\ ckpt.point \notin {"NONE", "TERMINAL", "TOOL_IN_FLIGHT"}
    /\ pc \in {"top", "request", "model"} => Open = {}
    /\ ResponseReused
    /\ pc = "authorize" => ckpt.point = "TOOL_IN_FLIGHT"
    /\ pc \in {"approval", "decided", "apply"} => Call \in Asking
    /\ pc = "approval" => decision[Call] = "none"

\* A call that needs no approval and was executed is not open, but for the
\* call that is executing; a checkpoint in which it is open will not be
\* continued.
BlindInv ==
    /\ NoBlindReplay
    /\ \A c \in Calls : executions[c] > 0 => c \in 1..issued
    /\ \A c \in Calls \ Asking :
         executions[c] > 0 /\ c \in Open /\ pc \in Ready => pc = "executing" /\ c = Call
    /\ \A c \in Calls \ Asking :
         executions[c] > 0 /\ c \in ckpt.run.response /\ c \notin ckpt.run.results =>
           ckpt.point \in {"TOOL_IN_FLIGHT", "TERMINAL"}

\* A call with a checkpointed result is open nowhere.
AnswerInv ==
    /\ answered \cap ckpt.run.response \subseteq ckpt.run.results
    /\ pc \in Ready => answered \cap Open = {}

-----------------------------------------------------------------------------
(* The next call.                                                          *)

\* A nonempty set of numbers has a least one.
LEMMA LeastExists ==
    ASSUME NEW S \in SUBSET Nat, S # {}
    PROVE  \E x \in S : \A y \in S : x <= y
<1> DEFINE R == OpToRel(<, Nat)
<1>1. IsWellFoundedOn(R, Nat)
  BY NatLessThanWellFounded, Zenon
<1>2. \A x, y \in Nat : <<y, x>> \notin R => x <= y
  BY DEF OpToRel
<1> HIDE DEF R
<1>3. S \subseteq Nat
  OBVIOUS
<1>4. \E x \in S : \A y \in S : <<y, x>> \notin R
  BY <1>1, <1>3, WFMin, Zenon
<1> QED BY <1>2, <1>4

\* While calls are open, Call is one of them.
LEMMA CallIsOpen ==
    ASSUME TypeInv, Open # {}
    PROVE  Call \in Open /\ Call \in Calls /\ Call \in 1..issued
<1>1. Open \in SUBSET Nat /\ Open \subseteq 1..issued /\ Open \subseteq Calls
  BY DEF TypeInv, RunInv, Known, RunStates, Open, Calls
<1>2. \E c \in Open : \A d \in Open : c <= d
  BY <1>1, LeastExists
<1> QED BY <1>1, <1>2 DEF Call

-----------------------------------------------------------------------------
(* One lemma for each part of the invariant.                                *)

\* What is saved is a state of a turn that was started.
LEMMA CkptInvStep ==
    ASSUME TypeInv, [Next]_vars
    PROVE  CkptInv'
<1> USE TurnAssumption DEF TypeInv
<1>0. Open # {} => Call \in Open /\ Call \in Calls /\ Call \in 1..issued
  BY CallIsOpen
<1>1. CASE RecordStart
  BY <1>1 DEF CkptInv, RecordStart, NoSave, ghosts, Known
<1>2. CASE WiringFails
  BY <1>2 DEF CkptInv, WiringFails, NoSave, ghosts, Known
<1>3. CASE Close
  BY <1>3 DEF CkptInv, Close, NoSave, ghosts, Known
<1>4. CASE ProcessEnds
  BY <1>4 DEF CkptInv, ProcessEnds, NoSave, ghosts, Known
<1>5. CASE LoopFails
  BY <1>5 DEF CkptInv, RunInv, LoopFails, Save, ghosts, EndRun, RunStates, Points, InTurn,
     InLoop, Final, RunStatus, Known
<1>6. CASE EnterLoop
  BY <1>6 DEF CkptInv, EnterLoop, NoSave, ghosts, Known
<1>7. CASE BeginIteration
  BY <1>7 DEF CkptInv, RunInv, BeginIteration, Save, ghosts, Points, InTurn, InLoop, Known
<1>8. CASE SendRequest
  BY <1>8 DEF CkptInv, RunInv, SendRequest, Save, ghosts, RunStates, Points, InTurn, InLoop, Known
<1>9. CASE ModelAnswers
  BY <1>9 DEF CkptInv, RunInv, ModelAnswers, Save, RunStates, Points, InTurn, InLoop, Calls, Known
<1>10. CASE BeginTool
  BY <1>10 DEF CkptInv, RunInv, BeginTool, Save, ghosts, Points, InTurn, InLoop, Known
<1>11. CASE LaunchTool
  BY <1>11 DEF CkptInv, RunInv, LaunchTool, Save, ghosts, Points, InTurn, InLoop, Known
<1>12. CASE NextIteration
  BY <1>12 DEF CkptInv, NextIteration, NoSave, ghosts, Known
<1>13. CASE TextGuarded
  BY <1>13 DEF CkptInv, TextGuarded, NoSave, ghosts, Known
<1>14. CASE TextAccepted
  BY <1>14 DEF CkptInv, RunInv, TextAccepted, Save, ghosts, Points, InTurn, InLoop, Known
<1>15. CASE Completes
  BY <1>15 DEF CkptInv, RunInv, Completes, Save, ghosts, EndRun, RunStates, Points, InTurn,
     InLoop, Final, RunStatus, Known
<1>16. CASE ChildrenGone
  BY <1>16 DEF CkptInv, ChildrenGone, NoSave, ghosts, Known
<1>17. CASE Authorize
  BY <1>0, <1>17 DEF CkptInv, RunInv, Authorize, Save, NoSave, Apply, Answered, WithResult,
     RunStates, Points, InTurn, InLoop, AtCall, Known
<1>18. CASE Refused
  BY <1>0, <1>18 DEF CkptInv, RunInv, Refused, Save, ghosts, Answered, WithResult, RunStates,
     Points, InTurn, InLoop, AtCall, Known
<1>19. CASE AskUser
  BY <1>19 DEF CkptInv, RunInv, AskUser, Save, ghosts, Points, InTurn, InLoop, Known
<1>20. CASE CommitDecision
  BY <1>20 DEF CkptInv, RunInv, CommitDecision, Save, ghosts, Points, InTurn, InLoop, Known
<1>21. CASE CarryOut
  BY <1>0, <1>21 DEF CkptInv, RunInv, CarryOut, Save, NoSave, Apply, Answered, WithResult,
     RunStates, Points, InTurn, InLoop, AtCall, Known
<1>22. CASE ToolReturns
  BY <1>0, <1>22 DEF CkptInv, RunInv, ToolReturns, Save, ghosts, Answered, WithResult,
     RunStates, Points, InTurn, InLoop, AtCall, Known
<1>23. CASE RecordTerminal
  BY <1>23 DEF CkptInv, RecordTerminal, NoSave, ghosts, Known
<1>24. CASE ResetMetadata
  BY <1>24 DEF CkptInv, ResetMetadata, NoSave, ghosts, Known
<1>25. CASE Flushed
  BY <1>25 DEF CkptInv, Flushed, NoSave, ghosts, Known
<1>26. CASE StartTurn
  BY <1>26 DEF CkptInv, StartTurn, NoSave, ghosts, Known
<1>27. CASE Exit
  BY <1>27 DEF CkptInv, Exit, NoSave, ghosts, Known
<1>28. CASE UserDecides
  BY <1>28 DEF CkptInv, UserDecides, NoSave, ghosts, Known
<1>29. CASE CancelRun
  BY <1>29 DEF CkptInv, CancelRun, NoSave, ghosts, Known
<1>30. CASE CancelOutside
  BY <1>30 DEF CkptInv, CancelOutside, NoSave, ghosts, Known
<1>31. CASE Persist
  BY <1>31 DEF CkptInv, Persist, NoSave, ghosts, Known
<1>32. CASE Crash
  BY <1>32 DEF CkptInv, Crash, NoSave, ghosts, Known
<1>33. CASE Resume
  BY <1>33 DEF CkptInv, Resume, NoSave, Known
<1>34. CASE UNCHANGED vars
  BY <1>34 DEF vars, Save, NoSave, rolloutVars, runVars, ghosts, CkptInv, Known
<1> QED BY [Next]_vars, <1>1, <1>2, <1>3, <1>4, <1>5, <1>6, <1>7, <1>8, <1>9, <1>10, <1>11,
   <1>12, <1>13, <1>14, <1>15, <1>16, <1>17, <1>18, <1>19, <1>20, <1>21, <1>22, <1>23, <1>24,
   <1>25, <1>26, <1>27, <1>28, <1>29, <1>30, <1>31, <1>32, <1>33, <1>34 DEF Next, SessionStep

\* The state of the run.
LEMMA RunInvStep ==
    ASSUME TypeInv, [Next]_vars
    PROVE  RunInv'
<1> USE TurnAssumption DEF TypeInv
<1>0. Open # {} => Call \in Open /\ Call \in Calls /\ Call \in 1..issued
  BY CallIsOpen
<1>1. CASE RecordStart
  BY <1>1 DEF RunInv, RecordStart, runVars, ghosts, Places, InTurn, AtCall, Known
<1>2. CASE WiringFails
  BY <1>2 DEF RunInv, WiringFails, ghosts, RunStates, Places, InTurn, AtCall, Final,
     RunStatus, Known
<1>3. CASE Close
  BY <1>3 DEF RunInv, Close, runVars, ghosts, Places, InTurn, InLoop, AtCall, Known
<1>4. CASE ProcessEnds
  BY <1>4 DEF RunInv, ProcessEnds, ghosts, Blank, RunStates, Places, InTurn, InLoop, AtCall,
     RunStatus, Known
<1>5. CASE LoopFails
  BY <1>5 DEF RunInv, LoopFails, ghosts, EndRun, RunStates, Places, InTurn, AtCall, Final,
     RunStatus, Known
<1>6. CASE EnterLoop
  BY <1>6 DEF RunInv, EnterLoop, ghosts, RunStates, Places, InTurn, InLoop, AtCall, RunStatus,
     Known
<1>7. CASE BeginIteration
  BY <1>7 DEF RunInv, BeginIteration, runVars, ghosts, Places, InTurn, InLoop, AtCall, Known
<1>8. CASE SendRequest
  BY <1>8 DEF RunInv, SendRequest, ghosts, RunStates, Places, InTurn, InLoop, AtCall, Known
<1>9. CASE ModelAnswers
  BY <1>9 DEF RunInv, ModelAnswers, RunStates, Places, InTurn, InLoop, AtCall, Calls, Known
<1>10. CASE BeginTool
  BY <1>10 DEF RunInv, BeginTool, runVars, ghosts, Places, InTurn, InLoop, Open, Known
<1>11. CASE LaunchTool
  BY <1>11 DEF RunInv, LaunchTool, runVars, ghosts, Places, InTurn, InLoop, AtCall, Open, Known
<1>12. CASE NextIteration
  BY <1>12 DEF RunInv, NextIteration, runVars, ghosts, Places, InTurn, InLoop, AtCall, Known
<1>13. CASE TextGuarded
  BY <1>13 DEF RunInv, TextGuarded, runVars, ghosts, Places, InTurn, InLoop, AtCall, Known
<1>14. CASE TextAccepted
  BY <1>14 DEF RunInv, TextAccepted, runVars, ghosts, Places, InTurn, InLoop, AtCall, Known
<1>15. CASE Completes
  BY <1>15 DEF RunInv, Completes, ghosts, EndRun, RunStates, Places, InTurn, AtCall, Final,
     RunStatus, Known
<1>16. CASE ChildrenGone
  BY <1>16 DEF RunInv, ChildrenGone, runVars, ghosts, Places, InTurn, AtCall, Known
<1>17. CASE Authorize
  BY <1>0, <1>17 DEF RunInv, Authorize, Apply, Executes, Answered, WithResult, Cancelled,
     RunStates, Places, InTurn, InLoop, AtCall, Final, RunStatus, Open, Known
<1>18. CASE Refused
  BY <1>0, <1>18 DEF RunInv, Refused, ghosts, Answered, WithResult, RunStates, Places, InTurn,
     InLoop, AtCall, Known
<1>19. CASE AskUser
  BY <1>19 DEF RunInv, AskUser, runVars, ghosts, Places, InTurn, InLoop, AtCall, Open, Known
<1>20. CASE CommitDecision
  BY <1>20 DEF RunInv, CommitDecision, runVars, ghosts, Places, InTurn, InLoop, AtCall, Open,
     Known
<1>21. CASE CarryOut
  BY <1>0, <1>21 DEF RunInv, CarryOut, Apply, Executes, Answered, WithResult, Cancelled,
     RunStates, Places, InTurn, InLoop, AtCall, Final, RunStatus, Open, Known
<1>22. CASE ToolReturns
  BY <1>0, <1>22 DEF RunInv, ToolReturns, ghosts, Answered, WithResult, RunStates, Places,
     InTurn, InLoop, AtCall, Known
<1>23. CASE RecordTerminal
  BY <1>23 DEF RunInv, RecordTerminal, runVars, ghosts, Places, InTurn, AtCall, Known
<1>24. CASE ResetMetadata
  BY <1>24 DEF RunInv, ResetMetadata, runVars, ghosts, Places, InTurn, AtCall, Known
<1>25. CASE Flushed
  BY <1>25 DEF RunInv, Flushed, ghosts, Places, AtCall, Known
<1>26. CASE StartTurn
  <2>1. meta.turns + 1 \in Turns
    BY <1>26 DEF StartTurn, RestInv, Turns
  <2>2. run' = [turn |-> meta.turns + 1, response |-> {}, results |-> run.results,
                modelCalls |-> 0, status |-> "CREATED"]
    BY <1>26 DEF StartTurn, Blank
  <2>3. run' \in RunStates /\ Known(run)' /\ run'.turn \in Turns
    BY <2>1, <2>2, <1>26 DEF StartTurn, RunInv, RunStates, RunStatus, Known, Turns, ghosts
  <2> QED BY <2>3, <1>26 DEF StartTurn, RunInv, Places, InTurn, AtCall, ghosts
<1>27. CASE Exit
  BY <1>27 DEF RunInv, Exit, runVars, ghosts, Places, InTurn, InLoop, AtCall, Known
<1>28. CASE UserDecides
  BY <1>28 DEF RunInv, UserDecides, runVars, ghosts, Places, InTurn, InLoop, AtCall, Open, Known
<1>29. CASE CancelRun
  BY <1>29 DEF RunInv, CancelRun, ghosts, Cancelled, RunStates, Places, InTurn, AtCall, Final,
     RunStatus, Known
<1>30. CASE CancelOutside
  BY <1>30 DEF RunInv, CancelOutside, runVars, ghosts, Places, AtCall, Known
<1>31. CASE Persist
  BY <1>31 DEF RunInv, Persist, runVars, ghosts, Open, Known
<1>32. CASE Crash
  BY <1>32 DEF RunInv, Crash, ghosts, Blank, RunStates, Places, InTurn, InLoop, AtCall,
     RunStatus, Known
<1>33. CASE Resume
  BY <1>33 DEF RunInv, CkptInv, Resume, ResumeFresh, ResumeEnded, ResumeIncomplete,
     ResumeUnknown, Places, InTurn, InLoop, AtCall, Known
<1>34. CASE UNCHANGED vars
  BY <1>34 DEF vars, Save, NoSave, rolloutVars, runVars, ghosts, RunInv, Known, Open
<1> QED BY [Next]_vars, <1>1, <1>2, <1>3, <1>4, <1>5, <1>6, <1>7, <1>8, <1>9, <1>10, <1>11,
   <1>12, <1>13, <1>14, <1>15, <1>16, <1>17, <1>18, <1>19, <1>20, <1>21, <1>22, <1>23, <1>24,
   <1>25, <1>26, <1>27, <1>28, <1>29, <1>30, <1>31, <1>32, <1>33, <1>34 DEF Next, SessionStep

\* What is on record.
LEMMA LogInvStep ==
    ASSUME TypeInv, [Next]_vars
    PROVE  LogInv'
<1> USE TurnAssumption DEF TypeInv
<1>1. CASE RecordStart
  <2>1. run.turn \in Turns /\ run.status \in RunStatus /\ (pc = "finish" => run.status \in Final)
    BY <1>1 DEF RunInv, RunStates, InTurn, RecordStart
  <2>2. PICK item \in Item : log' = Append(log, item) /\ durable' = durable
    BY <2>1, <1>1 DEF Item, Entry, RecordStart, Recorded, Outcome, Final, Terminal
  <2> QED BY <2>2 DEF LogInv
<1>2. CASE WiringFails
  BY <1>2 DEF LogInv, WiringFails, rolloutVars
<1>3. CASE Close
  BY <1>3 DEF LogInv, Close, rolloutVars
<1>4. CASE ProcessEnds
  BY <1>4 DEF LogInv, ProcessEnds
<1>5. CASE LoopFails
  BY <1>5 DEF LogInv, LoopFails, rolloutVars, EndRun
<1>6. CASE EnterLoop
  BY <1>6 DEF LogInv, EnterLoop, rolloutVars
<1>7. CASE BeginIteration
  BY <1>7 DEF LogInv, BeginIteration, rolloutVars
<1>8. CASE SendRequest
  BY <1>8 DEF LogInv, SendRequest, rolloutVars
<1>9. CASE ModelAnswers
  BY <1>9 DEF LogInv, ModelAnswers, rolloutVars
<1>10. CASE BeginTool
  BY <1>10 DEF LogInv, BeginTool, rolloutVars
<1>11. CASE LaunchTool
  BY <1>11 DEF LogInv, LaunchTool, rolloutVars
<1>12. CASE NextIteration
  BY <1>12 DEF LogInv, NextIteration, rolloutVars
<1>13. CASE TextGuarded
  BY <1>13 DEF LogInv, TextGuarded, rolloutVars
<1>14. CASE TextAccepted
  BY <1>14 DEF LogInv, TextAccepted, rolloutVars
<1>15. CASE Completes
  BY <1>15 DEF LogInv, Completes, rolloutVars, EndRun
<1>16. CASE ChildrenGone
  BY <1>16 DEF LogInv, ChildrenGone, rolloutVars
<1>17. CASE Authorize
  BY <1>17 DEF LogInv, Authorize, rolloutVars
<1>18. CASE Refused
  BY <1>18 DEF LogInv, Refused, rolloutVars
<1>19. CASE AskUser
  BY <1>19 DEF LogInv, AskUser, rolloutVars
<1>20. CASE CommitDecision
  BY <1>20 DEF LogInv, CommitDecision, rolloutVars
<1>21. CASE CarryOut
  BY <1>21 DEF LogInv, CarryOut, rolloutVars
<1>22. CASE ToolReturns
  BY <1>22 DEF LogInv, ToolReturns, rolloutVars
<1>23. CASE RecordTerminal
  <2>1. run.turn \in Turns /\ run.status \in RunStatus /\ (pc = "finish" => run.status \in Final)
    BY <1>23 DEF RunInv, RunStates, InTurn, RecordTerminal
  <2>2. PICK item \in Item : log' = Append(log, item) /\ durable' = durable
    BY <2>1, <1>23 DEF Item, Entry, RecordTerminal, Recorded, Outcome, Final, Terminal
  <2> QED BY <2>2 DEF LogInv
<1>24. CASE ResetMetadata
  BY <1>24 DEF LogInv, ResetMetadata, rolloutVars
<1>25. CASE Flushed
  BY <1>25 DEF LogInv, Flushed
<1>26. CASE StartTurn
  BY <1>26 DEF LogInv, StartTurn, rolloutVars
<1>27. CASE Exit
  BY <1>27 DEF LogInv, Exit, rolloutVars
<1>28. CASE UserDecides
  BY <1>28 DEF LogInv, UserDecides, rolloutVars
<1>29. CASE CancelRun
  BY <1>29 DEF LogInv, CancelRun, rolloutVars
<1>30. CASE CancelOutside
  BY <1>30 DEF LogInv, CancelOutside, rolloutVars
<1>31. CASE Persist
  BY <1>31 DEF LogInv, Persist
<1>32. CASE Crash
  BY <1>32 DEF LogInv, Crash
<1>33. CASE Resume
  BY <1>33 DEF LogInv, Resume, rolloutVars
<1>34. CASE UNCHANGED vars
  BY <1>34 DEF vars, Save, NoSave, rolloutVars, runVars, ghosts, LogInv
<1> QED BY [Next]_vars, <1>1, <1>2, <1>3, <1>4, <1>5, <1>6, <1>7, <1>8, <1>9, <1>10, <1>11,
   <1>12, <1>13, <1>14, <1>15, <1>16, <1>17, <1>18, <1>19, <1>20, <1>21, <1>22, <1>23, <1>24,
   <1>25, <1>26, <1>27, <1>28, <1>29, <1>30, <1>31, <1>32, <1>33, <1>34 DEF Next, SessionStep

\* The other variables.
LEMMA RestInvStep ==
    ASSUME TypeInv, [Next]_vars
    PROVE  RestInv'
<1> USE TurnAssumption DEF TypeInv
<1>0. Open # {} => Call \in Open /\ Call \in Calls /\ Call \in 1..issued
  BY CallIsOpen
<1>1. CASE RecordStart
  BY <1>1 DEF RestInv, RecordStart, runVars, ghosts
<1>2. CASE WiringFails
  BY <1>2 DEF RestInv, WiringFails, ghosts
<1>3. CASE Close
  BY <1>3 DEF RestInv, Close, runVars, ghosts
<1>4. CASE ProcessEnds
  BY <1>4 DEF RestInv, ProcessEnds, ghosts
<1>5. CASE LoopFails
  BY <1>5 DEF RestInv, LoopFails, ghosts, EndRun
<1>6. CASE EnterLoop
  BY <1>6 DEF RestInv, EnterLoop, ghosts
<1>7. CASE BeginIteration
  BY <1>7 DEF RestInv, BeginIteration, runVars, ghosts
<1>8. CASE SendRequest
  BY <1>8 DEF RestInv, SendRequest, ghosts
<1>9. CASE ModelAnswers
  BY <1>9 DEF RestInv, ModelAnswers
<1>10. CASE BeginTool
  BY <1>10 DEF RestInv, BeginTool, runVars, ghosts
<1>11. CASE LaunchTool
  BY <1>11 DEF RestInv, LaunchTool, runVars, ghosts
<1>12. CASE NextIteration
  BY <1>12 DEF RestInv, NextIteration, runVars, ghosts
<1>13. CASE TextGuarded
  BY <1>13 DEF RestInv, TextGuarded, runVars, ghosts
<1>14. CASE TextAccepted
  BY <1>14 DEF RestInv, TextAccepted, runVars, ghosts
<1>15. CASE Completes
  BY <1>15 DEF RestInv, Completes, ghosts, EndRun
<1>16. CASE ChildrenGone
  BY <1>16 DEF RestInv, ChildrenGone, runVars, ghosts
<1>17. CASE Authorize
  <2>1. executions' = executions \/ executions' = [executions EXCEPT ![Call] = @ + 1]
    BY <1>17 DEF Authorize, Apply, Executes, Answered, Save
  <2>2. executions' \in [Calls -> Nat]
    BY <2>1 DEF RestInv
  <2>3. raising' = raising \/ raising' = TRUE
    BY <1>17 DEF Authorize, Apply, Executes, Answered, Save, Cancelled
  <2> QED BY <2>2, <2>3, <1>17 DEF Authorize, RestInv
<1>18. CASE Refused
  BY <1>18 DEF RestInv, Refused, ghosts
<1>19. CASE AskUser
  BY <1>19 DEF RestInv, AskUser, runVars, ghosts
<1>20. CASE CommitDecision
  BY <1>20 DEF RestInv, CommitDecision, runVars, ghosts
<1>21. CASE CarryOut
  <2>1. executions' = executions \/ executions' = [executions EXCEPT ![Call] = @ + 1]
    BY <1>21 DEF CarryOut, Apply, Executes, Answered, Save
  <2>2. executions' \in [Calls -> Nat]
    BY <2>1 DEF RestInv
  <2>3. raising' = raising \/ raising' = TRUE
    BY <1>21 DEF CarryOut, Apply, Executes, Answered, Save, Cancelled
  <2> QED BY <2>2, <2>3, <1>21 DEF CarryOut, RestInv
<1>22. CASE ToolReturns
  BY <1>22 DEF RestInv, ToolReturns, ghosts
<1>23. CASE RecordTerminal
  BY <1>23 DEF RestInv, RecordTerminal, runVars, ghosts
<1>24. CASE ResetMetadata
  BY <1>24 DEF RestInv, ResetMetadata, runVars, ghosts
<1>25. CASE Flushed
  BY <1>25 DEF RestInv, Flushed, ghosts
<1>26. CASE StartTurn
  BY <1>26 DEF RestInv, StartTurn, ghosts
<1>27. CASE Exit
  BY <1>27 DEF RestInv, Exit, runVars, ghosts
<1>28. CASE UserDecides
  BY <1>0, <1>28 DEF RestInv, UserDecides, runVars, ghosts
<1>29. CASE CancelRun
  BY <1>29 DEF RestInv, CancelRun, ghosts, Cancelled
<1>30. CASE CancelOutside
  BY <1>30 DEF RestInv, CancelOutside, runVars, ghosts
<1>31. CASE Persist
  BY <1>31 DEF RestInv, Persist, runVars, ghosts
<1>32. CASE Crash
  BY <1>32 DEF RestInv, Crash, ghosts
<1>33. CASE Resume
  <2>1. resumed' = resumed \/ resumed' = TRUE
    BY <1>33 DEF Resume, ResumeFresh, ResumeEnded, ResumeIncomplete, ResumeUnknown
  <2>2. meta' \in [status : {"IDLE", "ACTIVE", "CLOSED", "RECOVERY_REQUIRED"}, turns : 0..MaxTurns]
    BY <1>33 DEF Resume, ResumeFresh, ResumeEnded, ResumeIncomplete, ResumeUnknown, RestInv
  <2>3. manual' \subseteq Turns
    BY <1>33 DEF Resume, ResumeFresh, ResumeEnded, ResumeIncomplete, ResumeUnknown, RestInv,
       CkptInv
  <2> QED BY <2>1, <2>2, <2>3, <1>33 DEF Resume, RestInv
<1>34. CASE UNCHANGED vars
  BY <1>34 DEF vars, Save, NoSave, rolloutVars, runVars, ghosts, RestInv
<1> QED BY [Next]_vars, <1>1, <1>2, <1>3, <1>4, <1>5, <1>6, <1>7, <1>8, <1>9, <1>10, <1>11,
   <1>12, <1>13, <1>14, <1>15, <1>16, <1>17, <1>18, <1>19, <1>20, <1>21, <1>22, <1>23, <1>24,
   <1>25, <1>26, <1>27, <1>28, <1>29, <1>30, <1>31, <1>32, <1>33, <1>34 DEF Next, SessionStep

\* The place of the session.
LEMMA FlowInvStep ==
    ASSUME TypeInv, FlowInv, [Next]_vars
    PROVE  FlowInv'
<1> USE DEF TypeInv
<1>0. Open # {} => Call \in Open /\ Call \in Calls /\ Call \in 1..issued
  BY CallIsOpen
<1>1. CASE RecordStart
  BY <1>1 DEF FlowInv, ResponseReused, RecordStart, NoSave, runVars
<1>2. CASE WiringFails
  BY <1>2 DEF FlowInv, ResponseReused, WiringFails, NoSave
<1>3. CASE Close
  BY <1>3 DEF FlowInv, ResponseReused, Close, NoSave
<1>4. CASE ProcessEnds
  BY <1>4 DEF FlowInv, ResponseReused, ProcessEnds, NoSave
<1>5. CASE LoopFails
  BY <1>5 DEF FlowInv, ResponseReused, LoopFails, Save, EndRun
<1>6. CASE EnterLoop
  <2>1. Open' = Open
    BY <1>6 DEF EnterLoop, Open, RunInv, RunStates
  <2>2. pc' = "top" => Open = {}
    BY <1>6 DEF EnterLoop, FlowInv, ResponseReused, Open, Continuing, CkptInv, Points
  <2> QED BY <2>1, <2>2, <1>6 DEF EnterLoop, FlowInv, ResponseReused, NoSave
<1>7. CASE BeginIteration
  BY <1>7 DEF FlowInv, ResponseReused, BeginIteration, Save, runVars, Open
<1>8. CASE SendRequest
  BY <1>8 DEF RunInv, FlowInv, ResponseReused, SendRequest, Save, RunStates, Open
<1>9. CASE ModelAnswers
  BY <1>9 DEF FlowInv, ResponseReused, ModelAnswers, Save
<1>10. CASE BeginTool
  BY <1>10 DEF FlowInv, ResponseReused, BeginTool, Save
<1>11. CASE LaunchTool
  BY <1>11 DEF FlowInv, ResponseReused, LaunchTool, Save
<1>12. CASE NextIteration
  BY <1>12 DEF FlowInv, ResponseReused, NextIteration, NoSave, runVars, Open
<1>13. CASE TextGuarded
  BY <1>13 DEF FlowInv, ResponseReused, TextGuarded, NoSave, runVars, Open
<1>14. CASE TextAccepted
  BY <1>14 DEF FlowInv, ResponseReused, TextAccepted, Save
<1>15. CASE Completes
  BY <1>15 DEF FlowInv, ResponseReused, Completes, Save, EndRun
<1>16. CASE ChildrenGone
  BY <1>16 DEF FlowInv, ResponseReused, ChildrenGone, NoSave
<1>17. CASE Authorize
  <2>1. CASE Executes /\ NoSave
    BY <1>0, <2>1, <1>17 DEF Authorize, Executes, NoSave, CkptInv, FlowInv, ResponseReused,
       Call, ghosts, RunInv, RunStates, Known, Calls, Open, Ready, InLoop, AtCall, InTurn,
       RestInv
  <2>2. CASE Answered(WithResult) /\ UNCHANGED <<executions, raising>>
    BY <1>0, <2>2, <1>17 DEF Authorize, Answered, WithResult, Save, CkptInv, FlowInv,
       ResponseReused, Call, ghosts, RunInv, RunStates, Known, Calls, Open, Ready, InLoop,
       AtCall, InTurn, RestInv
  <2>3. CASE Cancelled /\ NoSave /\ UNCHANGED executions
    BY <1>0, <2>3, <1>17 DEF Authorize, Cancelled, NoSave, CkptInv, FlowInv, ResponseReused,
       Call, ghosts, RunInv, RunStates, Known, Calls, Open, Ready, InLoop, AtCall, InTurn,
       RestInv
  <2> QED BY <2>1, <2>2, <2>3, <1>17 DEF Authorize, Apply
<1>18. CASE Refused
  BY <1>18 DEF FlowInv, ResponseReused, Refused, Save, Answered
<1>19. CASE AskUser
  BY <1>19 DEF FlowInv, ResponseReused, Call, AskUser, Save, runVars, Open
<1>20. CASE CommitDecision
  BY <1>20 DEF FlowInv, ResponseReused, Call, CommitDecision, Save, runVars, Open
<1>21. CASE CarryOut
  <2>1. CASE Executes /\ NoSave
    BY <1>0, <2>1, <1>21 DEF CarryOut, Executes, NoSave, CkptInv, FlowInv, ResponseReused,
       Call, ghosts, RunInv, RunStates, Known, Calls, Open, Ready, InLoop, AtCall, InTurn,
       RestInv
  <2>2. CASE Answered(WithResult) /\ UNCHANGED <<executions, raising>>
    BY <1>0, <2>2, <1>21 DEF CarryOut, Answered, WithResult, Save, CkptInv, FlowInv,
       ResponseReused, Call, ghosts, RunInv, RunStates, Known, Calls, Open, Ready, InLoop,
       AtCall, InTurn, RestInv
  <2>3. CASE Cancelled /\ NoSave /\ UNCHANGED executions
    BY <1>0, <2>3, <1>21 DEF CarryOut, Cancelled, NoSave, CkptInv, FlowInv, ResponseReused,
       Call, ghosts, RunInv, RunStates, Known, Calls, Open, Ready, InLoop, AtCall, InTurn,
       RestInv
  <2> QED BY <2>1, <2>2, <2>3, <1>21 DEF CarryOut, Apply
<1>22. CASE ToolReturns
  BY <1>22 DEF FlowInv, ResponseReused, ToolReturns, Save, Answered
<1>23. CASE RecordTerminal
  BY <1>23 DEF FlowInv, ResponseReused, RecordTerminal, NoSave
<1>24. CASE ResetMetadata
  BY <1>24 DEF FlowInv, ResponseReused, ResetMetadata, NoSave
<1>25. CASE Flushed
  BY <1>25 DEF FlowInv, ResponseReused, Flushed, NoSave
<1>26. CASE StartTurn
  BY <1>26 DEF FlowInv, ResponseReused, StartTurn, NoSave, Blank
<1>27. CASE Exit
  BY <1>27 DEF FlowInv, ResponseReused, Exit, NoSave
<1>28. CASE UserDecides
  BY <1>28 DEF FlowInv, ResponseReused, Call, UserDecides, NoSave, runVars, Open
<1>29. CASE CancelRun
  BY <1>29 DEF FlowInv, ResponseReused, CancelRun, NoSave, Cancelled
<1>30. CASE CancelOutside
  BY <1>30 DEF FlowInv, ResponseReused, CancelOutside, NoSave
<1>31. CASE Persist
  BY <1>31 DEF FlowInv, ResponseReused, Call, Persist, NoSave, runVars, Open
<1>32. CASE Crash
  BY <1>32 DEF FlowInv, ResponseReused, Crash, NoSave
<1>33. CASE Resume
  BY <1>0, <1>33 DEF FlowInv, ResponseReused, Resume, NoSave, ResumeFresh, ResumeEnded,
     ResumeIncomplete, ResumeUnknown
<1>34. CASE UNCHANGED vars
  BY <1>34 DEF vars, Save, NoSave, rolloutVars, runVars, ghosts, FlowInv, ResponseReused,
     Open, Call
<1> QED BY [Next]_vars, <1>1, <1>2, <1>3, <1>4, <1>5, <1>6, <1>7, <1>8, <1>9, <1>10, <1>11,
   <1>12, <1>13, <1>14, <1>15, <1>16, <1>17, <1>18, <1>19, <1>20, <1>21, <1>22, <1>23, <1>24,
   <1>25, <1>26, <1>27, <1>28, <1>29, <1>30, <1>31, <1>32, <1>33, <1>34 DEF Next, SessionStep

\* Executions of calls that need no approval.
LEMMA BlindInvStep ==
    ASSUME TypeInv, FlowInv, BlindInv, [Next]_vars
    PROVE  BlindInv'
<1> USE DEF TypeInv
<1>0. Open # {} => Call \in Open /\ Call \in Calls /\ Call \in 1..issued
  BY CallIsOpen
<1>1. CASE RecordStart
  BY <1>1 DEF BlindInv, NoBlindReplay, RecordStart, NoSave, runVars, ghosts, Open, Ready
<1>2. CASE WiringFails
  BY <1>2 DEF BlindInv, NoBlindReplay, WiringFails, NoSave, ghosts, InLoop, Ready
<1>3. CASE Close
  BY <1>3 DEF BlindInv, NoBlindReplay, Close, NoSave, ghosts, InLoop, Ready
<1>4. CASE ProcessEnds
  BY <1>4 DEF BlindInv, NoBlindReplay, ProcessEnds, NoSave, ghosts, Blank, Open
<1>5. CASE LoopFails
  BY <1>5 DEF BlindInv, NoBlindReplay, LoopFails, Save, ghosts, EndRun, InLoop, Ready
<1>6. CASE EnterLoop
  BY <1>6 DEF BlindInv, NoBlindReplay, EnterLoop, NoSave, ghosts, Open, Ready
<1>7. CASE BeginIteration
  BY <1>7 DEF FlowInv, BlindInv, NoBlindReplay, BeginIteration, Save, runVars, ghosts, Open
<1>8. CASE SendRequest
  BY <1>8 DEF RunInv, FlowInv, BlindInv, NoBlindReplay, SendRequest, Save, ghosts, RunStates, Open
<1>9. CASE ModelAnswers
  BY <1>9 DEF RunInv, BlindInv, NoBlindReplay, ModelAnswers, Save, RunStates, Open
<1>10. CASE BeginTool
  BY <1>10 DEF BlindInv, NoBlindReplay, BeginTool, Save, runVars, ghosts, InLoop, Open, Ready
<1>11. CASE LaunchTool
  BY <1>11 DEF BlindInv, NoBlindReplay, LaunchTool, Save, runVars, ghosts, InLoop, Open, Ready
<1>12. CASE NextIteration
  BY <1>12 DEF BlindInv, NoBlindReplay, NextIteration, NoSave, runVars, ghosts, Open
<1>13. CASE TextGuarded
  BY <1>13 DEF BlindInv, NoBlindReplay, TextGuarded, NoSave, runVars, ghosts, Open
<1>14. CASE TextAccepted
  BY <1>14 DEF BlindInv, NoBlindReplay, TextAccepted, Save, runVars, ghosts, Open
<1>15. CASE Completes
  BY <1>15 DEF BlindInv, NoBlindReplay, Completes, Save, ghosts, EndRun, InLoop, Ready
<1>16. CASE ChildrenGone
  BY <1>16 DEF BlindInv, NoBlindReplay, ChildrenGone, NoSave, ghosts, InLoop, Ready
<1>17. CASE Authorize
  <2>1. CASE Executes /\ NoSave
    <3>1. Call \in Calls /\ Call \in Open /\ Call \in 1..issued
      BY <1>0, <1>17 DEF Authorize, RunInv, AtCall
    <3>2. \A c \in Calls : /\ executions[c] \in Nat
                           /\ executions'[c] = IF c = Call THEN executions[c] + 1 ELSE executions[c]
      BY <2>1, <3>1 DEF Executes, RestInv
    <3>3. Call \notin Asking => executions[Call] = 0 /\ ckpt.point = "TOOL_IN_FLIGHT"
      BY <1>17, <3>1, <3>2 DEF Authorize, BlindInv, FlowInv, Ready, InLoop
    <3>4. Open' = Open /\ Call' = Call /\ issued' = issued /\ ckpt' = ckpt /\ pc' = "executing"
      BY <2>1, <1>17 DEF Authorize, Executes, NoSave, Open, Call
    <3>5. \A c \in Calls \ Asking : c # Call /\ c \in Open => executions[c] = 0
      BY <1>17, <3>2 DEF Authorize, BlindInv, Ready, InLoop
    <3> QED BY <3>1, <3>2, <3>3, <3>4, <3>5 DEF BlindInv, NoBlindReplay
  <2>2. CASE Answered(WithResult) /\ UNCHANGED <<executions, raising>>
    BY <1>0, <2>2, <1>17 DEF Authorize, Answered, WithResult, Save, CkptInv, FlowInv, Call,
       BlindInv, NoBlindReplay, ghosts, RunInv, RunStates, Known, Calls, Open, Ready,
       InLoop, AtCall, InTurn, RestInv
  <2>3. CASE Cancelled /\ NoSave /\ UNCHANGED executions
    BY <1>0, <2>3, <1>17 DEF Authorize, Cancelled, NoSave, CkptInv, FlowInv, Call, BlindInv,
       NoBlindReplay, ghosts, RunInv, RunStates, Known, Calls, Open, Ready, InLoop, AtCall,
       InTurn, RestInv
  <2> QED BY <2>1, <2>2, <2>3, <1>17 DEF Authorize, Apply
<1>18. CASE Refused
  BY <1>18 DEF RunInv, BlindInv, NoBlindReplay, Refused, Save, ghosts, Answered, WithResult,
     RunStates, InLoop, Open, Ready
<1>19. CASE AskUser
  BY <1>19 DEF BlindInv, NoBlindReplay, AskUser, Save, runVars, ghosts, InLoop, Open, Ready
<1>20. CASE CommitDecision
  BY <1>20 DEF BlindInv, NoBlindReplay, CommitDecision, Save, runVars, ghosts, InLoop, Open, Ready
<1>21. CASE CarryOut
  <2>1. CASE Executes /\ NoSave
    <3>1. Call \in Calls /\ Call \in Open /\ Call \in 1..issued
      BY <1>0, <1>21 DEF CarryOut, RunInv, AtCall
    <3>2. \A c \in Calls : /\ executions[c] \in Nat
                           /\ executions'[c] = IF c = Call THEN executions[c] + 1 ELSE executions[c]
      BY <2>1, <3>1 DEF Executes, RestInv
    <3>3. Call \notin Asking => executions[Call] = 0 /\ ckpt.point = "TOOL_IN_FLIGHT"
      BY <1>21, <3>1, <3>2 DEF CarryOut, BlindInv, FlowInv, Ready, InLoop
    <3>4. Open' = Open /\ Call' = Call /\ issued' = issued /\ ckpt' = ckpt /\ pc' = "executing"
      BY <2>1, <1>21 DEF CarryOut, Executes, NoSave, Open, Call
    <3>5. \A c \in Calls \ Asking : c # Call /\ c \in Open => executions[c] = 0
      BY <1>21, <3>2 DEF CarryOut, BlindInv, Ready, InLoop
    <3> QED BY <3>1, <3>2, <3>3, <3>4, <3>5 DEF BlindInv, NoBlindReplay
  <2>2. CASE Answered(WithResult) /\ UNCHANGED <<executions, raising>>
    BY <1>0, <2>2, <1>21 DEF CarryOut, Answered, WithResult, Save, CkptInv, FlowInv, Call,
       BlindInv, NoBlindReplay, ghosts, RunInv, RunStates, Known, Calls, Open, Ready,
       InLoop, AtCall, InTurn, RestInv
  <2>3. CASE Cancelled /\ NoSave /\ UNCHANGED executions
    BY <1>0, <2>3, <1>21 DEF CarryOut, Cancelled, NoSave, CkptInv, FlowInv, Call, BlindInv,
       NoBlindReplay, ghosts, RunInv, RunStates, Known, Calls, Open, Ready, InLoop, AtCall,
       InTurn, RestInv
  <2> QED BY <2>1, <2>2, <2>3, <1>21 DEF CarryOut, Apply
<1>22. CASE ToolReturns
  BY <1>22 DEF RunInv, BlindInv, NoBlindReplay, ToolReturns, Save, ghosts, Answered,
     WithResult, RunStates, InLoop, Open, Ready
<1>23. CASE RecordTerminal
  BY <1>23 DEF BlindInv, NoBlindReplay, RecordTerminal, NoSave, ghosts, InLoop, Ready
<1>24. CASE ResetMetadata
  BY <1>24 DEF BlindInv, NoBlindReplay, ResetMetadata, NoSave, ghosts, InLoop, Ready
<1>25. CASE Flushed
  BY <1>25 DEF BlindInv, NoBlindReplay, Flushed, NoSave, ghosts, InLoop, Ready
<1>26. CASE StartTurn
  BY <1>26 DEF BlindInv, NoBlindReplay, StartTurn, NoSave, ghosts, Blank, Open
<1>27. CASE Exit
  BY <1>27 DEF BlindInv, NoBlindReplay, Exit, NoSave, ghosts, InLoop, Ready
<1>28. CASE UserDecides
  BY <1>28 DEF BlindInv, NoBlindReplay, UserDecides, NoSave, runVars, ghosts, InLoop, Open, Ready
<1>29. CASE CancelRun
  BY <1>29 DEF BlindInv, NoBlindReplay, CancelRun, NoSave, ghosts, Cancelled, InLoop, Ready
<1>30. CASE CancelOutside
  BY <1>30 DEF BlindInv, NoBlindReplay, CancelOutside, NoSave, ghosts, InLoop, Ready
<1>31. CASE Persist
  BY <1>31 DEF Call, BlindInv, NoBlindReplay, Persist, NoSave, runVars, ghosts, Open
<1>32. CASE Crash
  BY <1>32 DEF BlindInv, NoBlindReplay, Crash, NoSave, ghosts, Blank, Open
<1>33. CASE Resume
  BY <1>33 DEF BlindInv, NoBlindReplay, Resume, NoSave, ResumeFresh, ResumeEnded,
     ResumeIncomplete, ResumeUnknown, InLoop, Open, Ready
<1>34. CASE UNCHANGED vars
  BY <1>34 DEF vars, Save, NoSave, rolloutVars, runVars, ghosts, BlindInv, NoBlindReplay,
     Open, Call
<1> QED BY [Next]_vars, <1>1, <1>2, <1>3, <1>4, <1>5, <1>6, <1>7, <1>8, <1>9, <1>10, <1>11,
   <1>12, <1>13, <1>14, <1>15, <1>16, <1>17, <1>18, <1>19, <1>20, <1>21, <1>22, <1>23, <1>24,
   <1>25, <1>26, <1>27, <1>28, <1>29, <1>30, <1>31, <1>32, <1>33, <1>34 DEF Next, SessionStep

\* Executions of calls that need approval.
LEMMA ApprovalRespectedStep ==
    ASSUME TypeInv, FlowInv, ApprovalRespected, [Next]_vars
    PROVE  ApprovalRespected'
<1> USE DEF TypeInv
<1>1. CASE RecordStart
  BY <1>1 DEF ApprovalRespected, RecordStart, ghosts
<1>2. CASE WiringFails
  BY <1>2 DEF ApprovalRespected, WiringFails, ghosts
<1>3. CASE Close
  BY <1>3 DEF ApprovalRespected, Close, ghosts
<1>4. CASE ProcessEnds
  BY <1>4 DEF ApprovalRespected, ProcessEnds, ghosts
<1>5. CASE LoopFails
  BY <1>5 DEF ApprovalRespected, LoopFails, ghosts, EndRun
<1>6. CASE EnterLoop
  BY <1>6 DEF ApprovalRespected, EnterLoop, ghosts
<1>7. CASE BeginIteration
  BY <1>7 DEF ApprovalRespected, BeginIteration, ghosts
<1>8. CASE SendRequest
  BY <1>8 DEF ApprovalRespected, SendRequest, ghosts
<1>9. CASE ModelAnswers
  BY <1>9 DEF ApprovalRespected, ModelAnswers
<1>10. CASE BeginTool
  BY <1>10 DEF ApprovalRespected, BeginTool, ghosts
<1>11. CASE LaunchTool
  BY <1>11 DEF ApprovalRespected, LaunchTool, ghosts
<1>12. CASE NextIteration
  BY <1>12 DEF ApprovalRespected, NextIteration, ghosts
<1>13. CASE TextGuarded
  BY <1>13 DEF ApprovalRespected, TextGuarded, ghosts
<1>14. CASE TextAccepted
  BY <1>14 DEF ApprovalRespected, TextAccepted, ghosts
<1>15. CASE Completes
  BY <1>15 DEF ApprovalRespected, Completes, ghosts, EndRun
<1>16. CASE ChildrenGone
  BY <1>16 DEF ApprovalRespected, ChildrenGone, ghosts
<1>17. CASE Authorize
  <2>1. \/ executions' = executions
        \/ /\ executions' = [executions EXCEPT ![Call] = @ + 1]
           /\ Call \in Asking => decision[Call] = "allow"
    BY <1>17 DEF Authorize, Apply, Executes
  <2> QED BY <2>1, <1>17, TurnAssumption DEF Authorize, ApprovalRespected, RestInv, Calls
<1>18. CASE Refused
  BY <1>18 DEF ApprovalRespected, Refused, ghosts
<1>19. CASE AskUser
  BY <1>19 DEF ApprovalRespected, AskUser, ghosts
<1>20. CASE CommitDecision
  BY <1>20 DEF ApprovalRespected, CommitDecision, ghosts
<1>21. CASE CarryOut
  <2>1. \/ executions' = executions
        \/ /\ executions' = [executions EXCEPT ![Call] = @ + 1]
           /\ Call \in Asking => decision[Call] = "allow"
    BY <1>21 DEF CarryOut, Apply, Executes
  <2> QED BY <2>1, <1>21, TurnAssumption DEF CarryOut, ApprovalRespected, RestInv, Calls
<1>22. CASE ToolReturns
  BY <1>22 DEF ApprovalRespected, ToolReturns, ghosts
<1>23. CASE RecordTerminal
  BY <1>23 DEF ApprovalRespected, RecordTerminal, ghosts
<1>24. CASE ResetMetadata
  BY <1>24 DEF ApprovalRespected, ResetMetadata, ghosts
<1>25. CASE Flushed
  BY <1>25 DEF ApprovalRespected, Flushed, ghosts
<1>26. CASE StartTurn
  BY <1>26 DEF ApprovalRespected, StartTurn, ghosts
<1>27. CASE Exit
  BY <1>27 DEF ApprovalRespected, Exit, ghosts
<1>28. CASE UserDecides
  <2>1. Call \in Asking => ~(executions[Call] > 0)
    BY <1>28 DEF UserDecides, FlowInv, ApprovalRespected
  <2>2. \A c \in Asking : c # Call => decision'[c] = decision[c]
    BY <1>28, TurnAssumption DEF UserDecides, RestInv, Calls
  <2> QED BY <2>1, <2>2, <1>28 DEF UserDecides, ApprovalRespected, ghosts
<1>29. CASE CancelRun
  BY <1>29 DEF ApprovalRespected, CancelRun, ghosts
<1>30. CASE CancelOutside
  BY <1>30 DEF ApprovalRespected, CancelOutside, ghosts
<1>31. CASE Persist
  BY <1>31 DEF ApprovalRespected, Persist, ghosts
<1>32. CASE Crash
  BY <1>32 DEF ApprovalRespected, Crash, ghosts
<1>33. CASE Resume
  BY <1>33 DEF ApprovalRespected, Resume
<1>34. CASE UNCHANGED vars
  BY <1>34 DEF vars, Save, NoSave, rolloutVars, runVars, ghosts, ApprovalRespected
<1> QED BY [Next]_vars, <1>1, <1>2, <1>3, <1>4, <1>5, <1>6, <1>7, <1>8, <1>9, <1>10, <1>11,
   <1>12, <1>13, <1>14, <1>15, <1>16, <1>17, <1>18, <1>19, <1>20, <1>21, <1>22, <1>23, <1>24,
   <1>25, <1>26, <1>27, <1>28, <1>29, <1>30, <1>31, <1>32, <1>33, <1>34 DEF Next, SessionStep

\* Checkpointed results.
LEMMA AnswerInvStep ==
    ASSUME TypeInv, FlowInv, AnswerInv, [Next]_vars
    PROVE  AnswerInv'
<1> USE DEF TypeInv
<1>0. Open # {} => Call \in Open /\ Call \in Calls /\ Call \in 1..issued
  BY CallIsOpen
<1>1. CASE RecordStart
  BY <1>1 DEF AnswerInv, RecordStart, NoSave, runVars, Open, Ready
<1>2. CASE WiringFails
  BY <1>2 DEF AnswerInv, WiringFails, NoSave, InLoop, Ready
<1>3. CASE Close
  BY <1>3 DEF AnswerInv, Close, NoSave, InLoop, Ready
<1>4. CASE ProcessEnds
  BY <1>4 DEF AnswerInv, ProcessEnds, NoSave, Blank, Open
<1>5. CASE LoopFails
  BY <1>5 DEF RunInv, AnswerInv, LoopFails, Save, EndRun, RunStates, InLoop, Open, Ready
<1>6. CASE EnterLoop
  BY <1>6 DEF AnswerInv, EnterLoop, NoSave, Open, Ready
<1>7. CASE BeginIteration
  BY <1>7 DEF FlowInv, AnswerInv, BeginIteration, Save, runVars, Open
<1>8. CASE SendRequest
  BY <1>8 DEF RunInv, FlowInv, AnswerInv, SendRequest, Save, RunStates, Open
<1>9. CASE ModelAnswers
  BY <1>9 DEF CkptInv, RunInv, AnswerInv, ModelAnswers, Save, RunStates, Open, Known
<1>10. CASE BeginTool
  BY <1>10 DEF AnswerInv, BeginTool, Save, runVars, InLoop, Open, Ready
<1>11. CASE LaunchTool
  BY <1>11 DEF AnswerInv, LaunchTool, Save, runVars, InLoop, Open, Ready
<1>12. CASE NextIteration
  BY <1>12 DEF AnswerInv, NextIteration, NoSave, runVars, Open
<1>13. CASE TextGuarded
  BY <1>13 DEF AnswerInv, TextGuarded, NoSave, runVars, Open
<1>14. CASE TextAccepted
  BY <1>14 DEF AnswerInv, TextAccepted, Save, runVars, Open
<1>15. CASE Completes
  BY <1>15 DEF RunInv, AnswerInv, Completes, Save, EndRun, RunStates, InLoop, Open, Ready
<1>16. CASE ChildrenGone
  BY <1>16 DEF AnswerInv, ChildrenGone, NoSave, InLoop, Ready
<1>17. CASE Authorize
  <2>1. CASE Executes /\ NoSave
    BY <1>0, <2>1, <1>17 DEF Authorize, Executes, NoSave, CkptInv, FlowInv, AnswerInv,
       ghosts, RunInv, RunStates, Known, Calls, Open, Ready, InLoop, AtCall, InTurn, RestInv
  <2>2. CASE Answered(WithResult) /\ UNCHANGED <<executions, raising>>
    BY <1>0, <2>2, <1>17 DEF Authorize, Answered, WithResult, Save, CkptInv, FlowInv,
       AnswerInv, ghosts, RunInv, RunStates, Known, Calls, Open, Ready, InLoop, AtCall,
       InTurn, RestInv
  <2>3. CASE Cancelled /\ NoSave /\ UNCHANGED executions
    BY <1>0, <2>3, <1>17 DEF Authorize, Cancelled, NoSave, CkptInv, FlowInv, AnswerInv,
       ghosts, RunInv, RunStates, Known, Calls, Open, Ready, InLoop, AtCall, InTurn, RestInv
  <2> QED BY <2>1, <2>2, <2>3, <1>17 DEF Authorize, Apply
<1>18. CASE Refused
  BY <1>18 DEF RunInv, AnswerInv, Refused, Save, Answered, WithResult, RunStates, InLoop,
     Open, Ready
<1>19. CASE AskUser
  BY <1>19 DEF AnswerInv, AskUser, Save, runVars, InLoop, Open, Ready
<1>20. CASE CommitDecision
  BY <1>20 DEF AnswerInv, CommitDecision, Save, runVars, InLoop, Open, Ready
<1>21. CASE CarryOut
  <2>1. CASE Executes /\ NoSave
    BY <1>0, <2>1, <1>21 DEF CarryOut, Executes, NoSave, CkptInv, FlowInv, AnswerInv,
       ghosts, RunInv, RunStates, Known, Calls, Open, Ready, InLoop, AtCall, InTurn, RestInv
  <2>2. CASE Answered(WithResult) /\ UNCHANGED <<executions, raising>>
    BY <1>0, <2>2, <1>21 DEF CarryOut, Answered, WithResult, Save, CkptInv, FlowInv,
       AnswerInv, ghosts, RunInv, RunStates, Known, Calls, Open, Ready, InLoop, AtCall,
       InTurn, RestInv
  <2>3. CASE Cancelled /\ NoSave /\ UNCHANGED executions
    BY <1>0, <2>3, <1>21 DEF CarryOut, Cancelled, NoSave, CkptInv, FlowInv, AnswerInv,
       ghosts, RunInv, RunStates, Known, Calls, Open, Ready, InLoop, AtCall, InTurn, RestInv
  <2> QED BY <2>1, <2>2, <2>3, <1>21 DEF CarryOut, Apply
<1>22. CASE ToolReturns
  BY <1>22 DEF RunInv, AnswerInv, ToolReturns, Save, Answered, WithResult, RunStates, InLoop,
     Open, Ready
<1>23. CASE RecordTerminal
  BY <1>23 DEF AnswerInv, RecordTerminal, NoSave, InLoop, Ready
<1>24. CASE ResetMetadata
  BY <1>24 DEF AnswerInv, ResetMetadata, NoSave, InLoop, Ready
<1>25. CASE Flushed
  BY <1>25 DEF AnswerInv, Flushed, NoSave, InLoop, Ready
<1>26. CASE StartTurn
  BY <1>26 DEF AnswerInv, StartTurn, NoSave, Blank, Open
<1>27. CASE Exit
  BY <1>27 DEF AnswerInv, Exit, NoSave, InLoop, Ready
<1>28. CASE UserDecides
  BY <1>28 DEF AnswerInv, UserDecides, NoSave, runVars, InLoop, Open, Ready
<1>29. CASE CancelRun
  BY <1>29 DEF AnswerInv, CancelRun, NoSave, Cancelled, InLoop, Ready
<1>30. CASE CancelOutside
  BY <1>30 DEF AnswerInv, CancelOutside, NoSave, InLoop, Ready
<1>31. CASE Persist
  BY <1>31 DEF AnswerInv, Persist, NoSave, runVars, Open
<1>32. CASE Crash
  BY <1>32 DEF AnswerInv, Crash, NoSave, Blank, Open
<1>33. CASE Resume
  BY <1>33 DEF AnswerInv, Resume, NoSave, ResumeFresh, ResumeEnded, ResumeIncomplete,
     ResumeUnknown, InLoop, Open, Ready
<1>34. CASE UNCHANGED vars
  BY <1>34 DEF vars, Save, NoSave, rolloutVars, runVars, ghosts, AnswerInv, Open
<1> QED BY [Next]_vars, <1>1, <1>2, <1>3, <1>4, <1>5, <1>6, <1>7, <1>8, <1>9, <1>10, <1>11,
   <1>12, <1>13, <1>14, <1>15, <1>16, <1>17, <1>18, <1>19, <1>20, <1>21, <1>22, <1>23, <1>24,
   <1>25, <1>26, <1>27, <1>28, <1>29, <1>30, <1>31, <1>32, <1>33, <1>34 DEF Next, SessionStep

\* No call with a checkpointed result is executed.
LEMMA ResultsStep ==
    ASSUME TypeInv, FlowInv, AnswerInv, [Next]_vars
    PROVE  \A c \in answered : executions'[c] = executions[c]
<1>1. executions' = executions \/ (pc \in {"authorize", "apply"} /\ Executes)
  <2>1. CASE Authorize
    BY <2>1 DEF Authorize, Apply
  <2>2. CASE CarryOut
    BY <2>2 DEF CarryOut, Apply
  <2>3. CASE Resume \/ UNCHANGED vars
    BY <2>3 DEF Resume, vars, ghosts
  <2>4. CASE Next /\ ~Authorize /\ ~CarryOut /\ ~Resume
    BY <2>4 DEF Next, SessionStep, RecordStart, WiringFails, Close, ProcessEnds, LoopFails,
       EnterLoop,
       BeginIteration, SendRequest, ModelAnswers, BeginTool, LaunchTool, NextIteration, TextGuarded,
       TextAccepted, Completes, EndRun, ChildrenGone, Refused, AskUser, CommitDecision, ToolReturns,
       RecordTerminal, ResetMetadata, Flushed, StartTurn, Exit, UserDecides, CancelRun, CancelOutside,
       Persist, Crash, ghosts
  <2> QED BY [Next]_vars, <2>1, <2>2, <2>3, <2>4
<1>2. CASE pc \in {"authorize", "apply"} /\ Executes
  <2>1. Call \in Open
    BY <1>2, CallIsOpen DEF TypeInv, RunInv, AtCall
  <2>2. Call \notin answered
    BY <1>2, <2>1 DEF AnswerInv, Ready, InLoop
  <2>3. executions' = [executions EXCEPT ![Call] = executions[Call] + 1]
    BY <1>2 DEF Executes
  <2>4. \A c \in answered : c \in Calls
    BY TurnAssumption DEF TypeInv, CkptInv, RunInv, Calls
  <2> QED BY <2>2, <2>3, <2>4 DEF TypeInv, RestInv
<1> QED BY <1>1, <1>2

-----------------------------------------------------------------------------
(* The record and the checkpoints.                                         *)

Over == {"turn.completed", "turn.failed"}

\* Turns are numbered in order: the record and the checkpoint know of none
\* that the metadata has not counted, and of a new turn nothing at all.
NumberInv ==
    /\ run.turn <= meta.turns
    /\ ckpt.run.turn <= meta.turns
    /\ \A i \in DOMAIN log : log[i].turn <= meta.turns
    /\ pc = "starting" => \A i \in DOMAIN log : log[i].turn < run.turn
    /\ pc \in {"starting", "wiring"} /\ ~resumed => ckpt.run.turn < run.turn
    /\ TurnIdsFresh

\* A turn that is over on record is neither the one that runs nor the one an
\* unfinished checkpoint would continue.
OverInv ==
    /\ pc \in {"starting", "wiring", "leaving", "finish"} \cup InLoop => ~Has(run.turn, Over)
    /\ ckpt.point \notin {"NONE", "TERMINAL"} => ~Has(ckpt.run.turn, Over)
    /\ pc = "finish" /\ run.status # "CANCELLED" =>
         ckpt.point \in {"NONE", "TERMINAL"} \/ ckpt.run.turn # run.turn

\* The turn whose end is being written is the one of the last checkpoint,
\* unless an exception closes the session afterwards.
EndInv ==
    /\ pc = "leaving" => ckpt.point = "TERMINAL" /\ ckpt.run.turn = run.turn
    /\ pc \in {"finish", "metadata", "flushing"} /\ ~raising => ckpt.run.turn = run.turn
    /\ pc \in {"metadata", "flushing"} => Ended(run.turn)
    /\ NoTurnForgotten

AccountInv == NumberInv /\ OverInv /\ EndInv

\* A step, by what it does to the record, the last checkpoint and the turn of
\* the session.
NewTurn ==
    /\ pc = "idle" /\ pc' = "starting"
    /\ run'.turn = meta.turns + 1 /\ meta'.turns = meta.turns + 1
    /\ UNCHANGED <<log, ckpt, manual>>
Starts ==
    /\ pc = "starting" /\ pc' = "wiring"
    /\ log' = Append(log, Entry(run.turn, "turn.started"))
    /\ UNCHANGED <<ckpt, meta, run, resumed, raising, manual>>
Loops ==
    /\ pc \in {"wiring"} \cup InLoop /\ pc' \in InLoop
    /\ run'.turn = run.turn
    /\ ckpt' = ckpt \/ ckpt'.run.turn = run.turn
    /\ UNCHANGED <<log, meta, manual>>
Ends ==
    /\ pc \in InLoop /\ pc' \in {"leaving", "finish"}
    /\ run'.turn = run.turn /\ ckpt'.point = "TERMINAL" /\ ckpt'.run.turn = run.turn
    /\ UNCHANGED <<log, meta, manual>>
Leaves ==
    /\ pc = "leaving" /\ pc' = "finish"
    /\ UNCHANGED <<log, ckpt, meta, run, manual>>
Aborts ==
    /\ pc \in {"wiring", "leaving"} \cup InLoop /\ pc' = "finish" /\ ~resumed
    /\ run'.turn = run.turn /\ (run'.status = "CANCELLED" \/ pc = "wiring")
    /\ raising' = TRUE
    /\ UNCHANGED <<log, ckpt, meta, manual>>
Stops ==
    /\ pc' \in {"closing", "draining", "down"}
    /\ log' = log \/ log' = SubSeq(log, 1, durable)
    /\ run' \in {run, Blank} /\ meta'.turns = meta.turns
    /\ UNCHANGED <<ckpt, manual>>
EndRecorded ==
    /\ pc = "finish" /\ pc' = "metadata"
    /\ log' = Append(log, Entry(run.turn, Outcome[run.status]))
    /\ UNCHANGED <<ckpt, meta, run, raising, manual>>
Settles ==
    /\ \/ pc = "metadata" /\ pc' = "flushing"
       \/ pc = "flushing" /\ pc' = "idle" /\ ~raising
    /\ meta'.turns = meta.turns
    /\ UNCHANGED <<log, ckpt, run, raising, manual>>
Resumes ==
    /\ pc = "down" /\ meta'.turns = meta.turns
    /\ \/ /\ pc' = "idle" /\ run' \in {run, ckpt.run}
          /\ ckpt.point = "NONE" \/ Ended(ckpt.run.turn) \/ ckpt.run.turn \in manual'
       \/ pc' = "finish" /\ run' = ckpt.run /\ ckpt.point = "TERMINAL" /\ ~Ended(ckpt.run.turn)
       \/ pc' = "wiring" /\ run' = ckpt.run /\ resumed' /\ ckpt.point \notin {"NONE", "TERMINAL"}
    /\ UNCHANGED <<log, ckpt>>
Waits == UNCHANGED <<log, ckpt, meta, pc, run, resumed, raising, manual>>

LEMMA RecordMoves ==
    ASSUME TypeInv, [Next]_vars
    PROVE  \/ NewTurn \/ Starts \/ Loops \/ Ends \/ Leaves \/ Aborts \/ Stops
           \/ EndRecorded \/ Settles \/ Resumes \/ Waits
<1> USE DEF TypeInv
<1>0. run \in RunStates /\ ckpt.run \in RunStates /\ meta.turns \in Nat
  BY TurnAssumption DEF RunInv, CkptInv, RestInv
<1>1. CASE StartTurn
  <2>1. run' = [Blank EXCEPT !.turn = meta.turns + 1, !.results = run.results]
    BY <1>1 DEF StartTurn
  <2>2. run'.turn = meta.turns + 1
    BY <2>1 DEF Blank
  <2> QED BY <1>1, <2>2 DEF StartTurn, NewTurn, NoSave, rolloutVars, ghosts
<1>2. CASE RecordStart
  BY <1>2 DEF RecordStart, Recorded, Starts, NoSave, runVars, ghosts
<1>3. CASE EnterLoop \/ NextIteration \/ TextGuarded \/ UserDecides
  BY <1>0, <1>3 DEF EnterLoop, NextIteration, TextGuarded, UserDecides, Loops, InLoop, RunStates, NoSave,
     rolloutVars, runVars, ghosts
<1>4. CASE BeginIteration \/ BeginTool \/ LaunchTool \/ TextAccepted \/ AskUser \/ CommitDecision
  BY <1>4 DEF BeginIteration, BeginTool, LaunchTool, TextAccepted, AskUser, CommitDecision, Loops, InLoop, Save,
     rolloutVars, runVars, ghosts
<1>5. CASE SendRequest \/ ModelAnswers
  BY <1>0, <1>5 DEF SendRequest, ModelAnswers, Loops, InLoop, RunStates, Save, rolloutVars, ghosts
<1>6. CASE Refused \/ ToolReturns
  BY <1>0, <1>6 DEF Refused, ToolReturns, Answered, WithResult, Loops, InLoop, RunStates, Save, rolloutVars, ghosts
<1>7. CASE Authorize \/ CarryOut
  <2>1. /\ pc \in {"authorize", "apply"} /\ UNCHANGED <<log, meta, resumed, manual>>
        /\ (Executes /\ NoSave) \/ Answered(WithResult) \/ (Cancelled /\ NoSave)
    BY <1>7 DEF Authorize, CarryOut, Apply, rolloutVars
  <2>2. CASE Executes /\ NoSave
    BY <2>1, <2>2 DEF Executes, NoSave, Loops, InLoop
  <2>3. CASE Answered(WithResult)
    BY <1>0, <2>1, <2>3 DEF Answered, WithResult, Save, Loops, InLoop, RunStates
  <2>4. CASE Cancelled /\ NoSave
    BY <1>0, <2>1, <2>4 DEF Cancelled, NoSave, Stops, Aborts, InLoop, RunStates
  <2> QED BY <2>1, <2>2, <2>3, <2>4
<1>8. CASE LoopFails \/ Completes
  BY <1>0, <1>8 DEF LoopFails, Completes, EndRun, Save, Ends, InLoop, RunStates, rolloutVars, ghosts
<1>9. CASE ChildrenGone
  BY <1>9 DEF ChildrenGone, Leaves, NoSave, rolloutVars, runVars, ghosts
<1>10. CASE WiringFails \/ CancelRun
  BY <1>0, <1>10 DEF WiringFails, CancelRun, Cancelled, NoSave, Stops, Aborts, InLoop, RunStates, rolloutVars, ghosts
<1>11. CASE Exit \/ Close \/ CancelOutside
  BY <1>0, <1>11 DEF Exit, Close, CancelOutside, Stops, NoSave, rolloutVars, runVars, ghosts, RestInv
<1>12. CASE ProcessEnds \/ Crash
  BY <1>12 DEF ProcessEnds, Crash, Stops, NoSave, ghosts
<1>13. CASE RecordTerminal
  BY <1>13 DEF RecordTerminal, Recorded, EndRecorded, NoSave, runVars, ghosts
<1>14. CASE ResetMetadata
  BY <1>14 DEF ResetMetadata, Settles, NoSave, rolloutVars, runVars, ghosts, RestInv
<1>15. CASE Flushed
  BY <1>15 DEF Flushed, Settles, Stops, NoSave, ghosts
<1>16. CASE Resume
  BY <1>16 DEF Resume, ResumeFresh, ResumeEnded, ResumeIncomplete, ResumeUnknown, Resumes, NoSave, rolloutVars,
     RestInv
<1>17. CASE Persist \/ UNCHANGED vars
  BY <1>17 DEF Persist, NoSave, vars, rolloutVars, runVars, ghosts, Waits
<1> QED BY [Next]_vars, <1>1, <1>2, <1>3, <1>4, <1>5, <1>6, <1>7, <1>8, <1>9, <1>10, <1>11, <1>12, <1>13,
   <1>14, <1>15, <1>16, <1>17 DEF Next, SessionStep

LEMMA HasAppended ==
    ASSUME LogInv, NEW t, NEW kinds, NEW e \in Item, log' = Append(log, e)
    PROVE  Has(t, kinds)' <=> Has(t, kinds) \/ (e.turn = t /\ e.kind \in kinds)
<1>1. /\ DOMAIN log = 1..Len(log) /\ DOMAIN log' = 1..(Len(log) + 1) /\ Len(log) \in Nat
      /\ log'[Len(log) + 1] = e /\ \A i \in 1..Len(log) : log'[i] = log[i]
  BY DEF LogInv
<1> QED BY <1>1 DEF Has

LEMMA HasKept ==
    ASSUME LogInv, NEW t, NEW kinds, log' = log \/ log' = SubSeq(log, 1, durable)
    PROVE  /\ Has(t, kinds)' => Has(t, kinds)
           /\ \A i \in DOMAIN log' : i \in DOMAIN log /\ log'[i] = log[i]
<1>1. \A i \in DOMAIN log' : i \in DOMAIN log /\ log'[i] = log[i]
  BY DEF LogInv
<1> QED BY <1>1 DEF Has

\* The values the steps below compare.
LEMMA AccountTypes ==
    ASSUME TypeInv
    PROVE  /\ run.turn \in Nat /\ ckpt.run.turn \in Nat /\ meta.turns \in Nat
           /\ \A i \in DOMAIN log : log[i].turn \in Nat
           /\ pc \in Places
           /\ pc \in InTurn => Entry(run.turn, "turn.started") \in Item
           /\ pc = "finish" => /\ Entry(run.turn, Outcome[run.status]) \in Item
                               /\ Outcome[run.status] \in Terminal
                               /\ run.status = "CANCELLED" => Outcome[run.status] \notin Over
<1> USE TurnAssumption DEF TypeInv
<1>1. run.turn \in Nat /\ ckpt.run.turn \in Nat /\ meta.turns \in Nat /\ pc \in Places
  BY DEF RunInv, CkptInv, RestInv, RunStates
<1>2. \A i \in DOMAIN log : log[i] \in Item
  BY DEF LogInv
<1>3. \A i \in DOMAIN log : log[i].turn \in Nat
  BY <1>2 DEF Item, Turns
<1>4. pc \in InTurn => run.turn \in Turns
  BY DEF RunInv
<1>5. pc = "finish" => run.status \in Final
  BY DEF RunInv
<1>6. \A s \in Final : Outcome[s] \in Terminal /\ (s = "CANCELLED" => Outcome[s] \notin Over)
  BY DEF Outcome, Final, Terminal, Over
<1> QED BY <1>1, <1>3, <1>4, <1>5, <1>6 DEF Entry, Item, InTurn

\* Only RecordStart writes a turn.started, and it writes the newest number.
LEMMA NumberInvStep ==
    ASSUME TypeInv, NumberInv, [Next]_vars
    PROVE  NumberInv'
<1> USE DEF NumberInv
<1>0. /\ run.turn \in Nat /\ ckpt.run.turn \in Nat /\ meta.turns \in Nat
      /\ \A i \in DOMAIN log : log[i].turn \in Nat
      /\ LogInv
  BY AccountTypes DEF TypeInv
<1>1. CASE NewTurn
  BY <1>0, <1>1 DEF NewTurn, TurnIdsFresh
<1>2. CASE Starts \/ EndRecorded
  <2>1. PICK e \in Item :
           /\ log' = Append(log, e) /\ e.turn = run.turn
           /\ e.kind = "turn.started" => pc = "starting"
           /\ UNCHANGED <<ckpt, meta, run>>
           /\ \/ pc' = "wiring" /\ pc = "starting" /\ UNCHANGED resumed
              \/ pc' = "metadata"
    BY <1>2, AccountTypes DEF Starts, EndRecorded, Entry, Terminal, InTurn
  <2>2. /\ DOMAIN log = 1..Len(log) /\ DOMAIN log' = 1..(Len(log) + 1) /\ Len(log) \in Nat
        /\ log'[Len(log) + 1] = e /\ \A i \in 1..Len(log) : log'[i] = log[i]
    BY <1>0, <2>1 DEF LogInv
  <2>3. \A i \in DOMAIN log' : log'[i].turn <= meta'.turns
    BY <1>0, <2>1, <2>2
  <2>4. TurnIdsFresh'
    BY <1>0, <2>1, <2>2 DEF TurnIdsFresh
  <2> QED BY <1>0, <2>1, <2>3, <2>4
<1>3. CASE Loops \/ Ends \/ Leaves \/ Aborts \/ Settles \/ Waits
  <2>1. /\ log' = log /\ meta'.turns = meta.turns /\ run'.turn = run.turn
        /\ ckpt'.run.turn \in {ckpt.run.turn, run.turn}
        /\ pc' \in {"starting", "wiring"} => UNCHANGED <<pc, resumed, ckpt>>
    BY <1>3 DEF Loops, Ends, Leaves, Aborts, Settles, Waits, InLoop
  <2> QED BY <1>0, <2>1 DEF TurnIdsFresh
<1>4. CASE Stops
  <2>1. \A i \in DOMAIN log' : i \in DOMAIN log /\ log'[i] = log[i]
    BY <1>0, <1>4, HasKept DEF Stops
  <2> QED BY <1>0, <1>4, <2>1 DEF Stops, TurnIdsFresh, Blank
<1>5. CASE Resumes
  <2>1. /\ log' = log /\ ckpt' = ckpt /\ meta'.turns = meta.turns
        /\ run'.turn \in {run.turn, ckpt.run.turn}
        /\ pc' # "starting" /\ (pc' = "wiring" => resumed')
    BY <1>5 DEF Resumes
  <2>2. TurnIdsFresh'
    BY <2>1 DEF TurnIdsFresh
  <2> QED BY <1>0, <2>1, <2>2
<1> QED BY RecordMoves, <1>1, <1>2, <1>3, <1>4, <1>5

\* The turn that runs has no end on record yet, and the terminal checkpoint is
\* there before the terminal item of a turn that completes or fails.
LEMMA OverInvStep ==
    ASSUME TypeInv, NumberInv, OverInv, EndInv, [Next]_vars
    PROVE  OverInv'
<1> USE DEF OverInv
<1>0. /\ run.turn \in Nat /\ ckpt.run.turn \in Nat /\ meta.turns \in Nat
      /\ \A i \in DOMAIN log : log[i].turn \in Nat
      /\ LogInv
  BY AccountTypes DEF TypeInv
<1>1. CASE NewTurn
  <2>1. log' = log /\ ckpt' = ckpt /\ pc' = "starting" /\ run'.turn = meta.turns + 1
    BY <1>1 DEF NewTurn
  <2>2. \A i \in DOMAIN log : log[i].turn # meta.turns + 1
    BY <1>0 DEF NumberInv
  <2> QED BY <2>1, <2>2 DEF Has
<1>2. CASE Starts
  <2>1. PICK e \in Item : log' = Append(log, e) /\ e.turn = run.turn /\ e.kind \notin Over
    BY <1>2, AccountTypes DEF Starts, Entry, Over, InTurn
  <2>2. \A t : Has(t, Over)' <=> Has(t, Over)
    BY <1>0, <2>1, HasAppended
  <2> QED BY <1>2, <2>2 DEF Starts, InLoop
<1>3. CASE EndRecorded
  <2>1. PICK e \in Item : /\ log' = Append(log, e) /\ e.turn = run.turn
                          /\ run.status = "CANCELLED" => e.kind \notin Over
    BY <1>3, AccountTypes DEF EndRecorded, Entry
  <2>2. \A t : Has(t, Over)' => Has(t, Over) \/ (t = run.turn /\ run.status # "CANCELLED")
    BY <1>0, <2>1, HasAppended
  <2> QED BY <1>3, <2>1, <2>2 DEF EndRecorded, InLoop
<1>4. CASE Loops \/ Ends \/ Leaves \/ Aborts \/ Settles \/ Waits
  <2>1. \A t : Has(t, Over)' <=> Has(t, Over)
    BY <1>4 DEF Loops, Ends, Leaves, Aborts, Settles, Waits, Has
  <2>2. CASE Loops
    BY <2>1, <2>2 DEF Loops, InLoop
  <2>3. CASE Ends
    BY <2>1, <2>3 DEF Ends, InLoop
  <2>4. CASE Leaves
    BY <2>1, <2>4 DEF Leaves, InLoop, EndInv
  <2>5. CASE Aborts
    BY <1>0, <2>1, <2>5 DEF Aborts, InLoop, NumberInv
  <2>6. CASE Settles \/ Waits
    BY <2>1, <2>6 DEF Settles, Waits, InLoop
  <2> QED BY <1>4, <2>2, <2>3, <2>4, <2>5, <2>6
<1>5. CASE Stops
  <2>1. \A t : Has(t, Over)' => Has(t, Over)
    BY <1>0, <1>5, HasKept DEF Stops
  <2> QED BY <1>5, <2>1 DEF Stops, InLoop
<1>6. CASE Resumes
  <2>1. \A t : Has(t, Over)' <=> Has(t, Over)
    BY <1>6 DEF Resumes, Has
  <2>2. \A t : Has(t, Over) => Ended(t)
    BY DEF Has, Ended, Over, Terminal
  <2> QED BY <1>6, <2>1, <2>2 DEF Resumes, InLoop
<1> QED BY RecordMoves, <1>1, <1>2, <1>3, <1>4, <1>5, <1>6

\* The user is prompted after the last checkpointed turn got its terminal
\* item, by Flushed or before the process started.
LEMMA EndInvStep ==
    ASSUME TypeInv, EndInv, [Next]_vars
    PROVE  EndInv'
<1> USE DEF EndInv
<1>0. LogInv
  BY DEF TypeInv
<1>1. CASE EndRecorded
  <2>1. Ended(run.turn)'
    BY <1>0, <1>1, AccountTypes, HasAppended DEF EndRecorded, Entry, Ended, Has
  <2> QED BY <1>1, <2>1 DEF EndRecorded, NoTurnForgotten
<1>2. CASE Settles
  <2>1. \A t : Ended(t)' <=> Ended(t)
    BY <1>2 DEF Settles, Ended, Has
  <2> QED BY <1>2, <2>1 DEF Settles, NoTurnForgotten
<1>3. CASE Resumes
  <2>1. \A t : Ended(t)' <=> Ended(t)
    BY <1>3 DEF Resumes, Ended, Has
  <2> QED BY <1>3, <2>1 DEF Resumes, NoTurnForgotten
<1>4. CASE Waits
  <2>1. \A t : Ended(t)' <=> Ended(t)
    BY <1>4 DEF Waits, Ended, Has
  <2> QED BY <1>4, <2>1 DEF Waits, NoTurnForgotten
<1>5. CASE NewTurn \/ Starts \/ Loops \/ Ends \/ Leaves \/ Aborts \/ Stops
  BY <1>5 DEF NewTurn, Starts, Loops, Ends, Leaves, Aborts, Stops, InLoop, NoTurnForgotten
<1> QED BY RecordMoves, <1>1, <1>2, <1>3, <1>4, <1>5

LEMMA AccountInit ==
    ASSUME Init
    PROVE  AccountInv
<1>1. /\ log = <<>> /\ pc = "idle" /\ ckpt.point = "NONE"
      /\ run.turn = 0 /\ ckpt.run.turn = 0 /\ meta.turns = 0
  BY DEF Init, Blank
<1>2. DOMAIN log = {}
  BY <1>1
<1>3. NumberInv
  BY <1>1, <1>2 DEF NumberInv, TurnIdsFresh
<1>4. OverInv /\ EndInv
  BY <1>1 DEF OverInv, EndInv, NoTurnForgotten, InLoop
<1> QED BY <1>3, <1>4 DEF AccountInv

-----------------------------------------------------------------------------
(* The ledger.                                                             *)

OnRecord == SubSeq(log, 1, durable)

\* The whole record, written or not, tells one story of every turn, and what
\* a run or a checkpoint has for a result is settled.
LedgerInv ==
    /\ Ledger!OneStory(log)
    /\ run.results \subseteq answered
    /\ ckpt.run.results \subseteq answered

\* A step, by what it does to the ledger.
Deciding ==
    /\ pc = "approval"
    /\ \E d \in {"allow", "deny", "cancel"} : decision' = [decision EXCEPT ![Call] = d]
    /\ UNCHANGED <<executions, answered, OnRecord>>
Executing ==
    /\ pc \in {"authorize", "apply"}
    /\ Call \in Asking => decision[Call] = "allow"
    /\ executions' = [executions EXCEPT ![Call] = @ + 1]
    /\ UNCHANGED <<decision, answered, OnRecord>>
Settling ==
    /\ pc \in AtCall
    /\ answered' = answered \cup {Call}
    /\ UNCHANGED <<decision, executions, OnRecord>>
Writing ==
    /\ durable' \in durable..Len(log)
    /\ log' = log
    /\ UNCHANGED <<decision, executions, answered>>
Elsewhere == UNCHANGED <<decision, executions, answered, OnRecord>>

LEMMA RecordKept ==
    ASSUME LogInv
    PROVE  /\ \A e \in Item : SubSeq(Append(log, e), 1, durable) = OnRecord
           /\ SubSeq(OnRecord, 1, durable) = OnRecord
<1>1. /\ durable \in Nat /\ durable <= Len(log) /\ Len(log) \in Nat
      /\ log \in Seq(Item)
  BY DEF LogInv
<1>2. ASSUME NEW e \in Item
      PROVE  SubSeq(Append(log, e), 1, durable) = OnRecord
  BY <1>1 DEF OnRecord
<1>3. SubSeq(OnRecord, 1, durable) = OnRecord
  BY <1>1 DEF OnRecord
<1> QED BY <1>2, <1>3

LEMMA LedgerMoves ==
    ASSUME TypeInv, LedgerInv, [Next]_vars
    PROVE  Deciding \/ Executing \/ Settling \/ Writing \/ Elsewhere
<1> USE DEF TypeInv
<1>0. run \in RunStates /\ run.results \subseteq answered /\ LogInv
  BY DEF RunInv, LedgerInv
<1>1. CASE UserDecides
  BY <1>1 DEF UserDecides, Deciding, NoSave, rolloutVars, ghosts, OnRecord
<1>2. CASE Authorize \/ CarryOut
  <2>1. /\ pc \in {"authorize", "apply"} /\ UNCHANGED <<decision, log, durable>>
        /\ \/ Executes /\ NoSave /\ (Call \in Asking => decision[Call] = "allow")
           \/ Answered(WithResult) /\ UNCHANGED executions
           \/ NoSave /\ UNCHANGED executions
    BY <1>2 DEF Authorize, CarryOut, Apply, rolloutVars
  <2>2. CASE Executes /\ NoSave /\ (Call \in Asking => decision[Call] = "allow")
    BY <2>1, <2>2 DEF Executing, Executes, NoSave, OnRecord
  <2>3. CASE Answered(WithResult) /\ UNCHANGED executions
    <3>1. answered' = answered \cup WithResult.results
      BY <2>3 DEF Answered, Save
    <3>2. WithResult.results = run.results \cup {Call}
      BY <1>0 DEF WithResult, RunStates
    <3> QED BY <1>0, <2>1, <2>3, <3>1, <3>2 DEF Settling, AtCall, OnRecord
  <2>4. CASE NoSave /\ UNCHANGED executions
    BY <2>1, <2>4 DEF Elsewhere, NoSave, OnRecord
  <2> QED BY <2>1, <2>2, <2>3, <2>4
<1>3. CASE Refused \/ ToolReturns
  <2>1. /\ pc \in AtCall /\ UNCHANGED <<decision, log, durable, executions>>
        /\ Answered(WithResult)
    BY <1>3 DEF Refused, ToolReturns, AtCall, rolloutVars, ghosts
  <2>2. answered' = answered \cup WithResult.results
    BY <2>1 DEF Answered, Save
  <2>3. WithResult.results = run.results \cup {Call}
    BY <1>0 DEF WithResult, RunStates
  <2> QED BY <1>0, <2>1, <2>2, <2>3 DEF Settling, OnRecord
<1>4. CASE BeginIteration \/ BeginTool \/ LaunchTool \/ TextAccepted \/ AskUser \/ CommitDecision
  BY <1>0, <1>4 DEF BeginIteration, BeginTool, LaunchTool, TextAccepted, AskUser, CommitDecision, Save,
     rolloutVars, runVars, ghosts, Elsewhere, OnRecord
<1>5. CASE SendRequest \/ ModelAnswers \/ LoopFails \/ Completes
  <2>1. /\ run'.results = run.results /\ answered' = answered \cup run'.results
        /\ UNCHANGED <<decision, executions, log, durable>>
    BY <1>0, <1>5 DEF SendRequest, ModelAnswers, LoopFails, Completes, EndRun, Save, RunStates, rolloutVars, ghosts
  <2> QED BY <1>0, <2>1 DEF Elsewhere, OnRecord
<1>6. CASE RecordStart \/ RecordTerminal
  <2>1. PICK e \in Item : log' = Append(log, e)
    BY <1>6, AccountTypes DEF RecordStart, RecordTerminal, Recorded, InTurn
  <2>2. OnRecord' = OnRecord
    BY <1>0, <1>6, <2>1, RecordKept DEF RecordStart, RecordTerminal, Recorded, OnRecord
  <2> QED BY <1>6, <2>2 DEF RecordStart, RecordTerminal, Recorded, Elsewhere, NoSave, ghosts
<1>7. CASE Crash
  <2>1. OnRecord' = OnRecord
    BY <1>0, <1>7, RecordKept DEF Crash, OnRecord
  <2> QED BY <1>7, <2>1 DEF Crash, Elsewhere, NoSave, ghosts
<1>8. CASE Persist \/ ProcessEnds \/ Flushed
  <2>1. durable' \in durable..Len(log)
    BY <1>0, <1>8 DEF Persist, ProcessEnds, Flushed, LogInv
  <2> QED BY <1>8, <2>1 DEF Persist, ProcessEnds, Flushed, Writing, NoSave, ghosts
<1>9. CASE \/ WiringFails \/ Close \/ EnterLoop \/ NextIteration \/ TextGuarded \/ ChildrenGone
           \/ ResetMetadata \/ StartTurn \/ Exit \/ CancelRun \/ CancelOutside \/ Resume
  BY <1>9 DEF WiringFails, Close, EnterLoop, NextIteration, TextGuarded, ChildrenGone, ResetMetadata,
     StartTurn, Exit, CancelRun, CancelOutside, Resume, NoSave, rolloutVars, ghosts, Elsewhere, OnRecord
<1>10. CASE UNCHANGED vars
  BY <1>10 DEF vars, rolloutVars, ghosts, Elsewhere, OnRecord
<1> QED BY [Next]_vars, <1>1, <1>2, <1>3, <1>4, <1>5, <1>6, <1>7, <1>8, <1>9, <1>10 DEF Next, SessionStep

\* A turn.started is newer than all on record, and no item follows the end of
\* a turn that completed or failed.
LEMMA StoryStep ==
    ASSUME TypeInv, AccountInv, Ledger!OneStory(log), [Next]_vars
    PROVE  Ledger!OneStory(log)'
<1>0. /\ LogInv /\ run.turn \in Nat
      /\ \A i \in DOMAIN log : log[i].turn \in Nat
  BY AccountTypes DEF TypeInv
<1>1. CASE Starts \/ EndRecorded
  <2>1. PICK e \in Item :
           /\ log' = Append(log, e) /\ e.turn = run.turn
           /\ e.kind = "turn.started" => pc = "starting"
    BY <1>1, AccountTypes DEF Starts, EndRecorded, Entry, Terminal, InTurn
  <2>2. /\ DOMAIN log = 1..Len(log) /\ DOMAIN log' = 1..(Len(log) + 1) /\ Len(log) \in Nat
        /\ log'[Len(log) + 1] = e /\ \A i \in 1..Len(log) : log'[i] = log[i]
    BY <1>0, <2>1 DEF LogInv
  <2>3. \A i \in DOMAIN log : log[i].kind \in Over => log[i].turn # run.turn
    BY <1>1 DEF Starts, EndRecorded, AccountInv, OverInv, Has
  <2>4. e.kind = "turn.started" => \A i \in DOMAIN log : log[i].turn < e.turn
    BY <2>1 DEF AccountInv, NumberInv
  <2> QED BY <2>1, <2>2, <2>3, <2>4 DEF Ledger!OneStory, Over
<1>2. CASE NewTurn \/ Loops \/ Ends \/ Leaves \/ Aborts \/ Settles \/ Resumes \/ Waits
  <2>1. log' = log
    BY <1>2 DEF NewTurn, Loops, Ends, Leaves, Aborts, Settles, Resumes, Waits
  <2> QED BY <2>1 DEF Ledger!OneStory
<1>3. CASE Stops
  <2>1. \A i \in DOMAIN log' : i \in DOMAIN log /\ log'[i] = log[i]
    BY <1>0, <1>3, HasKept DEF Stops
  <2> QED BY <2>1 DEF Ledger!OneStory
<1> QED BY RecordMoves, <1>1, <1>2, <1>3

\* A run takes its results from the last checkpoint or from the turn before.
LEMMA ResultsKnownStep ==
    ASSUME TypeInv, LedgerInv, [Next]_vars
    PROVE  /\ run'.results \subseteq answered'
           /\ ckpt'.run.results \subseteq answered'
<1> USE DEF TypeInv
<1>0. /\ run \in RunStates
      /\ run.results \subseteq answered /\ ckpt.run.results \subseteq answered
  BY DEF RunInv, LedgerInv
<1>1. CASE Authorize \/ CarryOut
  <2>1. \/ NoSave /\ run' = run
        \/ Answered(WithResult)
        \/ NoSave /\ Cancelled
    BY <1>1 DEF Authorize, CarryOut, Apply, Executes
  <2> QED BY <1>0, <2>1 DEF NoSave, Answered, Save, Cancelled, RunStates
<1>2. CASE Refused \/ ToolReturns
  BY <1>0, <1>2 DEF Refused, ToolReturns, Answered, Save
<1>3. CASE BeginIteration \/ BeginTool \/ LaunchTool \/ TextAccepted \/ AskUser \/ CommitDecision
  BY <1>0, <1>3 DEF BeginIteration, BeginTool, LaunchTool, TextAccepted, AskUser, CommitDecision, Save, runVars
<1>4. CASE SendRequest \/ ModelAnswers \/ LoopFails \/ Completes
  BY <1>0, <1>4 DEF SendRequest, ModelAnswers, LoopFails, Completes, EndRun, Save
<1>5. CASE ProcessEnds \/ Crash
  BY <1>0, <1>5 DEF ProcessEnds, Crash, NoSave, Blank
<1>6. CASE StartTurn
  <2>1. run'.results = run.results
    BY <1>6 DEF StartTurn, Blank
  <2> QED BY <1>0, <1>6, <2>1 DEF StartTurn, NoSave
<1>7. CASE WiringFails \/ EnterLoop \/ CancelRun
  BY <1>0, <1>7 DEF WiringFails, EnterLoop, CancelRun, Cancelled, NoSave, RunStates
<1>8. CASE Resume
  BY <1>0, <1>8 DEF Resume, ResumeFresh, ResumeEnded, ResumeIncomplete, ResumeUnknown, NoSave
<1>9. CASE \/ RecordStart \/ Close \/ NextIteration \/ TextGuarded \/ ChildrenGone \/ RecordTerminal
           \/ ResetMetadata \/ Flushed \/ Exit \/ UserDecides \/ CancelOutside \/ Persist
  BY <1>0, <1>9 DEF RecordStart, Close, NextIteration, TextGuarded, ChildrenGone, RecordTerminal,
     ResetMetadata, Flushed, Exit, UserDecides, CancelOutside, Persist, NoSave, runVars
<1>10. CASE UNCHANGED vars
  BY <1>0, <1>10 DEF vars, runVars
<1> QED BY [Next]_vars, <1>1, <1>2, <1>3, <1>4, <1>5, <1>6, <1>7, <1>8, <1>9, <1>10 DEF Next, SessionStep

\* Every step is one of the ledger, or none.
LEMMA LedgerStep ==
    ASSUME TypeInv, FlowInv, BlindInv, AnswerInv, LedgerInv, [Next]_vars
    PROVE  [Ledger!LedgerNext]_Ledger!ledgerVars
<1>0. /\ LogInv /\ executions \in [Calls -> Nat]
      /\ decision \in [Calls -> {"none", "allow", "deny", "cancel"}]
  BY DEF TypeInv, RestInv
<1>1. pc \in AtCall => Call \in Open /\ Call \in Calls
  BY CallIsOpen DEF TypeInv, RunInv
<1>2. pc \in AtCall => Call \notin answered
  BY <1>1 DEF AnswerInv, AtCall, Ready, InLoop
<1>3. CASE Deciding
  <2>1. Call \in Calls /\ Call \in Asking /\ decision[Call] = "none"
    BY <1>1, <1>3 DEF Deciding, FlowInv, AtCall
  <2>2. Ledger!Decide(Call)
    BY <1>3, <2>1 DEF Deciding, Ledger!Decide, OnRecord
  <2> QED BY <2>1, <2>2 DEF Ledger!LedgerNext
<1>4. CASE Executing
  <2>1. Call \in Calls /\ Call \in Open /\ Call \notin answered
    BY <1>1, <1>2, <1>4 DEF Executing, AtCall
  <2>2. Call \notin Asking => executions[Call] = 0
    <3>1. Call \notin Asking => ~(executions[Call] > 0)
      BY <1>4, <2>1 DEF BlindInv, Executing, Ready, InLoop
    <3>2. executions[Call] \in Nat
      BY <1>0, <2>1
    <3> QED BY <3>1, <3>2
  <2>3. Ledger!Run(Call)
    BY <1>4, <2>1, <2>2 DEF Executing, Ledger!Run, OnRecord
  <2> QED BY <2>1, <2>3 DEF Ledger!LedgerNext
<1>5. CASE Settling
  <2>1. Call \in Calls /\ Call \notin answered
    BY <1>1, <1>2, <1>5 DEF Settling
  <2>2. Ledger!Settle(Call)
    BY <1>5, <2>1 DEF Settling, Ledger!Settle, OnRecord
  <2> QED BY <2>1, <2>2 DEF Ledger!LedgerNext
<1>6. CASE Writing
  <2>1. /\ durable \in Nat /\ durable' \in Nat /\ durable <= durable' /\ durable' <= Len(log)
        /\ log \in Seq(Item) /\ Len(log) \in Nat /\ log' = log
    BY <1>0, <1>6 DEF Writing, LogInv
  <2>2. /\ Len(OnRecord) = durable /\ DOMAIN OnRecord = 1..durable
        /\ \A i \in 1..durable : OnRecord[i] = log[i]
    BY <2>1 DEF OnRecord
  <2>3. /\ Len(OnRecord') = durable' /\ DOMAIN OnRecord' = 1..durable'
        /\ \A i \in 1..durable' : OnRecord'[i] = log[i]
    BY <2>1 DEF OnRecord
  <2>4. DOMAIN log = 1..Len(log)
    BY <2>1
  <2>5. Ledger!OneStory(OnRecord)'
    <3>1. \A i \in DOMAIN OnRecord' : i \in DOMAIN log /\ OnRecord'[i] = log[i]
      BY <2>1, <2>3, <2>4
    <3> QED BY <3>1 DEF LedgerInv, Ledger!OneStory
  <2>6. Len(OnRecord') >= Len(OnRecord) /\ \A i \in DOMAIN OnRecord : OnRecord'[i] = OnRecord[i]
    BY <2>1, <2>2, <2>3
  <2>7. Ledger!Write
    BY <1>6, <2>5, <2>6 DEF Writing, Ledger!Write, OnRecord
  <2> QED BY <2>7 DEF Ledger!LedgerNext
<1>7. CASE Elsewhere
  BY <1>7 DEF Elsewhere, Ledger!ledgerVars, OnRecord
<1> QED BY LedgerMoves, <1>3, <1>4, <1>5, <1>6, <1>7

-----------------------------------------------------------------------------
(* The theorems.                                                           *)

LEMMA InitTypeInv ==
    ASSUME Init
    PROVE  TypeInv
<1> USE TurnAssumption DEF Init, Blank
<1>1. run \in RunStates /\ ckpt \in [point : Points, run : RunStates]
      /\ Known(run) /\ Known(ckpt.run)
  BY DEF RunStates, RunStatus, Points, Known
<1>2. CkptInv
  BY <1>1 DEF CkptInv
<1>3. RunInv
  BY <1>1 DEF RunInv, Places, InTurn, InLoop, AtCall
<1>4. LogInv
  BY DEF LogInv
<1>5. RestInv
  <2>1. decision \in [Calls -> {"none", "allow", "deny", "cancel"}] /\ executions \in [Calls -> Nat]
    OBVIOUS
  <2>2. meta \in [status : {"IDLE", "ACTIVE", "CLOSED", "RECOVERY_REQUIRED"}, turns : 0..MaxTurns]
    OBVIOUS
  <2> QED BY <2>1, <2>2 DEF RestInv
<1> QED BY <1>2, <1>3, <1>4, <1>5 DEF TypeInv

LEMMA InitRest ==
    ASSUME Init
    PROVE  FlowInv /\ BlindInv /\ ApprovalRespected /\ AnswerInv
<1> USE DEF Init, Blank
<1>1. FlowInv
  BY DEF FlowInv, ResponseReused
<1>2. BlindInv
  BY DEF BlindInv, NoBlindReplay
<1>3. ApprovalRespected
  BY TurnAssumption DEF ApprovalRespected, Calls
<1>4. AnswerInv
  BY DEF AnswerInv
<1> QED BY <1>1, <1>2, <1>3, <1>4

\* Every variable stays in its domain across any number of turns, crashes and
\* resumes: session, loop, tool runtime and controller never meet a turn
\* without a number, a terminal item without an outcome or an unissued call.
THEOREM TypeCorrect == Spec => []TypeOK
<1>1. Init => TypeInv
  BY InitTypeInv
<1>2. TypeInv /\ [Next]_vars => TypeInv'
  BY CkptInvStep, RunInvStep, LogInvStep, RestInvStep DEF TypeInv
<1>3. TypeInv => TypeOK
  BY DEF TypeInv, CkptInv, RunInv, LogInv, RestInv, TypeOK, Item, Known
<1> QED BY <1>1, <1>2, <1>3, PTL DEF Spec

\* The invariants behind the properties below, in the order they rest on
\* each other.
LEMMA AlwaysTypeAndFlow == Spec => [](TypeInv /\ FlowInv)
<1>1. Init => TypeInv /\ FlowInv
  BY InitTypeInv, InitRest
<1>2. TypeInv /\ FlowInv /\ [Next]_vars => TypeInv' /\ FlowInv'
  BY CkptInvStep, RunInvStep, LogInvStep, RestInvStep, FlowInvStep DEF TypeInv
<1> QED BY <1>1, <1>2, PTL DEF Spec

LEMMA AlwaysBlind == Spec => []BlindInv
<1>1. Init => BlindInv
  BY InitRest
<1>2. TypeInv /\ FlowInv /\ BlindInv /\ [Next]_vars => BlindInv'
  BY BlindInvStep
<1> QED BY <1>1, <1>2, AlwaysTypeAndFlow, PTL DEF Spec

LEMMA AlwaysAccount == Spec => []AccountInv
<1>1. Init => AccountInv
  BY AccountInit
<1>2. TypeInv /\ AccountInv /\ [Next]_vars => AccountInv'
  BY NumberInvStep, OverInvStep, EndInvStep DEF AccountInv
<1> QED BY <1>1, <1>2, AlwaysTypeAndFlow, PTL DEF Spec

LEMMA AlwaysAnswer == Spec => []AnswerInv
<1>1. Init => AnswerInv
  BY InitRest
<1>2. TypeInv /\ FlowInv /\ AnswerInv /\ [Next]_vars => AnswerInv'
  BY AnswerInvStep
<1> QED BY <1>1, <1>2, AlwaysTypeAndFlow, PTL DEF Spec

\* AgentLoop.run resumed from a checkpoint never asks the model again while
\* calls of the committed response are without result.
THEOREM ResponseCorrect == Spec => []ResponseReused
<1>1. TypeInv /\ FlowInv => ResponseReused
  BY DEF FlowInv
<1> QED BY <1>1, AlwaysTypeAndFlow, PTL

\* RecoveryCoordinator.plan and the TOOL_IN_FLIGHT checkpoint keep a tool that
\* needs no approval from running twice, wherever the process dies.
THEOREM ReplayCorrect == Spec => []NoBlindReplay
<1>1. BlindInv => NoBlindReplay
  BY DEF BlindInv
<1> QED BY <1>1, AlwaysBlind, PTL

\* ToolRuntime._authorize_or_approve executes a call that needs approval under
\* a stored "allow" only, in this process or a later one.
THEOREM ApprovalCorrect == Spec => []ApprovalRespected
<1>1. Init => ApprovalRespected
  BY InitRest
<1>2. TypeInv /\ FlowInv /\ ApprovalRespected /\ [Next]_vars => ApprovalRespected'
  BY ApprovalRespectedStep
<1> QED BY <1>1, <1>2, AlwaysTypeAndFlow, PTL DEF Spec

\* A call whose result was checkpointed once is never executed again, also
\* by the processes that resume the thread later.
THEOREM ResultsCorrect == Spec => ResultsReused
<1>1. TypeInv /\ FlowInv /\ AnswerInv /\ [Next]_vars =>
        [\A c \in answered : executions'[c] = executions[c]]_vars
  BY ResultsStep
<1> QED BY <1>1, AlwaysTypeAndFlow, AlwaysAnswer, PTL DEF Spec, ResultsReused

\* ConversationSession.resume, run_turn and TurnController._finalize agree on
\* every turn: no id is used twice, no turn that is over on record runs again,
\* and the user is prompted only when the last turn has its word.
THEOREM AccountCorrect == Spec => []TurnsAccountedFor
<1>1. AccountInv => TurnsAccountedFor
  BY DEF AccountInv, NumberInv, OverInv, EndInv, TurnsAccountedFor, FinishedIsFinal, Over
<1> QED BY <1>1, AlwaysAccount, PTL

\* Whatever crashes, cancellations and resumes do in between, a thread keeps
\* the promise of TurnLedger: the user decides once about a call, it runs on
\* that and not after its result is settled, and what is on disk of the turns
\* is never rewritten and tells one story of each (execute, plan, _finalize).
THEOREM LedgerImplemented == Spec => ImplementsLedger
<1>1. Init => Ledger!LedgerInit /\ LedgerInv
  <2> SUFFICES ASSUME Init PROVE Ledger!LedgerInit /\ LedgerInv
    OBVIOUS
  <2>1. /\ log = <<>> /\ durable = 0 /\ answered = {} /\ run.results = {} /\ ckpt.run.results = {}
        /\ decision = [c \in Calls |-> "none"] /\ executions = [c \in Calls |-> 0]
    BY DEF Init, Blank
  <2>2. SubSeq(log, 1, durable) = <<>> /\ DOMAIN log = {}
    BY <2>1
  <2> QED BY <2>1, <2>2 DEF Ledger!LedgerInit, LedgerInv, Ledger!OneStory
<1>2. TypeInv /\ AccountInv /\ LedgerInv /\ [Next]_vars => LedgerInv'
  BY StoryStep, ResultsKnownStep DEF LedgerInv
<1>3. TypeInv /\ FlowInv /\ BlindInv /\ AnswerInv /\ LedgerInv /\ [Next]_vars =>
        [Ledger!LedgerNext]_Ledger!ledgerVars
  BY LedgerStep
<1> QED BY <1>1, <1>2, <1>3, AlwaysTypeAndFlow, AlwaysBlind, AlwaysAnswer, AlwaysAccount, PTL
        DEF Spec, ImplementsLedger, Ledger!LedgerSpec
============================================================================
