---------------------------- MODULE TurnRecovery ----------------------------
(***************************************************************************)
(* One thread of a conversation across process lifetimes: the turns of     *)
(* runtime/session.py, their checkpoints in runtime/agent_loop.py, their   *)
(* terminal items in turns/controller.py, approvals in tools/runtime.py,   *)
(* and what recovery/coordinator.py makes of the last checkpoint.          *)
(*                                                                         *)
(* Every step ends with a durable write or at an await, so Crash and       *)
(* Cancel can come between any two.  The client is the CLI: it continues   *)
(* an incomplete turn right after resume, and an exception that leaves the *)
(* session closes it.  Tool calls are numbered in the order the model      *)
(* issues them; the number stands for the call's stable action and         *)
(* approval ids.                                                           *)
(***************************************************************************)
EXTENDS Integers, Sequences, FiniteSets

CONSTANTS MaxTurns,    \* bound: turns of the thread
          MaxCalls,    \* bound: tool calls the model issues
          Asking,      \* calls whose permission is ASK
          ModelCalls   \* limits.max_model_calls

ASSUME TurnAssumption ==
    /\ MaxTurns \in Nat
    /\ MaxCalls \in Nat
    /\ ModelCalls \in Nat
    /\ Asking \subseteq 1..MaxCalls

VARIABLES
    ckpt,       \* latest row of the checkpoint table
    decision,   \* pending_approvals
    log,        \* rollout items recorded by this process or read back
    durable,    \* how many of them are on disk
    meta,       \* metadata.json
    pc,         \* where the session is suspended, "down" without a process
    run,        \* RunState
    resumed,    \* the turn is run by continue_incomplete_turn
    raising,    \* an exception is on its way out of the session
    issued,     \* history: calls the model has issued
    executions, \* history: how often each call was executed
    answered,   \* history: calls whose result was ever checkpointed
    manual      \* history: turns handed to the user as RECOVERY_REQUIRED

rolloutVars == <<log, durable>>
runVars == <<run, resumed, raising>>
ghosts == <<issued, executions, manual>>
vars == <<ckpt, decision, rolloutVars, meta, pc, runVars, answered, ghosts>>

Calls == 1..MaxCalls
Turns == 1..MaxTurns

Outcome == [COMPLETED |-> "turn.completed", FAILED |-> "turn.failed", CANCELLED |-> "turn.cancelled"]

\* A turn interrupted here goes on with the committed model response.
Continuing == {"AFTER_MODEL", "WAITING_APPROVAL", "BEFORE_TOOL", "AFTER_TOOL"}

Blank == [turn |-> 0, response |-> {}, results |-> {}, modelCalls |-> 0, status |-> "CREATED"]

\* response: the tool calls of the turn's last model response, none for text;
\* results: the calls of the conversation with a tool message.  Open: the
\* calls of the last response that have no result yet, first one first.
Open == run.response \ run.results
Call == CHOOSE c \in Open : \A d \in Open : c <= d

Entry(t, kind) == [turn |-> t, kind |-> kind]
Has(t, kinds) == \E i \in DOMAIN log : log[i].turn = t /\ log[i].kind \in kinds
Terminal == {"turn.completed", "turn.failed", "turn.cancelled"}
Ended(t) == Has(t, Terminal)

Init ==
    /\ ckpt = [point |-> "NONE", run |-> Blank]
    /\ decision = [c \in Calls |-> "none"]
    /\ log = <<>>
    /\ durable = 0
    /\ meta = [status |-> "IDLE", turns |-> 0]
    /\ pc = "idle"
    /\ run = Blank
    /\ resumed = FALSE
    /\ raising = FALSE
    /\ issued = 0
    /\ executions = [c \in Calls |-> 0]
    /\ answered = {}
    /\ manual = {}

-----------------------------------------------------------------------------
(* Durable writes.                                                         *)

Save(point, r) ==
    /\ ckpt' = [point |-> point, run |-> r]
    /\ answered' = answered \cup r.results

NoSave == UNCHANGED <<ckpt, answered>>

Recorded(item) == log' = Append(log, item) /\ UNCHANGED durable

\* The writer task of the recorder gets some items to disk.
Persist ==
    /\ pc # "down"
    /\ durable' \in durable + 1..Len(log)
    /\ NoSave
    /\ UNCHANGED <<decision, log, meta, pc, runVars, ghosts>>

-----------------------------------------------------------------------------
(* ConversationSession.run_turn and close.                                 *)

\* Mutant: the metadata patch leaves the turn count out.
StartUncounted ==
    /\ pc = "idle"
    /\ meta.turns < MaxTurns
    /\ run' = [Blank EXCEPT !.turn = meta.turns + 1, !.results = run.results]
    /\ meta' = [meta EXCEPT !.status = "ACTIVE"]
    /\ pc' = "starting"
    /\ NoSave
    /\ UNCHANGED <<decision, rolloutVars, resumed, raising, ghosts>>

\* The metadata is written before the items of the new turn.
StartTurn ==
    /\ pc = "idle"
    /\ meta.turns < MaxTurns
    /\ run' = [Blank EXCEPT !.turn = meta.turns + 1, !.results = run.results]
    /\ meta' = [status |-> "ACTIVE", turns |-> meta.turns + 1]
    /\ pc' = "starting"
    /\ NoSave
    /\ UNCHANGED <<decision, rolloutVars, resumed, raising, ghosts>>

\* turn.started and the user message are recorded, not flushed.
RecordStart ==
    /\ pc = "starting"
    /\ Recorded(Entry(run.turn, "turn.started"))
    /\ pc' = "wiring"
    /\ NoSave
    /\ UNCHANGED <<decision, meta, runVars, ghosts>>

\* run_existing builds the loop; what it raises run_turn makes a failed turn
\* of, and continue_incomplete_turn does not catch.
WiringFails ==
    /\ pc = "wiring"
    /\ IF resumed THEN /\ pc' = "closing"
                       /\ UNCHANGED <<run, raising>>
                  ELSE /\ pc' = "finish"
                       /\ run' = [run EXCEPT !.status = "FAILED"]
                       /\ raising' = TRUE
    /\ NoSave
    /\ UNCHANGED <<decision, rolloutVars, meta, resumed, ghosts>>

Exit ==
    /\ pc = "idle"
    /\ pc' = "closing"
    /\ NoSave
    /\ UNCHANGED <<decision, rolloutVars, meta, runVars, ghosts>>

Close ==
    /\ pc = "closing"
    /\ meta' = [meta EXCEPT !.status = "CLOSED"]
    /\ pc' = "draining"
    /\ NoSave
    /\ UNCHANGED <<decision, rolloutVars, runVars, ghosts>>

\* recorder.shutdown(); nothing in memory survives.
ProcessEnds ==
    /\ pc = "draining"
    /\ durable' = Len(log)
    /\ pc' = "down"
    /\ run' = Blank
    /\ resumed' = FALSE
    /\ raising' = FALSE
    /\ NoSave
    /\ UNCHANGED <<decision, log, meta, ghosts>>

Crash ==
    /\ pc # "down"
    /\ log' = SubSeq(log, 1, durable)
    /\ pc' = "down"
    /\ run' = Blank
    /\ resumed' = FALSE
    /\ raising' = FALSE
    /\ NoSave
    /\ UNCHANGED <<decision, durable, meta, ghosts>>

-----------------------------------------------------------------------------
(* AgentLoop.run.                                                          *)

\* The loop ends with a terminal checkpoint; run_existing cancels what
\* children are left, which only an ended turn that did not complete has.
EndRun(status, next) ==
    /\ run' = [run EXCEPT !.status = status]
    /\ Save("TERMINAL", run')
    /\ pc' = next
    /\ UNCHANGED <<decision, rolloutVars, meta, resumed, raising, ghosts>>

\* A budget, provider or protocol error.
LoopFails ==
    /\ pc \in {"top", "request", "model", "calls"}
    /\ EndRun("FAILED", "leaving")

\* Entering the loop: the resume point decides where.
EnterLoop ==
    /\ pc = "wiring"
    /\ run' = [run EXCEPT !.status = "RUNNING"]
    /\ pc' = IF resumed /\ ckpt.point = "BEFORE_FINALIZE" THEN "finalizing"
             ELSE IF resumed /\ ckpt.point \in Continuing THEN "calls"
             ELSE "top"
    /\ NoSave
    /\ UNCHANGED <<decision, rolloutVars, meta, resumed, raising, ghosts>>

BeginIteration ==
    /\ pc = "top"
    /\ Save("BEFORE_MODEL", run)
    /\ pc' = "request"
    /\ UNCHANGED <<decision, rolloutVars, meta, runVars, ghosts>>

\* Mutant: the call is counted, the limit is not checked.
SendUnchecked ==
    /\ pc = "request"
    /\ run' = [run EXCEPT !.modelCalls = @ + 1]
    /\ Save("MODEL_IN_FLIGHT", run')
    /\ pc' = "model"
    /\ UNCHANGED <<decision, rolloutVars, meta, resumed, raising, ghosts>>

\* Mutant: the call is not counted.
SendUncounted ==
    /\ pc = "request"
    /\ run.modelCalls < ModelCalls
    /\ Save("MODEL_IN_FLIGHT", run)
    /\ pc' = "model"
    /\ UNCHANGED <<decision, rolloutVars, meta, runVars, ghosts>>

SendRequest ==
    /\ pc = "request"
    /\ run.modelCalls < ModelCalls
    /\ run' = [run EXCEPT !.modelCalls = @ + 1]
    /\ Save("MODEL_IN_FLIGHT", run')
    /\ pc' = "model"
    /\ UNCHANGED <<decision, rolloutVars, meta, resumed, raising, ghosts>>

\* A response is some tool calls, or text when there are none.
ModelAnswers ==
    /\ pc = "model"
    /\ \E n \in issued..MaxCalls :
        /\ run' = [run EXCEPT !.response = issued + 1..n]
        /\ issued' = n
    /\ Save("AFTER_MODEL", run')
    /\ pc' = "calls"
    /\ UNCHANGED <<decision, rolloutVars, meta, resumed, raising, executions, manual>>

\* The next call without a result.
BeginTool ==
    /\ pc = "calls"
    /\ Open # {}
    /\ Save("BEFORE_TOOL", run)
    /\ pc' = "tool"
    /\ UNCHANGED <<decision, rolloutVars, meta, runVars, ghosts>>

\* Mutant: no checkpoint tells that the tool may have run.
LaunchUnmarked ==
    /\ pc = "tool"
    /\ pc' = "authorize"
    /\ NoSave
    /\ UNCHANGED <<decision, rolloutVars, meta, runVars, ghosts>>

LaunchTool ==
    /\ pc = "tool"
    /\ Save("TOOL_IN_FLIGHT", run)
    /\ pc' = "authorize"
    /\ UNCHANGED <<decision, rolloutVars, meta, runVars, ghosts>>

NextIteration ==
    /\ pc = "calls"
    /\ run.response # {} /\ Open = {}
    /\ pc' = "top"
    /\ NoSave
    /\ UNCHANGED <<decision, rolloutVars, meta, runVars, ghosts>>

\* Text is no answer while child agents are active.
TextGuarded ==
    /\ pc = "calls"
    /\ run.response = {}
    /\ pc' = "top"
    /\ NoSave
    /\ UNCHANGED <<decision, rolloutVars, meta, runVars, ghosts>>

TextAccepted ==
    /\ pc = "calls"
    /\ run.response = {}
    /\ Save("BEFORE_FINALIZE", run)
    /\ pc' = "finalizing"
    /\ UNCHANGED <<decision, rolloutVars, meta, runVars, ghosts>>

\* Mutant: the decided outcome is not checkpointed as terminal.
CompletesUnsaved ==
    /\ pc = "finalizing"
    /\ run' = [run EXCEPT !.status = "COMPLETED"]
    /\ pc' = "finish"
    /\ NoSave
    /\ UNCHANGED <<decision, rolloutVars, meta, resumed, raising, ghosts>>

Completes == pc = "finalizing" /\ EndRun("COMPLETED", "finish")

\* cancel_all() of the children is awaited, then the controller is called.
ChildrenGone ==
    /\ pc = "leaving"
    /\ pc' = "finish"
    /\ NoSave
    /\ UNCHANGED <<decision, rolloutVars, meta, runVars, ghosts>>

-----------------------------------------------------------------------------
(* ToolRuntime.execute for Call.                                           *)

Executes ==
    /\ executions' = [executions EXCEPT ![Call] = @ + 1]
    /\ pc' = "executing"
    /\ UNCHANGED <<run, raising>>

\* A tool result, whatever its status, is committed with its checkpoint.
Answered(r) == Save("AFTER_TOOL", r) /\ run' = r /\ pc' = "calls"

WithResult == [run EXCEPT !.results = @ \cup {Call}]

\* CancelledError leaves the loop without a checkpoint.  run_turn writes
\* turn.cancelled and raises on, continue_incomplete_turn just raises.
Cancelled ==
    IF resumed THEN /\ pc' = "closing"
                    /\ UNCHANGED <<run, raising>>
               ELSE /\ pc' = "finish"
                    /\ run' = [run EXCEPT !.status = "CANCELLED"]
                    /\ raising' = TRUE

\* A decision, fresh or found in the store, is carried out.
Apply ==
    \/ decision[Call] = "allow" /\ Executes /\ NoSave
    \/ decision[Call] = "deny" /\ Answered(WithResult) /\ UNCHANGED <<executions, raising>>
    \/ decision[Call] = "cancel" /\ Cancelled /\ NoSave /\ UNCHANGED executions

Authorize ==
    /\ pc = "authorize"
    /\ IF Call \in Asking THEN decision[Call] # "none" /\ Apply
                          ELSE Executes /\ NoSave
    /\ UNCHANGED <<decision, rolloutVars, meta, resumed, issued, manual>>

\* The call is refused or fails before it reaches its executor.
Refused ==
    /\ pc = "authorize"
    /\ Answered(WithResult)
    /\ UNCHANGED <<decision, rolloutVars, meta, resumed, raising, ghosts>>

\* Mutant: the stored decision is not looked up.
AskAgain ==
    /\ pc = "authorize"
    /\ Call \in Asking
    /\ Save("WAITING_APPROVAL", run)
    /\ pc' = "approval"
    /\ UNCHANGED <<decision, rolloutVars, meta, runVars, ghosts>>

AskUser ==
    /\ pc = "authorize"
    /\ Call \in Asking
    /\ decision[Call] = "none"
    /\ Save("WAITING_APPROVAL", run)
    /\ pc' = "approval"
    /\ UNCHANGED <<decision, rolloutVars, meta, runVars, ghosts>>

UserDecides ==
    /\ pc = "approval"
    /\ \E d \in {"allow", "deny", "cancel"} : decision' = [decision EXCEPT ![Call] = d]
    /\ pc' = "decided"
    /\ NoSave
    /\ UNCHANGED <<rolloutVars, meta, runVars, ghosts>>

\* The boundary callback replaces TOOL_IN_FLIGHT for good.
CommitDecision ==
    /\ pc = "decided"
    /\ Save("BEFORE_TOOL", run)
    /\ pc' = "apply"
    /\ UNCHANGED <<decision, rolloutVars, meta, runVars, ghosts>>

CarryOut ==
    /\ pc = "apply"
    /\ Apply
    /\ UNCHANGED <<decision, rolloutVars, meta, resumed, issued, manual>>

ToolReturns ==
    /\ pc = "executing"
    /\ Answered(WithResult)
    /\ UNCHANGED <<decision, rolloutVars, meta, resumed, raising, ghosts>>

-----------------------------------------------------------------------------
(* Cancellation of the session's task.                                     *)

\* At an await inside run_existing; wiring awaits only the skills a new
\* turn has queued.
CancelRun ==
    /\ pc \in {"wiring", "model", "approval", "executing", "leaving"}
    /\ ~(pc = "wiring" /\ resumed)
    /\ Cancelled
    /\ NoSave
    /\ UNCHANGED <<decision, rolloutVars, meta, resumed, ghosts>>

\* At an await outside the try block of run_turn.
CancelOutside ==
    /\ pc \in {"starting", "metadata", "flushing"}
    /\ ~raising
    /\ pc' = "closing"
    /\ NoSave
    /\ UNCHANGED <<decision, rolloutVars, meta, runVars, ghosts>>

-----------------------------------------------------------------------------
(* TurnController._finalize.                                               *)

RecordTerminal ==
    /\ pc = "finish"
    /\ Recorded(Entry(run.turn, Outcome[run.status]))
    /\ pc' = "metadata"
    /\ NoSave
    /\ UNCHANGED <<decision, meta, runVars, ghosts>>

ResetMetadata ==
    /\ pc = "metadata"
    /\ meta' = [meta EXCEPT !.status = "IDLE"]
    /\ pc' = "flushing"
    /\ NoSave
    /\ UNCHANGED <<decision, rolloutVars, runVars, ghosts>>

Flushed ==
    /\ pc = "flushing"
    /\ durable' = Len(log)
    /\ pc' = IF raising THEN "closing" ELSE "idle"
    /\ resumed' = FALSE
    /\ NoSave
    /\ UNCHANGED <<decision, log, meta, run, raising, ghosts>>

-----------------------------------------------------------------------------
(* ConversationSession.resume.                                             *)

ResumeFresh ==
    /\ ckpt.point = "NONE"
    /\ pc' = "idle"
    /\ UNCHANGED <<meta, run, resumed, manual>>

\* Mutant: a terminal checkpoint is taken for a finished turn.
ResumeUnrepaired ==
    /\ ckpt.point = "TERMINAL"
    /\ run' = ckpt.run
    /\ pc' = "idle"
    /\ meta' = [meta EXCEPT !.status = "IDLE"]
    /\ UNCHANGED <<resumed, manual>>

\* _repair_terminal_checkpoint: the window between checkpoint and rollout.
ResumeEnded ==
    /\ ckpt.point = "TERMINAL"
    /\ run' = ckpt.run
    /\ IF Ended(ckpt.run.turn)
       THEN pc' = "idle" /\ meta' = [meta EXCEPT !.status = "IDLE"]
       ELSE pc' = "finish" /\ UNCHANGED meta
    /\ UNCHANGED <<resumed, manual>>

\* RecoveryCoordinator.plan: CONTINUE or RETRY, and the CLI goes on at once.
ResumeIncomplete ==
    /\ ckpt.point \notin {"NONE", "TERMINAL", "TOOL_IN_FLIGHT"}
    /\ run' = ckpt.run
    /\ resumed' = TRUE
    /\ pc' = "wiring"
    /\ UNCHANGED <<meta, manual>>

\* RecoveryCoordinator.plan: MANUAL.
ResumeUnknown ==
    /\ ckpt.point = "TOOL_IN_FLIGHT"
    /\ meta' = [meta EXCEPT !.status = "RECOVERY_REQUIRED"]
    /\ manual' = manual \cup {ckpt.run.turn}
    /\ pc' = "idle"
    /\ UNCHANGED <<run, resumed>>

Resume ==
    /\ pc = "down"
    /\ ResumeFresh \/ ResumeEnded \/ ResumeIncomplete \/ ResumeUnknown
    /\ NoSave
    /\ UNCHANGED <<decision, rolloutVars, raising, issued, executions>>

-----------------------------------------------------------------------------
\* What the event loop and the outside world carry on with on their own.
SessionStep ==
    \/ RecordStart \/ WiringFails \/ Close \/ ProcessEnds
    \/ LoopFails \/ EnterLoop \/ BeginIteration \/ SendRequest \/ ModelAnswers
    \/ BeginTool \/ LaunchTool \/ NextIteration \/ TextGuarded \/ TextAccepted
    \/ Completes \/ ChildrenGone
    \/ Authorize \/ Refused \/ AskUser \/ CommitDecision \/ CarryOut \/ ToolReturns
    \/ RecordTerminal \/ ResetMetadata \/ Flushed

Next ==
    \/ SessionStep
    \/ StartTurn \/ Exit \/ UserDecides \/ CancelRun \/ CancelOutside
    \/ Persist \/ Crash \/ Resume

Spec == Init /\ [][Next]_vars

FairSpec == Spec /\ WF_vars(SessionStep)

-----------------------------------------------------------------------------
RunStatus == {"CREATED", "RUNNING", "COMPLETED", "FAILED", "CANCELLED"}
Points == {"NONE", "BEFORE_MODEL", "MODEL_IN_FLIGHT", "AFTER_MODEL", "WAITING_APPROVAL",
           "BEFORE_TOOL", "TOOL_IN_FLIGHT", "AFTER_TOOL", "BEFORE_FINALIZE", "TERMINAL"}
InLoop == {"top", "request", "model", "calls", "tool", "authorize", "approval",
           "decided", "apply", "executing", "finalizing"}
InTurn == InLoop \cup {"starting", "wiring", "leaving", "finish", "metadata", "flushing"}
Places == InTurn \cup {"down", "idle", "closing", "draining"}
RunStates == [turn : 0..MaxTurns, response : SUBSET Calls, results : SUBSET Calls,
              modelCalls : 0..ModelCalls, status : RunStatus]

\* The domain of every variable; a call exists once the model has issued it.
TypeOK ==
    /\ ckpt \in [point : Points, run : RunStates]
    /\ decision \in [Calls -> {"none", "allow", "deny", "cancel"}]
    /\ log \in Seq([turn : Turns, kind : Terminal \cup {"turn.started"}])
    /\ durable \in 0..Len(log)
    /\ meta \in [status : {"IDLE", "ACTIVE", "CLOSED", "RECOVERY_REQUIRED"}, turns : 0..MaxTurns]
    /\ pc \in Places
    /\ run \in RunStates
    /\ resumed \in BOOLEAN
    /\ raising \in BOOLEAN
    /\ issued \in 0..MaxCalls
    /\ executions \in [Calls -> Nat]
    /\ answered \in SUBSET (1..issued)
    /\ manual \in SUBSET Turns

\* A tool that needs no approval is executed at most once, however often
\* the process dies while it runs.
NoBlindReplay == \A c \in Calls \ Asking : executions[c] <= 1

\* A call whose result was checkpointed is never executed again.
ResultsReused ==
    [][\A c \in answered : executions'[c] = executions[c]]_vars

\* A committed response is never asked for again: when a request is made
\* durable, every call of the last response has its result.
ResponseReused ==
    ckpt.point \in {"BEFORE_MODEL", "MODEL_IN_FLIGHT"} => ckpt.run.response \subseteq ckpt.run.results

\* Across restarts, a call that needs approval is executed only under a
\* stored "allow", and a stored decision never changes.
ApprovalRespected ==
    \A c \in Asking : executions[c] > 0 => decision[c] = "allow"

\* A turn that completed or failed on record is not run again.
FinishedIsFinal ==
    pc \in InLoop \cup {"finish"} => ~Has(run.turn, {"turn.completed", "turn.failed"})

\* When the user is prompted for the next turn, the last checkpointed turn
\* has its terminal item or was handed over as RECOVERY_REQUIRED.
NoTurnForgotten ==
    pc = "idle" /\ ckpt.point # "NONE" => Ended(ckpt.run.turn) \/ ckpt.run.turn \in manual

\* A turn id is used for one turn.
TurnIdsFresh ==
    \A i, j \in DOMAIN log :
        log[i].kind = "turn.started" /\ log[j].kind = "turn.started" /\ log[i].turn = log[j].turn => i = j

\* The record and the checkpoints tell one story of every turn, wherever the
\* process died: one id, one end, and no turn left without a word.
TurnsAccountedFor == FinishedIsFinal /\ NoTurnForgotten /\ TurnIdsFresh

Ledger == INSTANCE TurnLedger
    WITH runs <- executions, settled <- answered, record <- SubSeq(log, 1, durable)

\* What the user said, what ran on it and what is on disk of the turns keep the
\* promise of TurnLedger over any crashes, cancellations and resumes.
ImplementsLedger == Ledger!LedgerSpec

\* Every turn ends, waits for the user, or dies with the process.
TurnEnds == (pc \in InTurn) ~> (pc \in {"idle", "approval", "down"})

(* What documents and docstrings say and the code does not do.             *)

\* recovery/coordinator.py:48: "unknown side effect must not be replayed".
NoReplay == \A c \in Calls : executions[c] <= 1

\* turns/controller.py:18: "exactly-once terminal persistence".
OneTerminal ==
    \A i, j \in DOMAIN log :
        log[i].kind \in Terminal /\ log[j].kind \in Terminal /\ log[i].turn = log[j].turn => i = j

\* Phase 6 design, 20.1: a durable flush at the start of a turn, so that the
\* rollout never ends a turn it has not started.
StartOnRecord ==
    \A i \in DOMAIN log : log[i].kind \in Terminal => Has(log[i].turn, {"turn.started"})
=============================================================================
