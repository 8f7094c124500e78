------------------------- MODULE SubagentScheduler -------------------------
(***************************************************************************)
(* runtime/subagents/scheduler.py with the child budget of                 *)
(* runtime/budgets.py: the root agent spawns, waits for, messages, cancels *)
(* and closes child agents; every child turn is an asyncio task that waits *)
(* for a slot of one semaphore, runs an AgentLoop and reports its end.     *)
(*                                                                         *)
(* The event loop is cooperative: an action is the code between two        *)
(* suspension points.  Actors are the root (one tool call at a time) and   *)
(* one task per child.  Condition.notify_all has one possible listener,    *)
(* the root inside wait(); the notifications of cancel() and close() reach *)
(* nobody, because the root itself makes those calls.                      *)
(***************************************************************************)
EXTENDS Naturals, Sequences, FiniteSets

CONSTANTS Agents,        \* ids the run can hand out to children
          Messages,      \* follow-up texts the root may send, each once
          Keys,          \* idempotency keys of spawn requests
          None,          \* no agent, no key
          MaxConcurrent, \* SubagentConfig.max_concurrent
          MaxTotal,      \* SubagentConfig.max_total
          MaxTurns,      \* SubagentConfig.max_turns_per_thread
          ChildCalls,    \* model calls a child's limits allow per turn
          GlobalCalls    \* model calls the root run's limits allow

ASSUME SchedulerAssumption ==
    /\ MaxConcurrent \in Nat \ {0}
    /\ MaxTotal \in Nat
    /\ MaxTurns \in Nat \ {0}
    /\ ChildCalls \in Nat \ {0}
    /\ GlobalCalls \in Nat
    /\ None \notin Agents \cup Keys
    /\ IsFiniteSet(Agents)

VARIABLES
    status,     \* AgentThreadState.status, "ABSENT" before the spawn
    task,       \* where the child's latest asyncio task is suspended
    cancelReq,  \* Task.cancel() was called and not yet delivered
    turnCount,  \* AgentThreadState.turn_count
    calls,      \* model calls of the child's current turn
    mailbox,    \* AgentThreadState.mailbox
    unseen,     \* follow-ups in the conversation no model request carried yet
    copies,     \* history: how often a follow-up entered a conversation
    lease,      \* BudgetLease of the child
    keyOwner,   \* _idempotency
    slots,      \* value of the semaphore
    slotQueue,  \* its waiters, oldest first
    running,    \* _running_count
    reserved,   \* RunBudgetManager.reserved_model_calls
    used,       \* RunBudgetManager.used_child_model_calls
    rootPc,     \* what the root run is doing
    target,     \* the child that cancel() awaits
    after,      \* what follows when cancel() returns
    todo,       \* children cancel_all() has still to visit
    waitFor,    \* the children wait() was asked about
    waitAny,    \* mode == "any"
    woken       \* the waiter was notified and has not looked yet

childVars == <<status, task, cancelReq, turnCount, calls>>
mailVars == <<mailbox, unseen, copies>>
budgetVars == <<lease, reserved, used>>
slotVars == <<slots, slotQueue, running>>
waitVars == <<waitFor, waitAny, woken>>
rootVars == <<rootPc, target, after, todo>>
vars == <<childVars, mailVars, budgetVars, keyOwner, slotVars, waitVars, rootVars>>

-----------------------------------------------------------------------------
(* Sets of states the code tests for.                                      *)

Status == {"ABSENT", "CREATED", "QUEUED", "RUNNING", "IDLE",
           "CANCELLING", "CANCELLED", "FAILED", "CLOSED"}

\* active_agent_ids: the states that keep the root from ending.
ActiveStatus == {"CREATED", "QUEUED", "RUNNING", "CANCELLING"}

\* _is_done: the states wait() is satisfied with.
DoneStatus == {"IDLE", "FAILED", "CANCELLED", "CLOSED"}

\* The states in which send_message and cancel refuse or do nothing.
DeadStatus == {"CANCELLED", "FAILED", "CLOSED"}

TaskState == {"none",      \* no task was ever created
              "ready",     \* created, its first step not yet taken
              "blocked",   \* suspended in Semaphore.acquire
              "granted",   \* given a slot, not yet resumed
              "model",     \* suspended in provider.complete
              "tool",      \* suspended in the executor of a tool
              "done"}

LiveTask == {"ready", "blocked", "granted", "model", "tool"}
InLoop == {"model", "tool"}

Spawned == {a \in Agents : status[a] # "ABSENT"}
Active == {a \in Agents : status[a] \in ActiveStatus}
Live == {a \in Agents : task[a] \in LiveTask}
Executing == {a \in Agents : task[a] \in InLoop}

\* The semaphore's waiters that can still be given a slot.
Waiting(a) == task[a] = "blocked" /\ ~cancelReq[a]

-----------------------------------------------------------------------------
Init ==
    /\ status = [a \in Agents |-> "ABSENT"]
    /\ task = [a \in Agents |-> "none"]
    /\ cancelReq = [a \in Agents |-> FALSE]
    /\ turnCount = [a \in Agents |-> 0]
    /\ calls = [a \in Agents |-> 0]
    /\ mailbox = [a \in Agents |-> {}]
    /\ unseen = [a \in Agents |-> {}]
    /\ copies = [m \in Messages |-> 0]
    /\ lease = [a \in Agents |-> "none"]
    /\ keyOwner = [k \in Keys |-> None]
    /\ slots = MaxConcurrent
    /\ slotQueue = <<>>
    /\ running = 0
    /\ reserved = 0
    /\ used = 0
    /\ rootPc = "loop"
    /\ target = None
    /\ after = "loop"
    /\ todo = {}
    /\ waitFor = {}
    /\ waitAny = FALSE
    /\ woken = FALSE

-----------------------------------------------------------------------------
(* The semaphore of asyncio: a slot freed is handed to the oldest waiter,  *)
(* whose future is then done although its task has not resumed.            *)

SlotsLocked ==
    \/ slots = 0
    \/ \E a \in Agents : Waiting(a) \/ task[a] = "granted"

\* _wake_up_next with free slots to give, t being the tasks after the
\* caller's own change.
WakeNext(t, free) ==
    \/ /\ free > 0
       /\ \E i \in DOMAIN slotQueue :
            /\ Waiting(slotQueue[i])
            /\ \A j \in 1..(i - 1) : ~Waiting(slotQueue[j])
            /\ task' = [t EXCEPT ![slotQueue[i]] = "granted"]
       /\ slots' = free - 1
    \/ /\ free = 0 \/ \A i \in DOMAIN slotQueue : ~Waiting(slotQueue[i])
       /\ task' = t
       /\ slots' = free

\* Mutant: a slot is given back and no waiter is told.
ReleaseSilently(t) == task' = t /\ slots' = slots + 1

ReleaseSlot(t) == WakeNext(t, slots + 1)

\* The waiter's own step: it leaves the queue.
LeaveQueue(a) ==
    \E i \in DOMAIN slotQueue :
        /\ slotQueue[i] = a
        /\ slotQueue' = SubSeq(slotQueue, 1, i - 1)
                        \o SubSeq(slotQueue, i + 1, Len(slotQueue))

-----------------------------------------------------------------------------
(* The budget of the children.                                             *)

\* Mutant: the check leaves out the reservation being made.
FitsBudgetBefore == reserved < GlobalCalls

FitsBudget == reserved + ChildCalls <= GlobalCalls

ReserveChild(a) ==
    /\ lease' = [lease EXCEPT ![a] = "held"]
    /\ reserved' = reserved + ChildCalls
    /\ UNCHANGED used

\* Mutant: a lease is released at the end of every turn.
ReleaseAlways(a, n) ==
    /\ lease' = [lease EXCEPT ![a] = "released"]
    /\ reserved' = reserved - ChildCalls
    /\ used' = used + n

\* A lease is released once; the first release also books what was used.
ReleaseChild(a, n) ==
    IF lease[a] = "held"
    THEN /\ lease' = [lease EXCEPT ![a] = "released"]
         /\ reserved' = reserved - ChildCalls
         /\ used' = used + n
    ELSE UNCHANGED budgetVars

-----------------------------------------------------------------------------
(* Operations of the root.                                                 *)

\* spawn: the thread is registered before its budget is reserved, so a
\* refused reservation leaves a CREATED thread without task or lease.
Spawn(a, k) ==
    /\ rootPc = "loop"
    /\ status[a] = "ABSENT"
    /\ k # None => keyOwner[k] = None
    /\ Cardinality(Spawned) < MaxTotal
    /\ \/ /\ FitsBudget
          /\ ReserveChild(a)
          /\ status' = [status EXCEPT ![a] = "QUEUED"]
          /\ task' = [task EXCEPT ![a] = "ready"]
          /\ keyOwner' = [x \in Keys |-> IF x = k THEN a ELSE keyOwner[x]]
       \/ /\ ~FitsBudget
          /\ status' = [status EXCEPT ![a] = "CREATED"]
          /\ UNCHANGED <<task, keyOwner, budgetVars>>
    /\ UNCHANGED <<cancelReq, turnCount, calls, mailVars, slotVars, waitVars, rootVars>>

\* send_message: the text goes to the mailbox, and to an idle child it is
\* also the task of a new turn.
SendMessage(a, m) ==
    /\ rootPc = "loop"
    /\ status[a] \notin DeadStatus \cup {"ABSENT"}
    /\ turnCount[a] < MaxTurns
    /\ copies[m] = 0 /\ \A b \in Agents : m \notin mailbox[b]
    /\ mailbox' = [mailbox EXCEPT ![a] = @ \cup {m}]
    /\ \/ /\ status[a] = "IDLE"
          /\ status' = [status EXCEPT ![a] = "QUEUED"]
          /\ task' = [task EXCEPT ![a] = "ready"]
          /\ copies' = [copies EXCEPT ![m] = @ + 1]
          /\ unseen' = [unseen EXCEPT ![a] = @ \cup {m}]
       \/ /\ status[a] # "IDLE"
          /\ UNCHANGED <<status, task, copies, unseen>>
    /\ UNCHANGED <<cancelReq, turnCount, calls, budgetVars, keyOwner,
                   slotVars, waitVars, rootVars>>

\* The waiter's test, on the statuses s.
Satisfied(s, S, any) ==
    LET done == {a \in S : s[a] \in DoneStatus}
    IN IF any THEN done # {} ELSE done = S

\* wait: an empty selection stands for all threads.  A call that is
\* satisfied at once changes nothing; the others suspend.
Wait(S, any) ==
    /\ rootPc = "loop"
    /\ S \subseteq Spawned
    /\ S = {} => Spawned = {}
    /\ ~Satisfied(status, S, any)
    /\ rootPc' = "waiting"
    /\ waitFor' = S
    /\ waitAny' = any
    /\ woken' = FALSE
    /\ UNCHANGED <<childVars, mailVars, budgetVars, keyOwner, slotVars, target, after, todo>>

\* wait() is left and its locals are gone.
EndWait(pc) ==
    /\ rootPc' = pc
    /\ waitFor' = {}
    /\ waitAny' = FALSE

\* The waiter runs after a notification and looks at the statuses again.
WaitWakes ==
    /\ rootPc = "waiting"
    /\ woken
    /\ woken' = FALSE
    /\ IF Satisfied(status, waitFor, waitAny)
       THEN EndWait("loop")
       ELSE UNCHANGED <<rootPc, waitFor, waitAny>>
    /\ UNCHANGED <<childVars, mailVars, budgetVars, keyOwner, slotVars,
                   target, after, todo>>

\* timeout_seconds of the call, or the timeout of the control tool.
WaitTimesOut ==
    /\ rootPc = "waiting"
    /\ EndWait("loop")
    /\ woken' = FALSE
    /\ UNCHANGED <<childVars, mailVars, budgetVars, keyOwner, slotVars,
                   target, after, todo>>

\* What cancel() and its caller do once the child's task is done.
AfterCancel(s, a, next) ==
    [s EXCEPT ![a] = IF next = "close" THEN "CLOSED"
                     ELSE IF @ = "CANCELLING" THEN "CANCELLED" ELSE @]

Resume(next) == IF next = "cancelAll" THEN "cancelAll" ELSE "loop"

\* Mutant: cancel() reports CANCELLED without awaiting the task.
CancelAtOnce(a, next) ==
    /\ status' = AfterCancel([status EXCEPT ![a] = "CANCELLING"], a, next)
    /\ cancelReq' = IF a \in Live THEN [cancelReq EXCEPT ![a] = TRUE] ELSE cancelReq
    /\ rootPc' = Resume(next)
    /\ UNCHANGED <<target, after>>

\* cancel: with a live task the caller is suspended until the task ends.
BeginCancel(a, next) ==
    IF a \in Live
    THEN /\ status' = [status EXCEPT ![a] = "CANCELLING"]
         /\ cancelReq' = [cancelReq EXCEPT ![a] = TRUE]
         /\ rootPc' = "cancelling"
         /\ target' = a
         /\ after' = next
    ELSE /\ status' = AfterCancel([status EXCEPT ![a] = "CANCELLING"], a, next)
         /\ rootPc' = Resume(next)
         /\ UNCHANGED <<cancelReq, target, after>>

Cancel(a) ==
    /\ rootPc = "loop"
    /\ status[a] \notin DeadStatus \cup {"ABSENT"}
    /\ BeginCancel(a, "loop")
    /\ UNCHANGED <<task, turnCount, calls, mailVars, budgetVars, keyOwner, slotVars,
                   waitVars, todo>>

\* The awaited task is done: cancel() finishes, and close() after it.
CancelReturns ==
    /\ rootPc = "cancelling"
    /\ target \notin Live
    /\ status' = AfterCancel(status, target, after)
    /\ rootPc' = Resume(after)
    /\ target' = None
    /\ after' = "loop"
    /\ UNCHANGED <<task, cancelReq, turnCount, calls, mailVars, budgetVars, keyOwner,
                   slotVars, waitVars, todo>>

\* close: refused on an active child unless forced.
Close(a, force) ==
    /\ rootPc = "loop"
    /\ status[a] # "ABSENT"
    /\ \/ /\ a \in Active /\ force
          /\ BeginCancel(a, "close")
       \/ /\ a \notin Active
          /\ status' = [status EXCEPT ![a] = "CLOSED"]
          /\ UNCHANGED <<cancelReq, rootPc, target, after>>
    /\ UNCHANGED <<task, turnCount, calls, mailVars, budgetVars, keyOwner, slotVars,
                   waitVars, todo>>

-----------------------------------------------------------------------------
(* The end of the root run.                                                *)

\* The final guard lets the root answer only when no child is active.
FinalAnswer ==
    /\ rootPc = "loop"
    /\ Active = {}
    /\ rootPc' = "finally"
    /\ UNCHANGED <<childVars, mailVars, budgetVars, keyOwner, slotVars, waitVars,
                   target, after, todo>>

\* The root fails, exhausts a limit or is cancelled.  While cancel() awaits
\* a child, a cancellation of the root only reaches that child again.
RootAborts ==
    /\ rootPc \in {"loop", "waiting"}
    /\ EndWait("finally")
    /\ woken' = FALSE
    /\ UNCHANGED <<childVars, mailVars, budgetVars, keyOwner, slotVars,
                   target, after, todo>>

\* Mutant: the root run ends without cancel_all.
FinallyEnds ==
    /\ rootPc = "finally"
    /\ rootPc' = "ended"
    /\ UNCHANGED <<childVars, mailVars, budgetVars, keyOwner, slotVars, waitVars,
                   target, after, todo>>

\* The finally clause of run_existing.
Finally ==
    /\ rootPc = "finally"
    /\ rootPc' = IF Active = {} THEN "ended" ELSE "cancelAll"
    /\ todo' = Active
    /\ UNCHANGED <<childVars, mailVars, budgetVars, keyOwner, slotVars, waitVars,
                   target, after>>

\* cancel_all cancels one after the other the children that were active
\* when it started.
CancelNext(a) ==
    /\ rootPc = "cancelAll"
    /\ a \in todo
    /\ todo' = todo \ {a}
    /\ \/ /\ status[a] \in DeadStatus
          /\ UNCHANGED <<status, cancelReq, rootPc, target, after>>
       \/ /\ status[a] \notin DeadStatus
          /\ BeginCancel(a, "cancelAll")
    /\ UNCHANGED <<task, turnCount, calls, mailVars, budgetVars, keyOwner, slotVars,
                   waitVars>>

\* ... and gathers every task the scheduler ever created.
GatherTasks ==
    /\ rootPc = "cancelAll"
    /\ todo = {}
    /\ Live = {}
    /\ rootPc' = "ended"
    /\ UNCHANGED <<childVars, mailVars, budgetVars, keyOwner, slotVars, waitVars,
                   target, after, todo>>

-----------------------------------------------------------------------------
(* Steps of a child's task.                                                *)

\* The mailbox is drained into the conversation.
DrainMailbox(a) ==
    /\ mailbox' = [mailbox EXCEPT ![a] = {}]
    /\ copies' = [m \in Messages |-> IF m \in mailbox[a] THEN copies[m] + 1 ELSE copies[m]]

\* The body of _run_child up to the first model request, which carries
\* everything the conversation holds.
BeginTurn(a) ==
    /\ status' = [status EXCEPT ![a] = "RUNNING"]
    /\ turnCount' = [turnCount EXCEPT ![a] = @ + 1]
    /\ calls' = [calls EXCEPT ![a] = 1]
    /\ running' = running + 1
    /\ DrainMailbox(a)
    /\ unseen' = [unseen EXCEPT ![a] = {}]

\* First step of the task: take a slot or queue for one.
TaskStarts(a) ==
    /\ task[a] = "ready" /\ ~cancelReq[a]
    /\ \/ /\ ~SlotsLocked
          /\ BeginTurn(a)
          /\ slots' = slots - 1
          /\ task' = [task EXCEPT ![a] = "model"]
          /\ UNCHANGED slotQueue
       \/ /\ SlotsLocked
          /\ task' = [task EXCEPT ![a] = "blocked"]
          /\ slotQueue' = Append(slotQueue, a)
          /\ UNCHANGED <<status, turnCount, calls, mailVars, slots, running>>
    /\ UNCHANGED <<cancelReq, budgetVars, keyOwner, waitVars, rootVars>>

\* A waiter that was given a slot resumes; if more slots are free it
\* passes one on.
SlotAcquired(a) ==
    /\ task[a] = "granted" /\ ~cancelReq[a]
    /\ LeaveQueue(a)
    /\ BeginTurn(a)
    /\ WakeNext([task EXCEPT ![a] = "model"], slots)
    /\ UNCHANGED <<cancelReq, budgetVars, keyOwner, waitVars, rootVars>>

\* The provider answers with tool calls.
ModelCallsTool(a) ==
    /\ task[a] = "model" /\ ~cancelReq[a]
    /\ task' = [task EXCEPT ![a] = "tool"]
    /\ UNCHANGED <<status, cancelReq, turnCount, calls, mailVars, budgetVars, keyOwner,
                   slotVars, waitVars, rootVars>>

\* Mutant: the iteration does not count its model call.
NextUncounted(a) ==
    /\ task[a] \in InLoop /\ ~cancelReq[a]
    /\ task' = [task EXCEPT ![a] = "model"]
    /\ DrainMailbox(a)
    /\ unseen' = [unseen EXCEPT ![a] = {}]
    /\ UNCHANGED <<status, cancelReq, turnCount, calls, budgetVars, keyOwner, slotVars,
                   waitVars, rootVars>>

\* The next iteration: after the tools, or after a text the completion
\* policy sends back for repair.
NextIteration(a) ==
    /\ task[a] \in InLoop /\ ~cancelReq[a]
    /\ calls[a] < ChildCalls
    /\ calls' = [calls EXCEPT ![a] = @ + 1]
    /\ task' = [task EXCEPT ![a] = "model"]
    /\ DrainMailbox(a)
    /\ unseen' = [unseen EXCEPT ![a] = {}]
    /\ UNCHANGED <<status, cancelReq, turnCount, budgetVars, keyOwner, slotVars,
                   waitVars, rootVars>>

\* Mutant: the finally clause forgets notify_all.
NotifyNobody == UNCHANGED woken

\* Condition.notify_all: only the root inside wait() can be listening.
NotifyAll == woken' = (rootPc = "waiting")

\* Everything after the loop and the finally clause: the slot, the lease
\* and the running count are given back and the waiter is notified.
EndTurn(a, st, n) ==
    /\ status' = [status EXCEPT ![a] = st]
    /\ calls' = [calls EXCEPT ![a] = 0]
    /\ ReleaseSlot([task EXCEPT ![a] = "done"])
    /\ ReleaseChild(a, n)
    /\ running' = IF running > 0 THEN running - 1 ELSE running
    /\ NotifyAll
    /\ UNCHANGED <<turnCount, keyOwner, waitFor, waitAny, rootVars>>

\* submit_result succeeded: the mailbox is drained into the history the
\* thread keeps, and the turn ends without another model request.  A final
\* text that happens to be JSON ends the turn without the drain.
TurnSucceeds(a) ==
    /\ task[a] \in InLoop /\ ~cancelReq[a]
    /\ EndTurn(a, "IDLE", calls[a])
    /\ \/ /\ task[a] = "tool"
          /\ DrainMailbox(a)
          /\ unseen' = [unseen EXCEPT ![a] = @ \cup mailbox[a]]
       \/ /\ task[a] = "model"
          /\ UNCHANGED mailVars
    /\ UNCHANGED <<cancelReq, slotQueue>>

\* The loop fails (its usage is booked) or the code around it raises.  The
\* mailbox of a failed thread is never read again.
TurnFails(a) ==
    /\ task[a] \in InLoop /\ ~cancelReq[a]
    /\ \E n \in {0, calls[a]} : EndTurn(a, "FAILED", n)
    /\ UNCHANGED <<cancelReq, mailVars, slotQueue>>

\* CancelledError is raised inside the loop.
TurnCancelled(a) ==
    /\ task[a] \in InLoop /\ cancelReq[a]
    /\ EndTurn(a, "CANCELLED", 0)
    /\ cancelReq' = [cancelReq EXCEPT ![a] = FALSE]
    /\ UNCHANGED <<mailVars, slotQueue>>

\* asyncio.wait_for (Python 3.11) returns the result of a tool that ended
\* in the same loop iteration and drops the cancellation.
CancelSwallowed(a) ==
    /\ task[a] = "tool" /\ cancelReq[a]
    /\ cancelReq' = [cancelReq EXCEPT ![a] = FALSE]
    /\ UNCHANGED <<status, task, turnCount, calls, mailVars, budgetVars, keyOwner,
                   slotVars, waitVars, rootVars>>

\* Mutant: the finally clause releases whether or not it had acquired.
SurrenderAlways(a) == ReleaseSlot([task EXCEPT ![a] = "done"])

\* acquire() hands on a slot it was already granted; _run_child itself
\* acquired none.
Surrender(a) ==
    IF task[a] = "granted"
    THEN ReleaseSlot([task EXCEPT ![a] = "done"])
    ELSE task' = [task EXCEPT ![a] = "done"] /\ UNCHANGED slots

\* CancelledError is raised while the task queues for a slot.
QueueCancelled(a) ==
    /\ task[a] \in {"blocked", "granted"} /\ cancelReq[a]
    /\ status' = [status EXCEPT ![a] = "CANCELLED"]
    /\ cancelReq' = [cancelReq EXCEPT ![a] = FALSE]
    /\ LeaveQueue(a)
    /\ Surrender(a)
    /\ ReleaseChild(a, 0)
    /\ NotifyAll
    /\ UNCHANGED <<turnCount, calls, mailVars, keyOwner, running, waitFor, waitAny, rootVars>>

\* A task cancelled before its first step never enters _run_child: no
\* handler and no finally clause runs.
NeverStarted(a) ==
    /\ task[a] = "ready" /\ cancelReq[a]
    /\ task' = [task EXCEPT ![a] = "done"]
    /\ cancelReq' = [cancelReq EXCEPT ![a] = FALSE]
    /\ UNCHANGED <<status, turnCount, calls, mailVars, budgetVars, keyOwner, slotVars,
                   waitVars, rootVars>>

ChildStep(a) ==
    \/ TaskStarts(a) \/ SlotAcquired(a)
    \/ ModelCallsTool(a) \/ NextIteration(a)
    \/ TurnSucceeds(a) \/ TurnFails(a)
    \/ TurnCancelled(a) \/ CancelSwallowed(a) \/ QueueCancelled(a) \/ NeverStarted(a)

RootCall ==
    \/ \E a \in Agents :
         \/ \E k \in Keys \cup {None} : Spawn(a, k)
         \/ \E m \in Messages : SendMessage(a, m)
         \/ Cancel(a)
         \/ \E force \in BOOLEAN : Close(a, force)
    \/ \E S \in SUBSET Agents, any \in BOOLEAN : Wait(S, any)

\* Steps of the root that wait for nobody's decision.
RootStep ==
    \/ WaitWakes \/ CancelReturns
    \/ Finally \/ GatherTasks
    \/ \E a \in Agents : CancelNext(a)

\* The run is over and nothing is left to do.
RunOver == rootPc = "ended" /\ UNCHANGED vars

Next ==
    \/ \E a \in Agents : ChildStep(a)
    \/ RootCall \/ RootStep
    \/ WaitTimesOut \/ FinalAnswer \/ RootAborts
    \/ RunOver

Spec == Init /\ [][Next]_vars

\* The event loop runs every ready task; a provider call and a tool end by
\* themselves (both carry timeouts), so a child's task never rests for ever.
FairSpec ==
    /\ Spec
    /\ \A a \in Agents : WF_vars(ChildStep(a))
    /\ WF_vars(RootStep)

-----------------------------------------------------------------------------
(* Properties.                                                             *)

\* The domain of every variable (the fields of the scheduler, its threads,
\* leases and the root's position).
TypeOK ==
    /\ status \in [Agents -> Status]
    /\ task \in [Agents -> TaskState]
    /\ cancelReq \in [Agents -> BOOLEAN]
    /\ turnCount \in [Agents -> Nat]
    /\ calls \in [Agents -> Nat]
    /\ mailbox \in [Agents -> SUBSET Messages]
    /\ unseen \in [Agents -> SUBSET Messages]
    /\ copies \in [Messages -> Nat]
    /\ lease \in [Agents -> {"none", "held", "released"}]
    /\ keyOwner \in [Keys -> Agents \cup {None}]
    /\ slots \in Nat
    /\ slotQueue \in Seq(Agents)
    /\ running \in Nat
    /\ reserved \in Nat
    /\ used \in Nat
    /\ rootPc \in {"loop", "waiting", "cancelling", "finally", "cancelAll", "ended"}
    /\ target \in Agents \cup {None}
    /\ after \in {"loop", "close", "cancelAll"}
    /\ todo \in SUBSET Agents
    /\ waitFor \in SUBSET Agents
    /\ waitAny \in BOOLEAN
    /\ woken \in BOOLEAN

\* The semaphore never leaks a slot and never gives one away twice, whatever
\* the order of cancellations, grants and ends; _running_count counts the
\* turns in the loop, so max_concurrent_observed stays within the limit.
SlotAccounting ==
    /\ slots + Cardinality({a \in Agents : task[a] = "granted"})
             + Cardinality(Executing) = MaxConcurrent
    /\ running = Cardinality(Executing)

\* A free slot is not left idle while a child queues for it: a waiter that
\* already holds a grant is about to pass the next one on.
NoIdleSlot ==
    slots > 0 /\ (\E a \in Agents : Waiting(a)) => \E a \in Agents : task[a] = "granted"

\* Reservations add up to the held leases, stay within the root's limit,
\* and the first turn of a child runs under a held lease.
BudgetAccounting ==
    /\ reserved = ChildCalls * Cardinality({a \in Agents : lease[a] = "held"})
    /\ reserved <= GlobalCalls
    /\ \A a \in Live : turnCount[a] + (IF task[a] \in InLoop THEN 0 ELSE 1) = 1
                       => lease[a] = "held"

\* A child is CANCELLED, CLOSED, IDLE or FAILED only when its task is done
\* (cancel() must not write CANCELLED while the task still cleans up), and
\* when the root run has ended no child is left, in task or in status.
NoOrphanChild ==
    /\ Live \subseteq Active
    /\ rootPc = "ended" => Live = {} /\ Active = {}

\* The waiter inside wait() sleeps only while its criterion is false or a
\* notification is on its way.
NoLostWakeup ==
    rootPc = "waiting" /\ Satisfied(status, waitFor, waitAny) => woken

\* An idempotency key answers with a child that was really scheduled.
KeyNamesScheduledChild ==
    \A k \in Keys : keyOwner[k] # None => task[keyOwner[k]] # "none"

\* CLOSED is final; a cancelled or failed child can only be closed, and
\* takes no further turn.
DeadStaysDead ==
    [][\A a \in Agents : status[a] \in DeadStatus =>
          /\ status'[a] \in {status[a], "CLOSED"}
          /\ turnCount'[a] = turnCount[a]]_vars

\* Once the finally clause runs, cancel_all brings the root run to its end.
RootRunEnds == (rootPc = "finally") ~> (rootPc = "ended")

\* A child that queues for a slot gets one or is cancelled.
QueuedChildMoves == \A a \in Agents : (task[a] = "blocked") ~> (task[a] # "blocked")

\* Nobody waits for ever: neither the root for its children nor a child for a
\* slot, although every child may swallow its cancellation and go on.
NobodyWaitsForEver == RootRunEnds /\ QueuedChildMoves

(* What documents and docstrings say and the code does not do.             *)

\* scheduler.py:196: active ids are "child agents that can still consume
\* work".
ActiveCanConsumeWork ==
    \A a \in Active : a \in Live \/ (rootPc = "cancelling" /\ target = a)

\* Thread/Turn/Item plan, 15.4 and acceptance list: a follow-up is injected
\* once, never both through the mailbox and as a new turn.
FollowupInjectedOnce == \A m \in Messages : copies[m] <= 1

\* The same plan: submit_result is accepted only when no follow-up waits.
FollowupActedOn ==
    \A a \in Agents : status[a] = "IDLE" => unseen[a] = {} /\ mailbox[a] = {}

(* The supervisor this scheduler implements.                               *)
Sup == INSTANCE Supervisor WITH
        Capacity <- MaxConcurrent,
        admitted <- Live,
        executing <- Executing,
        over <- (rootPc = "ended")

\* Child tasks live inside the life of the root run.
ImplementsSupervisor == Sup!SupervisorSpec
=============================================================================
