---------------------- MODULE SubagentScheduler_proofs ----------------------
(* Safety of the subagent scheduler, for every number of children, slots,  *)
(* turns and model calls.                                                  *)
EXTENDS SubagentScheduler, FiniteSetTheorems, SequenceTheorems, TLAPS

Held == {a \in Agents : lease[a] = "held"}

\* The reservations are the held leases; a child never spawned holds none.
LeaseSum ==
    /\ reserved = ChildCalls * Cardinality(Held)
    /\ \A a \in Agents : status[a] = "ABSENT" => lease[a] = "none"

-----------------------------------------------------------------------------
(* Lemmas about the helpers of the actions.                                *)

\* Taking one element out of a sequence: the elements before it keep their
\* places and those behind it move up.
LEMMA SequenceWithout ==
    ASSUME NEW E, NEW s \in Seq(E), NEW i \in 1..Len(s)
    PROVE  LET r == SubSeq(s, 1, i - 1) \o SubSeq(s, i + 1, Len(s))
           IN  /\ r \in Seq(E)
               /\ Len(r) = Len(s) - 1
               /\ \A j \in 1..(Len(s) - 1) : r[j] = IF j < i THEN s[j] ELSE s[j + 1]
<1> DEFINE front == SubSeq(s, 1, i - 1)
           back == SubSeq(s, i + 1, Len(s))
<1>1. Len(s) \in Nat /\ i \in Int /\ 1 <= i /\ i <= Len(s)
  OBVIOUS
<1>2. /\ front \in Seq(E) /\ Len(front) = i - 1
      /\ \A j \in 1..(i - 1) : front[j] = s[j]
  BY <1>1
<1>3. /\ back \in Seq(E) /\ Len(back) = Len(s) - i
      /\ \A j \in 1..(Len(s) - i) : back[j] = s[i + j]
  BY <1>1
<1> HIDE DEF front, back
<1>4. /\ front \o back \in Seq(E)
      /\ Len(front \o back) = Len(s) - 1
      /\ \A j \in 1..(Len(s) - 1) :
           (front \o back)[j] = IF j <= i - 1 THEN front[j] ELSE back[j - (i - 1)]
  BY <1>1, <1>2, <1>3, ConcatProperties
<1>5. \A j \in 1..(Len(s) - 1) : (front \o back)[j] = IF j < i THEN s[j] ELSE s[j + 1]
  <2> TAKE j \in 1..(Len(s) - 1)
  <2>1. CASE j < i
    <3>1. j <= i - 1 /\ j \in 1..(i - 1)
      BY <1>1, <2>1
    <3> QED BY <1>2, <1>4, <2>1, <3>1
  <2>2. CASE ~(j < i)
    <3>1. /\ j - (i - 1) \in 1..(Len(s) - i) /\ i + (j - (i - 1)) = j + 1
          /\ ~(j <= i - 1) /\ ~(j < i)
      BY <1>1, <2>2
    <3>2. (front \o back)[j] = back[j - (i - 1)]
      BY <1>4, <3>1
    <3>3. back[j - (i - 1)] = s[j + 1]
      BY <1>3, <3>1
    <3> QED BY <3>1, <3>2, <3>3
  <2> QED BY <2>1, <2>2
<1> QED BY <1>4, <1>5 DEF front, back

\* Leaving the semaphore's queue keeps it a sequence of children, and every
\* other child keeps a place in it.
LEMMA LeaveQueueKeeps ==
    ASSUME slotQueue \in Seq(Agents), NEW a \in Agents, LeaveQueue(a)
    PROVE  /\ slotQueue' \in Seq(Agents)
           /\ \A b \in Agents \ {a} :
                (\E j \in DOMAIN slotQueue : slotQueue[j] = b)
                => \E j \in DOMAIN slotQueue' : slotQueue'[j] = b
<1>1. PICK i \in DOMAIN slotQueue :
          /\ slotQueue[i] = a
          /\ slotQueue' = SubSeq(slotQueue, 1, i - 1)
                          \o SubSeq(slotQueue, i + 1, Len(slotQueue))
  BY DEF LeaveQueue
<1>2. i \in 1..Len(slotQueue) /\ Len(slotQueue) \in Nat /\ DOMAIN slotQueue = 1..Len(slotQueue)
  BY <1>1
<1>3. /\ slotQueue' \in Seq(Agents)
      /\ Len(slotQueue') = Len(slotQueue) - 1
      /\ \A j \in 1..(Len(slotQueue) - 1) :
           slotQueue'[j] = IF j < i THEN slotQueue[j] ELSE slotQueue[j + 1]
  BY <1>1, <1>2, SequenceWithout
<1>4. DOMAIN slotQueue' = 1..(Len(slotQueue) - 1)
  BY <1>2, <1>3
<1>5. ASSUME NEW b \in Agents \ {a}, NEW j \in DOMAIN slotQueue, slotQueue[j] = b
      PROVE  \E n \in DOMAIN slotQueue' : slotQueue'[n] = b
  <2>1. j \in 1..Len(slotQueue) /\ j # i
    BY <1>1, <1>2, <1>5
  <2>2. CASE j < i
    BY <1>2, <1>3, <1>4, <1>5, <2>1, <2>2
  <2>3. CASE j > i
    <3>1. j - 1 \in 1..(Len(slotQueue) - 1) /\ ~(j - 1 < i) /\ (j - 1) + 1 = j
      BY <1>2, <2>1, <2>3
    <3> QED BY <1>3, <1>4, <1>5, <3>1
  <2> QED BY <1>2, <2>1, <2>2, <2>3
<1> QED BY <1>3, <1>5

\* A slot handed on turns one "blocked" waiter into "granted" and nothing else.
\* Here v is the new position of the task whose step this is, and k the
\* number of slots it gives back.
LEMMA WakeNextKeeps ==
    ASSUME task \in [Agents -> TaskState], slots \in Nat, slotQueue \in Seq(Agents),
           NEW a \in Agents, NEW v \in TaskState, NEW k \in {0, 1},
           \/ k = 0 /\ WakeNext([task EXCEPT ![a] = v], slots)
           \/ k = 1 /\ WakeNext([task EXCEPT ![a] = v], slots + 1)
    PROVE  /\ task' \in [Agents -> TaskState]
           /\ slots' \in Nat
           /\ \/ task' = [task EXCEPT ![a] = v] /\ slots' = slots + k
              \/ \E b \in Agents : /\ Waiting(b)
                                   /\ task' = [task EXCEPT ![a] = v, ![b] = "granted"]
                                   /\ slots' = slots + k - 1
<1> DEFINE t == [task EXCEPT ![a] = v]
<1>1. t \in [Agents -> TaskState]
  OBVIOUS
<1>2. CASE task' = t /\ slots' = slots + k
  BY <1>1, <1>2
<1>3. CASE \E i \in DOMAIN slotQueue :
              /\ slots + k > 0
              /\ Waiting(slotQueue[i])
              /\ task' = [t EXCEPT ![slotQueue[i]] = "granted"]
              /\ slots' = slots + k - 1
  <2>1. PICK i \in DOMAIN slotQueue :
              /\ slots + k > 0
              /\ Waiting(slotQueue[i])
              /\ task' = [t EXCEPT ![slotQueue[i]] = "granted"]
              /\ slots' = slots + k - 1
    BY <1>3
  <2> DEFINE b == slotQueue[i]
  <2>2. b \in Agents
    BY <2>1
  <2>3. slots' \in Nat /\ slots' = slots + k - 1
    BY <2>1
  <2> HIDE DEF b
  <2>4. task' = [t EXCEPT ![b] = "granted"] /\ Waiting(b)
    BY <2>1 DEF b
  <2>5. task' \in [Agents -> TaskState]
    BY <1>1, <2>2, <2>4 DEF TaskState
  <2> QED BY <2>2, <2>3, <2>4, <2>5
<1> QED BY <1>2, <1>3 DEF WakeNext, TaskState

\* One more held lease is one more reservation of ChildCalls.
LEMMA ReserveKeeps ==
    ASSUME TypeOK, LeaseSum, NEW a \in Agents, status[a] = "ABSENT", ReserveChild(a)
    PROVE  /\ lease' \in [Agents -> {"none", "held", "released"}]
           /\ reserved' \in Nat
           /\ reserved' = ChildCalls * Cardinality(Held')
           /\ \A b \in Agents \ {a} : lease'[b] = lease[b]
<1>1. Held' = Held \cup {a} /\ a \notin Held
  BY DEF TypeOK, LeaseSum, ReserveChild, Held
<1>2. IsFiniteSet(Held)
  BY SchedulerAssumption, FS_Subset DEF Held
<1>3. Cardinality(Held) \in Nat
  BY <1>2, FS_CardinalityType
<1>4. Cardinality(Held') = Cardinality(Held) + 1
  BY <1>1, <1>2, FS_AddElement
<1>5. ChildCalls * (Cardinality(Held) + 1) = ChildCalls * Cardinality(Held) + ChildCalls
  BY <1>3, SchedulerAssumption
<1>6. reserved' = reserved + ChildCalls
  BY DEF ReserveChild
<1>7. reserved' = ChildCalls * Cardinality(Held')
  BY <1>4, <1>5, <1>6 DEF LeaseSum
<1>8. reserved' \in Nat
  BY <1>6, SchedulerAssumption DEF TypeOK
<1>9. lease' = [lease EXCEPT ![a] = "held"] /\ lease \in [Agents -> {"none", "held", "released"}]
  BY DEF TypeOK, ReserveChild
<1>10. /\ lease' \in [Agents -> {"none", "held", "released"}]
       /\ \A b \in Agents \ {a} : lease'[b] = lease[b]
  BY <1>9
<1> QED BY <1>7, <1>8, <1>10

\* Releasing a lease returns its reservation, and only once.
LEMMA ReleaseKeeps ==
    ASSUME TypeOK, LeaseSum, NEW a \in Agents, NEW n \in Nat, ReleaseChild(a, n)
    PROVE  /\ lease' \in [Agents -> {"none", "held", "released"}]
           /\ reserved' \in Nat
           /\ used' \in Nat
           /\ reserved' = ChildCalls * Cardinality(Held')
           /\ reserved' <= reserved
           /\ \A b \in Agents : lease[b] = "none" => lease'[b] = "none"
           /\ \A b \in Agents \ {a} : lease'[b] = lease[b]
<1>1. CASE lease[a] = "held"
  <2>1. Held' = Held \ {a} /\ a \in Held
    BY <1>1 DEF TypeOK, ReleaseChild, Held
  <2>2. IsFiniteSet(Held)
    BY SchedulerAssumption, FS_Subset DEF Held
  <2>3. Cardinality(Held) \in Nat /\ Cardinality(Held') \in Nat
    BY <2>1, <2>2, FS_CardinalityType, FS_RemoveElement
  <2>4. Cardinality(Held) = Cardinality(Held') + 1
    <3>1. Cardinality(Held') = Cardinality(Held) - 1
      BY <2>1, <2>2, FS_RemoveElement
    <3> QED BY <2>3, <3>1
  <2>5. ChildCalls * (Cardinality(Held') + 1) = ChildCalls * Cardinality(Held') + ChildCalls
    BY <2>3, SchedulerAssumption
  <2>6. reserved' = reserved - ChildCalls
    BY <1>1 DEF ReleaseChild
  <2>7. ChildCalls * Cardinality(Held') \in Nat
    BY <2>3, SchedulerAssumption
  <2>8. reserved' = ChildCalls * Cardinality(Held') /\ reserved' <= reserved
    BY <2>4, <2>5, <2>6, <2>7, SchedulerAssumption DEF LeaseSum
  <2>9. reserved' \in Nat /\ used' \in Nat
    BY <1>1, <2>7, <2>8 DEF TypeOK, ReleaseChild
  <2>10. /\ lease' = [lease EXCEPT ![a] = "released"]
         /\ lease \in [Agents -> {"none", "held", "released"}]
    BY <1>1 DEF TypeOK, ReleaseChild
  <2>11. /\ lease' \in [Agents -> {"none", "held", "released"}]
         /\ \A b \in Agents : lease[b] = "none" => lease'[b] = "none"
         /\ \A b \in Agents \ {a} : lease'[b] = lease[b]
    BY <1>1, <2>10
  <2> QED BY <2>8, <2>9, <2>11
<1>2. CASE lease[a] # "held"
  <2>1. UNCHANGED budgetVars
    BY <1>2 DEF ReleaseChild
  <2>2. Held' = Held
    BY <2>1 DEF Held, budgetVars
  <2> QED BY <2>1, <2>2 DEF TypeOK, LeaseSum, budgetVars
<1> QED BY <1>1, <1>2

\* The end of a turn, whatever its outcome, keeps the types and the leases.
LEMMA EndTurnKeeps ==
    ASSUME TypeOK, LeaseSum, NEW a \in Agents, NEW st \in Status \ {"ABSENT"},
           NEW n \in Nat, EndTurn(a, st, n)
    PROVE  /\ status' = [status EXCEPT ![a] = st]
           /\ status' \in [Agents -> Status]
           /\ task' \in [Agents -> TaskState]
           /\ calls' \in [Agents -> Nat]
           /\ slots' \in Nat
           /\ running' \in Nat
           /\ woken' \in BOOLEAN
           /\ lease' \in [Agents -> {"none", "held", "released"}]
           /\ reserved' \in Nat
           /\ used' \in Nat
           /\ LeaseSum'
<1>1. WakeNext([task EXCEPT ![a] = "done"], slots + 1) /\ "done" \in TaskState
  BY DEF EndTurn, ReleaseSlot, TaskState
<1>2. task' \in [Agents -> TaskState] /\ slots' \in Nat
  BY <1>1, WakeNextKeeps DEF TypeOK
<1>3. ReleaseChild(a, n)
  BY DEF EndTurn
<1>4. /\ status' = [status EXCEPT ![a] = st]
      /\ status' \in [Agents -> Status]
      /\ calls' \in [Agents -> Nat]
      /\ running' \in Nat
      /\ woken' \in BOOLEAN
  BY DEF TypeOK, EndTurn, NotifyAll
<1>5. LeaseSum'
  BY <1>3, <1>4, ReleaseKeeps DEF LeaseSum, TypeOK
<1> QED BY <1>2, <1>3, <1>4, <1>5, ReleaseKeeps

\* A root step that only moves the root and changes statuses keeps the types.
LEMMA BeginCancelKeeps ==
    ASSUME TypeOK, LeaseSum, NEW a \in Agents,
           NEW next \in {"loop", "close", "cancelAll"}, BeginCancel(a, next)
    PROVE  /\ status' \in [Agents -> Status]
           /\ \A b \in Agents : status'[b] = "ABSENT" => status[b] = "ABSENT"
           /\ cancelReq' \in [Agents -> BOOLEAN]
           /\ rootPc' \in {"loop", "waiting", "cancelling", "finally", "cancelAll", "ended"}
           /\ target' \in Agents \cup {None}
           /\ after' \in {"loop", "close", "cancelAll"}
  BY DEF TypeOK, BeginCancel, AfterCancel, Resume, Status

-----------------------------------------------------------------------------
(* Type correctness.                                                       *)

TypeInv == TypeOK /\ LeaseSum

LEMMA TypeInit == Init => TypeInv
<1> SUFFICES ASSUME Init PROVE TypeInv
  OBVIOUS
<1>1. /\ status \in [Agents -> Status]
      /\ task \in [Agents -> TaskState]
      /\ slots \in Nat
      /\ slotQueue \in Seq(Agents)
  BY SchedulerAssumption DEF Init, Status, TaskState
<1>4. TypeOK
  BY <1>1 DEF Init, TypeOK
<1>2. Held = {}
  BY DEF Init, Held
<1>3. LeaseSum
  BY <1>2, FS_EmptySet, SchedulerAssumption DEF Init, LeaseSum
<1> QED BY <1>3, <1>4 DEF TypeInv

LEMMA TypeStep == TypeInv /\ [Next]_vars => TypeInv'
<1> SUFFICES ASSUME TypeOK, LeaseSum, [Next]_vars PROVE TypeOK' /\ LeaseSum'
  BY DEF TypeInv
<1> USE DEF vars, childVars, mailVars, budgetVars, slotVars, waitVars, rootVars
<1>1. ASSUME NEW a \in Agents, NEW k \in Keys \cup {None}, Spawn(a, k)
      PROVE  TypeOK' /\ LeaseSum'
  <2>1. CASE FitsBudget
    <3>1. ReserveChild(a) /\ status[a] = "ABSENT"
      BY <1>1, <2>1 DEF Spawn
    <3>2. /\ lease' \in [Agents -> {"none", "held", "released"}]
          /\ reserved' \in Nat
          /\ used' \in Nat
          /\ reserved' = ChildCalls * Cardinality(Held')
          /\ \A b \in Agents \ {a} : lease'[b] = lease[b]
      BY <3>1, ReserveKeeps DEF ReserveChild, TypeOK
    <3>3. keyOwner' \in [Keys -> Agents \cup {None}]
      BY <1>1, <2>1 DEF TypeOK, Spawn
    <3>5. status' \in [Agents -> Status] /\ task' \in [Agents -> TaskState]
      BY <1>1, <2>1 DEF TypeOK, Spawn, Status, TaskState
    <3>6. TypeOK'
      BY <1>1, <2>1, <3>2, <3>3, <3>5 DEF TypeOK, Spawn
    <3>4. LeaseSum'
      BY <1>1, <2>1, <3>2 DEF TypeOK, LeaseSum, Spawn
    <3> QED BY <3>4, <3>6
  <2>2. CASE ~FitsBudget
    <3>1. TypeOK'
      BY <1>1, <2>2 DEF TypeOK, Spawn, Status
    <3>2. Held' = Held
      BY <1>1, <2>2 DEF Spawn, Held
    <3>3. LeaseSum'
      BY <1>1, <2>2, <3>2 DEF TypeOK, LeaseSum, Spawn
    <3> QED BY <3>1, <3>3
  <2> QED BY <2>1, <2>2
<1>2. ASSUME UNCHANGED budgetVars,
             \A a \in Agents : status'[a] = "ABSENT" => status[a] = "ABSENT"
      PROVE  LeaseSum'
  <2>1. Held' = Held
    BY <1>2 DEF Held
  <2> QED BY <1>2, <2>1 DEF LeaseSum
<1>3. ASSUME NEW a \in Agents, NEW m \in Messages, SendMessage(a, m)
      PROVE  TypeOK' /\ LeaseSum'
  <2>1. /\ status' \in [Agents -> Status] /\ task' \in [Agents -> TaskState]
        /\ copies' \in [Messages -> Nat]
    <3>1. status' \in [Agents -> Status]
      BY <1>3 DEF TypeOK, SendMessage, Status
    <3>2. task' \in [Agents -> TaskState]
      BY <1>3 DEF TypeOK, SendMessage, TaskState
    <3>3. copies' \in [Messages -> Nat]
      <4>1. copies \in [Messages -> Nat]
        BY DEF TypeOK
      <4>2. copies' = [copies EXCEPT ![m] = @ + 1] \/ copies' = copies
        BY <1>3 DEF SendMessage
      <4> QED BY <4>1, <4>2
    <3> QED BY <3>1, <3>2, <3>3
  <2>2. /\ mailbox' \in [Agents -> SUBSET Messages]
        /\ unseen' \in [Agents -> SUBSET Messages]
    BY <1>3 DEF TypeOK, SendMessage
  <2>3. TypeOK'
    BY <1>3, <2>1, <2>2 DEF TypeOK, SendMessage
  <2>4. LeaseSum'
    BY <1>2, <1>3 DEF TypeOK, SendMessage
  <2> QED BY <2>3, <2>4
<1>4. ASSUME NEW a \in Agents, Cancel(a)
      PROVE  TypeOK' /\ LeaseSum'
  <2>1. BeginCancel(a, "loop")
    BY <1>4 DEF Cancel
  <2>2. TypeOK'
    BY <1>4, <2>1, BeginCancelKeeps DEF TypeOK, Cancel
  <2>3. LeaseSum'
    BY <1>2, <1>4, <2>1, BeginCancelKeeps DEF Cancel
  <2> QED BY <2>2, <2>3
<1>5. ASSUME NEW a \in Agents, NEW force \in BOOLEAN, Close(a, force)
      PROVE  TypeOK' /\ LeaseSum'
  <2>1. CASE BeginCancel(a, "close")
    <3>1. TypeOK'
      BY <1>5, <2>1, BeginCancelKeeps DEF TypeOK, Close
    <3>2. LeaseSum'
      BY <1>2, <1>5, <2>1, BeginCancelKeeps DEF Close
    <3> QED BY <3>1, <3>2
  <2>2. CASE /\ status' = [status EXCEPT ![a] = "CLOSED"]
             /\ UNCHANGED <<cancelReq, rootPc, target, after>>
    <3>1. TypeOK'
      BY <1>5, <2>2 DEF TypeOK, Close, Status
    <3>2. LeaseSum'
      BY <1>2, <1>5, <2>2 DEF TypeOK, Close
    <3> QED BY <3>1, <3>2
  <2> QED BY <1>5, <2>1, <2>2 DEF Close
<1>6. ASSUME NEW S \in SUBSET Agents, NEW any \in BOOLEAN, Wait(S, any)
      PROVE  TypeOK' /\ LeaseSum'
  BY <1>2, <1>6 DEF TypeOK, Wait
<1>7. ASSUME WaitWakes \/ WaitTimesOut \/ FinalAnswer \/ RootAborts
      PROVE  TypeOK' /\ LeaseSum'
  BY <1>2, <1>7 DEF TypeOK, WaitWakes, WaitTimesOut, FinalAnswer, RootAborts, EndWait
<1>8. ASSUME CancelReturns
      PROVE  TypeOK' /\ LeaseSum'
  <2>1. TypeOK'
    BY <1>8 DEF TypeOK, CancelReturns, AfterCancel, Resume, Status
  <2>2. LeaseSum'
    BY <1>2, <1>8 DEF TypeOK, CancelReturns, AfterCancel
  <2> QED BY <2>1, <2>2
<1>9. ASSUME Finally \/ GatherTasks
      PROVE  TypeOK' /\ LeaseSum'
  BY <1>2, <1>9 DEF TypeOK, Finally, GatherTasks, Active
<1>10. ASSUME NEW a \in Agents, CancelNext(a)
       PROVE  TypeOK' /\ LeaseSum'
  <2>1. CASE UNCHANGED <<status, cancelReq, rootPc, target, after>>
    BY <1>2, <1>10, <2>1 DEF TypeOK, CancelNext
  <2>2. CASE BeginCancel(a, "cancelAll")
    <3>1. TypeOK'
      BY <1>10, <2>2, BeginCancelKeeps DEF TypeOK, CancelNext
    <3>2. LeaseSum'
      BY <1>2, <1>10, <2>2, BeginCancelKeeps DEF CancelNext
    <3> QED BY <3>1, <3>2
  <2> QED BY <1>10, <2>1, <2>2 DEF CancelNext
<1>11. ASSUME NEW a \in Agents, DrainMailbox(a)
       PROVE  mailbox' \in [Agents -> SUBSET Messages] /\ copies' \in [Messages -> Nat]
  BY <1>11 DEF TypeOK, DrainMailbox
<1>12. ASSUME NEW a \in Agents, BeginTurn(a)
       PROVE  /\ status' \in [Agents -> Status]
              /\ \A b \in Agents : status'[b] = "ABSENT" => status[b] = "ABSENT"
              /\ turnCount' \in [Agents -> Nat]
              /\ calls' \in [Agents -> Nat]
              /\ running' \in Nat
              /\ mailbox' \in [Agents -> SUBSET Messages]
              /\ copies' \in [Messages -> Nat]
              /\ unseen' \in [Agents -> SUBSET Messages]
  <2>1. DrainMailbox(a)
    BY <1>12 DEF BeginTurn
  <2>2. mailbox' \in [Agents -> SUBSET Messages] /\ copies' \in [Messages -> Nat]
    BY <1>11, <2>1
  <2>3. /\ status' \in [Agents -> Status]
        /\ \A b \in Agents : status'[b] = "ABSENT" => status[b] = "ABSENT"
    BY <1>12 DEF TypeOK, BeginTurn, Status
  <2>4. calls' \in [Agents -> Nat] /\ running' \in Nat
    BY <1>12 DEF TypeOK, BeginTurn
  <2>5. turnCount' \in [Agents -> Nat]
    BY <1>12 DEF TypeOK, BeginTurn
  <2>6. unseen' \in [Agents -> SUBSET Messages]
    BY <1>12 DEF TypeOK, BeginTurn
  <2> QED BY <2>2, <2>3, <2>4, <2>5, <2>6
<1>13. ASSUME NEW a \in Agents, TaskStarts(a)
       PROVE  TypeOK' /\ LeaseSum'
  <2>1. CASE ~SlotsLocked
    <3>1. BeginTurn(a)
      BY <1>13, <2>1 DEF TaskStarts
    <3>5. slots' \in Nat
      BY <1>13, <2>1 DEF TypeOK, TaskStarts, SlotsLocked
    <3>2. task' \in [Agents -> TaskState]
      BY <1>13, <2>1 DEF TypeOK, TaskStarts, TaskState
    <3>3. TypeOK'
      BY <1>12, <1>13, <2>1, <3>1, <3>2, <3>5 DEF TypeOK, TaskStarts
    <3>4. LeaseSum'
      BY <1>2, <1>12, <1>13, <3>1 DEF TaskStarts
    <3> QED BY <3>3, <3>4
  <2>2. CASE SlotsLocked
    <3>1. slotQueue' \in Seq(Agents)
      <4>1. slotQueue \in Seq(Agents) /\ slotQueue' = Append(slotQueue, a)
        BY <1>13, <2>2 DEF TypeOK, TaskStarts
      <4> QED BY <4>1, AppendProperties
    <3>4. task' \in [Agents -> TaskState]
      BY <1>13, <2>2 DEF TypeOK, TaskStarts, TaskState
    <3>2. TypeOK'
      BY <1>13, <2>2, <3>1, <3>4 DEF TypeOK, TaskStarts
    <3>3. LeaseSum'
      BY <1>2, <1>13, <2>2 DEF TaskStarts
    <3> QED BY <3>2, <3>3
  <2> QED BY <2>1, <2>2
<1>14. ASSUME NEW a \in Agents, SlotAcquired(a)
       PROVE  TypeOK' /\ LeaseSum'
  <2>1. BeginTurn(a) /\ LeaveQueue(a) /\ WakeNext([task EXCEPT ![a] = "model"], slots)
    BY <1>14 DEF SlotAcquired
  <2>2. task' \in [Agents -> TaskState] /\ slots' \in Nat
    BY <2>1, WakeNextKeeps DEF TypeOK, TaskState
  <2>3. slotQueue' \in Seq(Agents)
    BY <2>1, LeaveQueueKeeps DEF TypeOK
  <2>4. TypeOK'
    BY <1>12, <1>14, <2>1, <2>2, <2>3 DEF TypeOK, SlotAcquired
  <2>5. LeaseSum'
    BY <1>2, <1>12, <1>14, <2>1 DEF SlotAcquired
  <2> QED BY <2>4, <2>5
<1>15. ASSUME NEW a \in Agents,
              ModelCallsTool(a) \/ NeverStarted(a) \/ CancelSwallowed(a)
       PROVE  TypeOK' /\ LeaseSum'
  <2>1. TypeOK'
    BY <1>15 DEF TypeOK, ModelCallsTool, NeverStarted, CancelSwallowed, TaskState
  <2>2. LeaseSum'
    BY <1>2, <1>15 DEF ModelCallsTool, NeverStarted, CancelSwallowed
  <2> QED BY <2>1, <2>2
<1>16. ASSUME NEW a \in Agents, NextIteration(a)
       PROVE  TypeOK' /\ LeaseSum'
  <2>1. DrainMailbox(a)
    BY <1>16 DEF NextIteration
  <2>2. task' \in [Agents -> TaskState] /\ calls' \in [Agents -> Nat]
    BY <1>16 DEF TypeOK, NextIteration, TaskState
  <2>3. TypeOK'
    BY <1>11, <1>16, <2>1, <2>2 DEF TypeOK, NextIteration
  <2>4. LeaseSum'
    BY <1>2, <1>16 DEF NextIteration
  <2> QED BY <2>3, <2>4
<1>17. ASSUME NEW a \in Agents, TurnSucceeds(a)
       PROVE  TypeOK' /\ LeaseSum'
  <2>1. EndTurn(a, "IDLE", calls[a]) /\ calls[a] \in Nat
    BY <1>17 DEF TypeOK, TurnSucceeds
  <2>2. /\ mailbox' \in [Agents -> SUBSET Messages]
        /\ copies' \in [Messages -> Nat]
        /\ unseen' \in [Agents -> SUBSET Messages]
    <3>1. CASE task[a] = "tool"
      BY <1>11, <1>17, <3>1 DEF TypeOK, TurnSucceeds
    <3>2. CASE task[a] = "model"
      BY <1>17, <3>2 DEF TypeOK, TurnSucceeds
    <3> QED BY <1>17, <3>1, <3>2 DEF TurnSucceeds, InLoop
  <2>3. UNCHANGED <<cancelReq, slotQueue, turnCount, keyOwner, waitFor, waitAny, rootVars>>
    BY <1>17, <2>1 DEF TurnSucceeds, EndTurn
  <2> QED BY <2>1, <2>2, <2>3, EndTurnKeeps DEF TypeOK, Status
<1>18. ASSUME NEW a \in Agents, TurnFails(a) \/ TurnCancelled(a)
       PROVE  TypeOK' /\ LeaseSum'
  <2>1. PICK st \in {"FAILED", "CANCELLED"}, n \in Nat : EndTurn(a, st, n)
    BY <1>18 DEF TypeOK, TurnFails, TurnCancelled
  <2>2. /\ cancelReq' \in [Agents -> BOOLEAN]
        /\ UNCHANGED <<mailVars, slotQueue, turnCount, keyOwner, waitFor, waitAny, rootVars>>
    BY <1>18, <2>1 DEF TypeOK, TurnFails, TurnCancelled, EndTurn
  <2> QED BY <2>1, <2>2, EndTurnKeeps DEF TypeOK, Status
<1>19. ASSUME NEW a \in Agents, QueueCancelled(a)
       PROVE  TypeOK' /\ LeaseSum'
  <2>1. ReleaseChild(a, 0) /\ LeaveQueue(a) /\ Surrender(a)
    BY <1>19 DEF QueueCancelled
  <2>2. task' \in [Agents -> TaskState] /\ slots' \in Nat
    <3>1. CASE task[a] = "granted"
      <4>1. WakeNext([task EXCEPT ![a] = "done"], slots + 1)
        BY <2>1, <3>1 DEF Surrender, ReleaseSlot
      <4> QED BY <4>1, WakeNextKeeps DEF TypeOK, TaskState
    <3>2. CASE task[a] # "granted"
      BY <2>1, <3>2 DEF TypeOK, TaskState, Surrender
    <3> QED BY <3>1, <3>2
  <2>3. slotQueue' \in Seq(Agents)
    BY <2>1, LeaveQueueKeeps DEF TypeOK
  <2>4. /\ status' \in [Agents -> Status]
        /\ \A b \in Agents : status'[b] = "ABSENT" => status[b] = "ABSENT"
        /\ cancelReq' \in [Agents -> BOOLEAN]
        /\ woken' \in BOOLEAN
        /\ UNCHANGED <<turnCount, calls, mailVars, keyOwner, running, waitFor, waitAny, rootVars>>
    BY <1>19 DEF TypeOK, QueueCancelled, NotifyAll, Status
  <2>5. LeaseSum'
    BY <2>1, <2>4, ReleaseKeeps DEF LeaseSum
  <2> QED BY <2>1, <2>2, <2>3, <2>4, <2>5, ReleaseKeeps DEF TypeOK
<1>20. CASE UNCHANGED vars
  BY <1>2, <1>20 DEF TypeOK
<1> QED
  BY <1>1, <1>3, <1>4, <1>5, <1>6, <1>7, <1>8, <1>9, <1>10, <1>13, <1>14, <1>15,
     <1>16, <1>17, <1>18, <1>19, <1>20
     DEF Next, ChildStep, RootCall, RootStep, RunOver

\* Every variable stays in its domain: in particular the semaphore, the
\* reservations and the running count never become negative, so no slot is
\* released and no lease returned that was not taken.
THEOREM TypeCorrect == Spec => []TypeOK
<1>1. Spec => []TypeInv
  BY TypeInit, TypeStep, PTL DEF Spec
<1>2. TypeInv => TypeOK
  BY DEF TypeInv
<1> QED BY <1>1, <1>2, PTL

-----------------------------------------------------------------------------
(* What one step of a child can change: its own thread as told by one of   *)
(* these outcomes, and of another child at most that it is given a slot.   *)

\* The child is suspended for a slot.
Queues(a) ==
    /\ task[a] = "ready" /\ task'[a] = "blocked"
    /\ status'[a] = status[a] /\ turnCount'[a] = turnCount[a]
    /\ lease'[a] = lease[a]

\* The child's turn begins.
Enters(a) ==
    /\ task[a] \in {"ready", "granted"} /\ task'[a] = "model"
    /\ status'[a] = "RUNNING" /\ turnCount'[a] = turnCount[a] + 1
    /\ lease'[a] = lease[a]

\* The child goes on in the loop.
GoesOn(a) ==
    /\ task[a] \in InLoop /\ task'[a] \in InLoop
    /\ status'[a] = status[a] /\ turnCount'[a] = turnCount[a]
    /\ lease'[a] = lease[a]

\* The child's task ends and its thread has a final status.
Ends(a) ==
    /\ task[a] \in LiveTask \ {"ready"} /\ task'[a] = "done"
    /\ status'[a] \in {"IDLE", "FAILED", "CANCELLED"}
    /\ status'[a] = "IDLE" => task[a] \in InLoop
    /\ turnCount'[a] = turnCount[a]
    /\ ~cancelReq'[a]

\* The child's task ends before its first step.
NeverRuns(a) ==
    /\ task[a] = "ready" /\ cancelReq[a] /\ task'[a] = "done" /\ ~cancelReq'[a]
    /\ status'[a] = status[a] /\ turnCount'[a] = turnCount[a]
    /\ lease'[a] = lease[a]

Outcome(a) == Queues(a) \/ Enters(a) \/ GoesOn(a) \/ Ends(a) \/ NeverRuns(a)

Elsewhere(a) ==
    \A b \in Agents \ {a} :
        /\ status'[b] = status[b]
        /\ turnCount'[b] = turnCount[b]
        /\ lease'[b] = lease[b]
        /\ cancelReq'[b] = cancelReq[b]
        /\ task'[b] = task[b] \/ (task[b] = "blocked" /\ task'[b] = "granted")

\* What the steps of a child leave to the root.
RootKeeps(a) ==
    /\ UNCHANGED <<rootVars, keyOwner, waitFor, waitAny>>
    /\ cancelReq'[a] => cancelReq[a] /\ task'[a] = task[a]

LEMMA ReleaseSummary ==
    ASSUME TypeOK, NEW a \in Agents, task[a] # "blocked",
           NEW v \in TaskState, NEW k \in {0, 1},
           \/ k = 0 /\ WakeNext([task EXCEPT ![a] = v], slots)
           \/ k = 1 /\ WakeNext([task EXCEPT ![a] = v], slots + 1)
    PROVE  /\ task'[a] = v
           /\ \A b \in Agents \ {a} :
                task'[b] = task[b] \/ (task[b] = "blocked" /\ task'[b] = "granted")
<1>1. CASE task' = [task EXCEPT ![a] = v]
  BY <1>1 DEF TypeOK
<1>2. CASE \E b \in Agents : Waiting(b) /\ task' = [task EXCEPT ![a] = v, ![b] = "granted"]
  BY <1>2 DEF TypeOK, Waiting
<1> QED BY <1>1, <1>2, WakeNextKeeps DEF TypeOK

LEMMA EndTurnSummary ==
    ASSUME TypeOK, NEW a \in Agents, NEW st \in {"IDLE", "FAILED", "CANCELLED"},
           NEW n \in Nat, task[a] \in InLoop, EndTurn(a, st, n),
           cancelReq' = [cancelReq EXCEPT ![a] = FALSE]
    PROVE  Ends(a) /\ Elsewhere(a) /\ RootKeeps(a)
<1>1. WakeNext([task EXCEPT ![a] = "done"], slots + 1) /\ ReleaseChild(a, n)
  BY DEF EndTurn, ReleaseSlot
<1>2. /\ task'[a] = "done"
      /\ \A b \in Agents \ {a} :
           task'[b] = task[b] \/ (task[b] = "blocked" /\ task'[b] = "granted")
  BY <1>1, ReleaseSummary DEF InLoop, TaskState
<1>3. \A b \in Agents \ {a} : lease'[b] = lease[b]
  BY <1>1 DEF TypeOK, ReleaseChild, budgetVars
<1>4. /\ status' = [status EXCEPT ![a] = st]
      /\ UNCHANGED <<turnCount, keyOwner, waitFor, waitAny, rootVars>>
  BY DEF EndTurn
<1>5. Ends(a)
  BY <1>2, <1>4 DEF TypeOK, Ends, LiveTask, InLoop
<1>6. Elsewhere(a)
  BY <1>2, <1>3, <1>4 DEF TypeOK, Elsewhere
<1>7. RootKeeps(a)
  BY <1>4 DEF TypeOK, RootKeeps
<1> QED BY <1>5, <1>6, <1>7

LEMMA ChildSummary ==
    ASSUME TypeOK, NEW a \in Agents, ChildStep(a)
    PROVE  Outcome(a) /\ Elsewhere(a) /\ RootKeeps(a)
<1> USE DEF budgetVars, mailVars, slotVars, waitVars, rootVars
<1>1. CASE TaskStarts(a)
  <2>1. Outcome(a)
    BY <1>1 DEF TypeOK, Outcome, Queues, Enters, TaskStarts, BeginTurn
  <2>2. Elsewhere(a)
    BY <1>1 DEF TypeOK, Elsewhere, TaskStarts, BeginTurn
  <2>3. RootKeeps(a)
    BY <1>1 DEF RootKeeps, TaskStarts
  <2> QED BY <2>1, <2>2, <2>3
<1>2. CASE SlotAcquired(a)
  <2>1. WakeNext([task EXCEPT ![a] = "model"], slots) /\ task[a] = "granted"
    BY <1>2 DEF SlotAcquired
  <2>2. /\ task'[a] = "model"
        /\ \A b \in Agents \ {a} :
             task'[b] = task[b] \/ (task[b] = "blocked" /\ task'[b] = "granted")
    BY <2>1, ReleaseSummary DEF TaskState
  <2>3. Enters(a)
    BY <1>2, <2>1, <2>2 DEF TypeOK, Enters, SlotAcquired, BeginTurn
  <2>4. Elsewhere(a)
    BY <1>2, <2>2 DEF TypeOK, Elsewhere, SlotAcquired, BeginTurn
  <2>5. RootKeeps(a)
    BY <1>2 DEF RootKeeps, SlotAcquired
  <2> QED BY <2>3, <2>4, <2>5 DEF Outcome
<1>3. CASE ModelCallsTool(a) \/ NextIteration(a)
  <2>1. GoesOn(a)
    BY <1>3 DEF TypeOK, GoesOn, InLoop, ModelCallsTool, NextIteration
  <2>2. Elsewhere(a) /\ RootKeeps(a)
    BY <1>3 DEF TypeOK, Elsewhere, RootKeeps, ModelCallsTool, NextIteration
  <2> QED BY <2>1, <2>2 DEF Outcome
<1>4. CASE CancelSwallowed(a)
  <2>1. GoesOn(a)
    BY <1>4 DEF GoesOn, InLoop, CancelSwallowed
  <2>2. Elsewhere(a) /\ RootKeeps(a)
    BY <1>4 DEF TypeOK, Elsewhere, RootKeeps, CancelSwallowed
  <2> QED BY <2>1, <2>2 DEF Outcome
<1>5. CASE TurnSucceeds(a) \/ TurnFails(a) \/ TurnCancelled(a)
  <2>1. PICK st \in {"IDLE", "FAILED", "CANCELLED"}, n \in Nat : EndTurn(a, st, n)
    BY <1>5 DEF TypeOK, TurnSucceeds, TurnFails, TurnCancelled
  <2>2. task[a] \in InLoop /\ cancelReq' = [cancelReq EXCEPT ![a] = FALSE]
    BY <1>5 DEF TypeOK, TurnSucceeds, TurnFails, TurnCancelled
  <2> QED BY <2>1, <2>2, EndTurnSummary DEF Outcome
<1>6. CASE QueueCancelled(a)
  <2>1. ReleaseChild(a, 0) /\ Surrender(a)
    BY <1>6 DEF QueueCancelled
  <2>2. /\ task'[a] = "done"
        /\ \A b \in Agents \ {a} :
             task'[b] = task[b] \/ (task[b] = "blocked" /\ task'[b] = "granted")
    <3>1. CASE task[a] = "granted"
      <4>1. WakeNext([task EXCEPT ![a] = "done"], slots + 1)
        BY <2>1, <3>1 DEF Surrender, ReleaseSlot
      <4> QED BY <3>1, <4>1, ReleaseSummary DEF TaskState
    <3>2. CASE task[a] # "granted"
      BY <2>1, <3>2 DEF TypeOK, Surrender
    <3> QED BY <3>1, <3>2
  <2>3. \A b \in Agents \ {a} : lease'[b] = lease[b]
    BY <2>1 DEF TypeOK, ReleaseChild
  <2>4. Ends(a)
    BY <1>6, <2>2 DEF TypeOK, Ends, LiveTask, QueueCancelled
  <2>5. Elsewhere(a)
    BY <1>6, <2>2, <2>3 DEF TypeOK, Elsewhere, QueueCancelled
  <2>6. RootKeeps(a)
    BY <1>6 DEF TypeOK, RootKeeps, QueueCancelled
  <2> QED BY <2>4, <2>5, <2>6 DEF Outcome
<1>7. CASE NeverStarted(a)
  <2>1. NeverRuns(a)
    BY <1>7 DEF TypeOK, NeverRuns, NeverStarted
  <2>2. Elsewhere(a) /\ RootKeeps(a)
    BY <1>7 DEF TypeOK, Elsewhere, RootKeeps, NeverStarted
  <2> QED BY <2>1, <2>2 DEF Outcome
<1> QED BY <1>1, <1>2, <1>3, <1>4, <1>5, <1>6, <1>7 DEF ChildStep

-----------------------------------------------------------------------------
(* No orphan child.                                                        *)

\* How the status of a thread, its task and the root's position hang together.
ThreadShape(a) ==
    /\ task[a] \in LiveTask => status[a] \in {"QUEUED", "RUNNING", "CANCELLING"}
    /\ status[a] \in {"QUEUED", "RUNNING"} => task[a] \in LiveTask
    /\ status[a] = "CANCELLING" => rootPc = "cancelling" /\ target = a
    /\ cancelReq[a] => task[a] \in LiveTask /\ status[a] = "CANCELLING"
    /\ status[a] \in {"ABSENT", "CREATED"} => task[a] = "none"
    /\ task[a] \in InLoop \/ status[a] = "IDLE" => turnCount[a] >= 1

\* What the end of the run has still to visit.
CancelAllCovers ==
    /\ rootPc = "cancelling" => target \in Agents /\ task[target] # "none"
    /\ rootPc = "cancelAll" => Active \subseteq todo
    /\ rootPc = "cancelling" /\ after = "cancelAll" => Active \subseteq todo \cup {target}
    /\ rootPc = "ended" => Active = {}

OrphanInv == (\A a \in Agents : ThreadShape(a)) /\ CancelAllCovers

\* cancel() on a child whose task lives waits for it; otherwise it is over.
LEMMA BeginCancelSummary ==
    ASSUME TypeOK, NEW a \in Agents, NEW next \in {"loop", "close", "cancelAll"},
           BeginCancel(a, next)
    PROVE  \/ /\ task[a] \in LiveTask
              /\ status' = [status EXCEPT ![a] = "CANCELLING"]
              /\ cancelReq' = [cancelReq EXCEPT ![a] = TRUE]
              /\ rootPc' = "cancelling" /\ target' = a /\ after' = next
           \/ /\ task[a] \notin LiveTask
              /\ status' = [status EXCEPT ![a] = IF next = "close" THEN "CLOSED" ELSE "CANCELLED"]
              /\ UNCHANGED <<cancelReq, target, after>>
              /\ rootPc' = IF next = "cancelAll" THEN "cancelAll" ELSE "loop"
  BY DEF TypeOK, BeginCancel, AfterCancel, Resume, Live

LEMMA OrphanInit == Init => OrphanInv
  BY DEF Init, OrphanInv, ThreadShape, CancelAllCovers, LiveTask, InLoop

LEMMA OrphanStep == TypeOK /\ OrphanInv /\ [Next]_vars => OrphanInv'
<1> SUFFICES ASSUME TypeOK, OrphanInv, [Next]_vars PROVE OrphanInv'
  OBVIOUS
<1> USE DEF vars, childVars, mailVars, budgetVars, slotVars, waitVars, rootVars,
            LiveTask, InLoop
<1>1. \A a \in Agents : ThreadShape(a)
  BY DEF OrphanInv
<1>2. CancelAllCovers
  BY DEF OrphanInv
\* A child's step.
<1>3. ASSUME NEW a \in Agents, ChildStep(a)
      PROVE  OrphanInv'
  <2>1. Outcome(a) /\ Elsewhere(a) /\ RootKeeps(a)
    BY <1>3, ChildSummary
  <2>2. ASSUME NEW b \in Agents \ {a} PROVE ThreadShape(b)'
    BY <1>1, <2>1 DEF Elsewhere, RootKeeps, ThreadShape
  <2>3. ThreadShape(a)'
    <3>1. CASE Queues(a)
      BY <1>1, <2>1, <3>1 DEF TypeOK, Queues, RootKeeps, ThreadShape
    <3>2. CASE Enters(a)
      BY <1>1, <2>1, <3>2 DEF TypeOK, Enters, RootKeeps, ThreadShape
    <3>3. CASE GoesOn(a)
      BY <1>1, <2>1, <3>3 DEF TypeOK, GoesOn, RootKeeps, ThreadShape
    <3>4. CASE Ends(a)
      BY <1>1, <2>1, <3>4 DEF TypeOK, Ends, RootKeeps, ThreadShape
    <3>5. CASE NeverRuns(a)
      BY <1>1, <2>1, <3>5 DEF TypeOK, NeverRuns, RootKeeps, ThreadShape
    <3> QED BY <2>1, <3>1, <3>2, <3>3, <3>4, <3>5 DEF Outcome
  <2>4. Active' \subseteq Active
    <3>1. status[a] \in ActiveStatus
      BY <1>1, <2>1 DEF ThreadShape, ActiveStatus, Outcome, Queues, Enters, GoesOn,
                        Ends, NeverRuns
    <3> QED BY <2>1, <3>1 DEF Active, Elsewhere
  <2>5. task'[target] # "none" \/ task[target] = "none" \/ target \notin Agents
    BY <2>1 DEF Elsewhere, Outcome, Queues, Enters, GoesOn, Ends, NeverRuns
  <2>6. CancelAllCovers'
    BY <1>2, <2>1, <2>4, <2>5 DEF CancelAllCovers, RootKeeps
  <2> QED BY <2>2, <2>3, <2>6 DEF OrphanInv
\* cancel(), alone or from close() and cancel_all().
<1>4. ASSUME NEW a \in Agents, NEW next \in {"loop", "close", "cancelAll"},
             BeginCancel(a, next), rootPc \in {"loop", "cancelAll"},
             rootPc = "cancelAll" <=> next = "cancelAll",
             UNCHANGED <<task, turnCount>>,
             next = "cancelAll" => todo' = todo \ {a}
      PROVE  OrphanInv'
  <2>1. CASE task[a] \in LiveTask
    <3>1. /\ status' = [status EXCEPT ![a] = "CANCELLING"]
          /\ cancelReq' = [cancelReq EXCEPT ![a] = TRUE]
          /\ rootPc' = "cancelling" /\ target' = a /\ after' = next
      BY <1>4, <2>1, BeginCancelSummary
    <3>2. ASSUME NEW b \in Agents PROVE ThreadShape(b)'
      BY <1>1, <1>4, <2>1, <3>1 DEF TypeOK, ThreadShape
    <3>3. next = "cancelAll" => Active' \subseteq todo' \cup {a}
      BY <1>2, <1>4, <3>1 DEF TypeOK, CancelAllCovers, Active, ActiveStatus
    <3>4. CancelAllCovers'
      BY <1>4, <2>1, <3>1, <3>3 DEF CancelAllCovers
    <3> QED BY <3>2, <3>4 DEF OrphanInv
  <2>2. CASE task[a] \notin LiveTask
    <3>1. /\ status' = [status EXCEPT ![a] = IF next = "close" THEN "CLOSED" ELSE "CANCELLED"]
          /\ UNCHANGED <<cancelReq, target, after>>
          /\ rootPc' = IF next = "cancelAll" THEN "cancelAll" ELSE "loop"
      BY <1>4, <2>2, BeginCancelSummary
    <3>2. ASSUME NEW b \in Agents PROVE ThreadShape(b)'
      BY <1>1, <1>4, <2>2, <3>1 DEF TypeOK, ThreadShape
    <3>3. next = "cancelAll" => Active' \subseteq todo'
      BY <1>2, <1>4, <3>1 DEF TypeOK, CancelAllCovers, Active, ActiveStatus
    <3>4. CancelAllCovers'
      BY <1>4, <3>1, <3>3 DEF CancelAllCovers
    <3> QED BY <3>2, <3>4 DEF OrphanInv
  <2> QED BY <2>1, <2>2
\* The other steps of the root.
<1>5. ASSUME NEW a \in Agents, NEW k \in Keys \cup {None}, Spawn(a, k)
      PROVE  OrphanInv'
  <2>1. \A b \in Agents : ThreadShape(b)'
    BY <1>1, <1>5 DEF TypeOK, ThreadShape, Spawn
  <2>2. CancelAllCovers'
    BY <1>2, <1>5 DEF CancelAllCovers, Spawn
  <2> QED BY <2>1, <2>2 DEF OrphanInv
<1>6. ASSUME NEW a \in Agents, NEW m \in Messages, SendMessage(a, m)
      PROVE  OrphanInv'
  <2>1. \A b \in Agents : ThreadShape(b)'
    BY <1>1, <1>6 DEF TypeOK, ThreadShape, SendMessage
  <2>2. CancelAllCovers'
    BY <1>2, <1>6 DEF CancelAllCovers, SendMessage
  <2> QED BY <2>1, <2>2 DEF OrphanInv
<1>7. ASSUME NEW a \in Agents, Cancel(a)
      PROVE  OrphanInv'
  BY <1>4, <1>7 DEF Cancel
<1>8. ASSUME NEW a \in Agents, NEW force \in BOOLEAN, Close(a, force)
      PROVE  OrphanInv'
  <2>1. CASE BeginCancel(a, "close")
    BY <1>4, <1>8, <2>1 DEF Close
  <2>2. CASE /\ a \notin Active
             /\ status' = [status EXCEPT ![a] = "CLOSED"]
             /\ UNCHANGED <<cancelReq, rootPc, target, after>>
    <3>1. task[a] \notin LiveTask
      BY <1>1, <2>2 DEF ThreadShape, Active, ActiveStatus
    <3>2. \A b \in Agents : ThreadShape(b)'
      BY <1>1, <1>8, <2>2, <3>1 DEF TypeOK, ThreadShape, Close
    <3>3. CancelAllCovers'
      BY <1>2, <1>8, <2>2 DEF CancelAllCovers, Close
    <3> QED BY <3>2, <3>3 DEF OrphanInv
  <2> QED BY <1>8, <2>1, <2>2 DEF Close
<1>9. ASSUME NEW a \in Agents, CancelNext(a)
      PROVE  OrphanInv'
  <2>1. CASE BeginCancel(a, "cancelAll")
    BY <1>4, <1>9, <2>1 DEF CancelNext
  <2>2. CASE /\ status[a] \in DeadStatus
             /\ UNCHANGED <<status, cancelReq, rootPc, target, after>>
    <3>1. \A b \in Agents : ThreadShape(b)'
      BY <1>1, <1>9, <2>2 DEF ThreadShape, CancelNext
    <3>2. Active' = Active /\ a \notin Active
      BY <2>2 DEF Active, ActiveStatus, DeadStatus
    <3>3. CancelAllCovers'
      BY <1>2, <1>9, <2>2, <3>2 DEF CancelAllCovers, CancelNext
    <3> QED BY <3>1, <3>3 DEF OrphanInv
  <2> QED BY <1>9, <2>1, <2>2 DEF CancelNext
<1>10. ASSUME CancelReturns
       PROVE  OrphanInv'
  <2>1. /\ target \in Agents /\ task[target] # "none" /\ task[target] \notin LiveTask
        /\ rootPc = "cancelling"
    BY <1>2, <1>10 DEF CancelAllCovers, CancelReturns, Live
  <2>2. /\ \A b \in Agents \ {target} : status'[b] = status[b]
        /\ status'[target] \in {status[target], "CLOSED", "CANCELLED"}
        /\ status'[target] # "CANCELLING"
    BY <1>10, <2>1 DEF TypeOK, CancelReturns, AfterCancel
  <2>3. status[target] \notin {"QUEUED", "RUNNING", "CREATED", "ABSENT"}
    BY <1>1, <2>1 DEF ThreadShape
  <2>4. \A b \in Agents : ThreadShape(b)'
    BY <1>1, <1>10, <2>1, <2>2, <2>3 DEF ThreadShape, CancelReturns
  <2>5. Active' \subseteq Active \ {target}
    BY <2>1, <2>2, <2>3 DEF Active, ActiveStatus, TypeOK, Status
  <2>6. CancelAllCovers'
    BY <1>2, <1>10, <2>5 DEF TypeOK, CancelAllCovers, CancelReturns, Resume
  <2> QED BY <2>4, <2>6 DEF OrphanInv
<1>11. ASSUME UNCHANGED <<childVars, target, after>>,
              rootPc # "cancelling", rootPc' # "cancelling", CancelAllCovers'
       PROVE  OrphanInv'
  BY <1>1, <1>11 DEF ThreadShape, OrphanInv
<1>12. ASSUME UNCHANGED childVars PROVE Active' = Active
  BY <1>12 DEF Active
<1>13. ASSUME NEW S \in SUBSET Agents, NEW any \in BOOLEAN, Wait(S, any)
       PROVE  OrphanInv'
  BY <1>11, <1>12, <1>13 DEF Wait, CancelAllCovers
<1>14. CASE WaitWakes \/ WaitTimesOut \/ FinalAnswer \/ RootAborts
  BY <1>11, <1>12, <1>14 DEF WaitWakes, WaitTimesOut, FinalAnswer, RootAborts, EndWait,
                             CancelAllCovers
<1>15. CASE Finally
  BY <1>11, <1>12, <1>15 DEF Finally, CancelAllCovers
<1>16. CASE GatherTasks
  <2>1. Active = {}
    BY <1>2, <1>16 DEF GatherTasks, CancelAllCovers
  <2> QED BY <1>11, <1>12, <1>16, <2>1 DEF GatherTasks, CancelAllCovers
<1>17. CASE UNCHANGED vars
  BY <1>1, <1>2, <1>12, <1>17 DEF ThreadShape, CancelAllCovers, OrphanInv
<1> QED
  BY <1>3, <1>5, <1>6, <1>7, <1>8, <1>9, <1>10, <1>13, <1>14, <1>15, <1>16, <1>17
     DEF Next, RootCall, RootStep, RunOver

\* A child is CANCELLED, CLOSED, IDLE or FAILED only when its task is done,
\* and the root run ends with no child left, in task or in status: cancel()
\* awaits the task before it writes CANCELLED, and cancel_all() with the
\* final guard covers every child that can be active at the end.
THEOREM NoOrphan == Spec => []NoOrphanChild
<1>1. Spec => [](TypeOK /\ OrphanInv)
  <2>1. Init => OrphanInv
    BY OrphanInit
  <2>2. TypeOK /\ OrphanInv /\ [Next]_vars => OrphanInv'
    BY OrphanStep
  <2> QED BY <2>1, <2>2, TypeCorrect, PTL DEF Spec
<1>2. OrphanInv => NoOrphanChild
  <2> SUFFICES ASSUME OrphanInv PROVE NoOrphanChild
    OBVIOUS
  <2>1. Live \subseteq Active
    BY DEF OrphanInv, ThreadShape, Live, Active, ActiveStatus
  <2>2. rootPc = "ended" => Active = {}
    BY DEF OrphanInv, CancelAllCovers
  <2> QED BY <2>1, <2>2 DEF NoOrphanChild
<1> QED BY <1>1, <1>2, PTL

-----------------------------------------------------------------------------
(* Dead children.                                                          *)

LEMMA DeadStep ==
    ASSUME TypeOK, OrphanInv, [Next]_vars, NEW d \in Agents, status[d] \in DeadStatus
    PROVE  status'[d] \in {status[d], "CLOSED"} /\ turnCount'[d] = turnCount[d]
<1> USE DEF vars, childVars, mailVars, budgetVars, slotVars, waitVars, rootVars,
            DeadStatus
<1>1. task[d] \notin LiveTask
  BY DEF OrphanInv, ThreadShape
<1>2. ASSUME NEW a \in Agents, ChildStep(a)
      PROVE  status'[d] = status[d] /\ turnCount'[d] = turnCount[d]
  <2>1. Outcome(a) /\ Elsewhere(a)
    BY <1>2, ChildSummary
  <2>2. a # d
    BY <1>1, <2>1 DEF Outcome, Queues, Enters, GoesOn, Ends, NeverRuns, LiveTask, InLoop
  <2> QED BY <2>1, <2>2 DEF Elsewhere
<1>3. ASSUME NEW a \in Agents, NEW next \in {"loop", "close", "cancelAll"},
             BeginCancel(a, next), a # d \/ next = "close"
      PROVE  status'[d] \in {status[d], "CLOSED"}
  BY <1>1, <1>3, BeginCancelSummary DEF TypeOK
<1>4. ASSUME NEW a \in Agents, Cancel(a) \/ CancelNext(a)
      PROVE  status'[d] \in {status[d], "CLOSED"} /\ turnCount'[d] = turnCount[d]
  BY <1>3, <1>4 DEF Cancel, CancelNext
<1>5. ASSUME NEW a \in Agents, NEW force \in BOOLEAN, Close(a, force)
      PROVE  status'[d] \in {status[d], "CLOSED"} /\ turnCount'[d] = turnCount[d]
  BY <1>3, <1>5 DEF TypeOK, Close
<1>6. CASE CancelReturns
  BY <1>6 DEF TypeOK, CancelReturns, AfterCancel
<1>7. ASSUME NEW a \in Agents, NEW k \in Keys \cup {None}, Spawn(a, k)
      PROVE  status'[d] = status[d] /\ turnCount'[d] = turnCount[d]
  BY <1>7 DEF TypeOK, Spawn
<1>8. ASSUME NEW a \in Agents, NEW m \in Messages, SendMessage(a, m)
      PROVE  status'[d] = status[d] /\ turnCount'[d] = turnCount[d]
  BY <1>8 DEF TypeOK, SendMessage
<1>9. CASE UNCHANGED childVars
  BY <1>9
<1> QED
  BY <1>2, <1>4, <1>5, <1>6, <1>7, <1>8, <1>9
     DEF Next, RootCall, RootStep, RunOver, Wait, WaitWakes, WaitTimesOut,
         FinalAnswer, RootAborts, Finally, GatherTasks

\* A cancelled or failed child can only be closed, a closed one stays closed,
\* and none of them takes another turn: no late step of its task overwrites
\* the status, no message revives it, no second cancel relabels it.
THEOREM DeadForGood == Spec => DeadStaysDead
<1>1. Spec => [](TypeOK /\ OrphanInv)
  <2>1. Init => OrphanInv
    BY OrphanInit
  <2>2. TypeOK /\ OrphanInv /\ [Next]_vars => OrphanInv'
    BY OrphanStep
  <2> QED BY <2>1, <2>2, TypeCorrect, PTL DEF Spec
<1>2. TypeOK /\ OrphanInv /\ [Next]_vars
      => [\A a \in Agents : status[a] \in DeadStatus =>
            /\ status'[a] \in {status[a], "CLOSED"}
            /\ turnCount'[a] = turnCount[a]]_vars
  BY DeadStep
<1> QED BY <1>1, <1>2, PTL DEF Spec, DeadStaysDead

-----------------------------------------------------------------------------
(* No lost wakeup.                                                         *)

\* A status that does not become final cannot satisfy a waiter.
LEMMA NotYetSatisfied ==
    ASSUME TypeOK, NEW a \in Agents, status'[a] \notin DoneStatus \/ status'[a] = status[a],
           \A b \in Agents \ {a} : status'[b] = status[b],
           waitFor \subseteq Agents, Satisfied(status', waitFor, waitAny)
    PROVE  Satisfied(status, waitFor, waitAny)
<1> DEFINE doneNow == {b \in waitFor : status[b] \in DoneStatus}
           doneThen == {b \in waitFor : status'[b] \in DoneStatus}
<1>1. doneThen \subseteq doneNow
  OBVIOUS
<1>2. CASE waitAny
  BY <1>1, <1>2 DEF Satisfied
<1>3. CASE ~waitAny
  <2>1. doneThen = waitFor
    BY <1>3 DEF Satisfied
  <2>2. doneNow = waitFor
    BY <1>1, <2>1
  <2> QED BY <1>3, <2>2 DEF Satisfied
<1> QED BY <1>2, <1>3

LEMMA WakeupStep == TypeOK /\ NoLostWakeup /\ [Next]_vars => NoLostWakeup'
<1> SUFFICES ASSUME TypeOK, NoLostWakeup, [Next]_vars,
                    rootPc' = "waiting", Satisfied(status', waitFor', waitAny')
             PROVE  woken'
  BY DEF NoLostWakeup, Satisfied
<1> USE DEF vars, childVars, mailVars, budgetVars, slotVars, waitVars, rootVars
\* A child's step: its last one notifies, the others leave its status open.
<1>1. ASSUME NEW a \in Agents, ChildStep(a), UNCHANGED woken,
             status'[a] \notin DoneStatus \/ status'[a] = status[a]
      PROVE  woken'
  <2>1. Elsewhere(a) /\ RootKeeps(a)
    BY <1>1, ChildSummary
  <2>2. Satisfied(status', waitFor, waitAny)
    BY <2>1 DEF RootKeeps
  <2>3. Satisfied(status, waitFor, waitAny)
    BY <1>1, <2>1, <2>2, NotYetSatisfied DEF Elsewhere, TypeOK
  <2> QED BY <1>1, <2>1, <2>3 DEF NoLostWakeup, RootKeeps
<1>2. ASSUME NEW a \in Agents, TaskStarts(a) \/ SlotAcquired(a)
      PROVE  woken'
  <2>1. status'[a] = status[a] \/ status'[a] = "RUNNING"
    BY <1>2 DEF TypeOK, TaskStarts, SlotAcquired, BeginTurn
  <2>2. UNCHANGED woken /\ ChildStep(a)
    BY <1>2 DEF TaskStarts, SlotAcquired, ChildStep
  <2> QED BY <1>1, <2>1, <2>2 DEF DoneStatus
<1>3. ASSUME NEW a \in Agents,
             ModelCallsTool(a) \/ NextIteration(a) \/ CancelSwallowed(a) \/ NeverStarted(a)
      PROVE  woken'
  <2>1. UNCHANGED <<status, woken>> /\ ChildStep(a)
    BY <1>3 DEF ModelCallsTool, NextIteration, CancelSwallowed, NeverStarted, ChildStep
  <2> QED BY <1>1, <2>1
<1>4. ASSUME NEW a \in Agents,
             TurnSucceeds(a) \/ TurnFails(a) \/ TurnCancelled(a) \/ QueueCancelled(a)
      PROVE  woken'
  <2>1. NotifyAll /\ UNCHANGED rootPc
    BY <1>4 DEF TurnSucceeds, TurnFails, TurnCancelled, QueueCancelled, EndTurn
  <2> QED BY <2>1 DEF NotifyAll
\* The root inside wait() makes no other call.
<1>5. ASSUME NEW S \in SUBSET Agents, NEW any \in BOOLEAN, Wait(S, any)
      PROVE  woken'
  <2>1. ~Satisfied(status, S, any) /\ status' = status /\ waitFor' = S /\ waitAny' = any
    BY <1>5 DEF Wait
  <2> QED BY <2>1 DEF Satisfied
<1>6. CASE WaitWakes
  <2>1. rootPc' = "waiting" => ~Satisfied(status, waitFor, waitAny)
    BY <1>6 DEF WaitWakes, EndWait
  <2>2. status' = status /\ waitFor' = waitFor /\ waitAny' = waitAny
    BY <1>6 DEF WaitWakes, EndWait
  <2> QED BY <2>1, <2>2 DEF Satisfied
<1>7. ASSUME NEW a \in Agents, NEW next \in {"loop", "close", "cancelAll"},
             BeginCancel(a, next)
      PROVE  FALSE
  BY <1>7, BeginCancelSummary
<1>8. CASE UNCHANGED vars
  BY <1>8 DEF NoLostWakeup, Satisfied
<1> QED
  <2>1. CASE \E a \in Agents : ChildStep(a)
    BY <1>2, <1>3, <1>4, <2>1 DEF ChildStep
  <2>2. CASE RootCall
    <3>1. ASSUME NEW a \in Agents,
                 \/ \E k \in Keys \cup {None} : Spawn(a, k)
                 \/ \E m \in Messages : SendMessage(a, m)
          PROVE  FALSE
      BY <3>1 DEF Spawn, SendMessage
    <3>2. ASSUME NEW a \in Agents,
                 Cancel(a) \/ \E force \in BOOLEAN : Close(a, force)
          PROVE  FALSE
      BY <1>7, <3>2 DEF Cancel, Close
    <3> QED BY <1>5, <2>2, <3>1, <3>2 DEF RootCall
  <2>3. CASE RootStep
    <3>1. ASSUME NEW a \in Agents, CancelNext(a) PROVE FALSE
      BY <1>7, <3>1 DEF CancelNext
    <3>2. CASE CancelReturns \/ Finally \/ GatherTasks
      BY <3>2 DEF CancelReturns, Resume, Finally, GatherTasks
    <3> QED BY <1>6, <2>3, <3>1, <3>2 DEF RootStep
  <2>4. CASE WaitTimesOut \/ FinalAnswer \/ RootAborts
    BY <2>4 DEF WaitTimesOut, FinalAnswer, RootAborts, EndWait
  <2> QED BY <1>8, <2>1, <2>2, <2>3, <2>4 DEF Next, RunOver

\* Whenever the criterion of a wait() holds, the waiter has been notified:
\* every final status is written in the step that also notifies, and what
\* cancel() and close() write, they write while the root is not waiting.
THEOREM WakeupNeverLost == Spec => []NoLostWakeup
<1>1. Init => NoLostWakeup
  BY DEF Init, NoLostWakeup
<1> QED BY <1>1, WakeupStep, TypeCorrect, PTL DEF Spec

-----------------------------------------------------------------------------
(* Budget and idempotency keys.                                            *)

\* The first turn of a child, waiting for its slot or running, is leased.
FirstTurnLeased(a) ==
    \/ task[a] \in LiveTask \ InLoop /\ turnCount[a] = 0
    \/ task[a] \in InLoop /\ turnCount[a] = 1
    => lease[a] = "held"

LeaseInv ==
    /\ reserved <= GlobalCalls
    /\ \A a \in Agents : FirstTurnLeased(a)
    /\ KeyNamesScheduledChild

LEMMA LeaseStep == TypeInv /\ OrphanInv /\ LeaseInv /\ [Next]_vars => LeaseInv'
<1> SUFFICES ASSUME TypeOK, LeaseSum, OrphanInv, LeaseInv, [Next]_vars PROVE LeaseInv'
  BY DEF TypeInv
<1> USE DEF vars, childVars, mailVars, budgetVars, slotVars, waitVars, rootVars,
            LiveTask, InLoop
<1>1. ASSUME NEW a \in Agents, ChildStep(a)
      PROVE  LeaseInv'
  <2>1. Outcome(a) /\ Elsewhere(a) /\ RootKeeps(a)
    BY <1>1, ChildSummary
  <2>2. ASSUME NEW b \in Agents \ {a} PROVE FirstTurnLeased(b)'
    BY <2>1 DEF Elsewhere, LeaseInv, FirstTurnLeased
  <2>3. FirstTurnLeased(a)'
    <3>1. turnCount[a] \in Nat /\ FirstTurnLeased(a) /\ ThreadShape(a)
      BY DEF TypeOK, LeaseInv, OrphanInv
    <3> QED BY <2>1, <3>1 DEF Outcome, Queues, Enters, GoesOn, Ends, NeverRuns,
                              FirstTurnLeased, ThreadShape
  <2>4. reserved' <= reserved
    <3>1. CASE UNCHANGED reserved
      BY <3>1 DEF TypeOK
    <3>2. ASSUME NEW n \in Nat, ReleaseChild(a, n) PROVE reserved' <= reserved
      BY <3>2, ReleaseKeeps
    <3>3. CASE TurnSucceeds(a) \/ TurnFails(a) \/ TurnCancelled(a) \/ QueueCancelled(a)
      <4>1. PICK n \in Nat : ReleaseChild(a, n)
        BY <3>3 DEF TypeOK, TurnSucceeds, TurnFails, TurnCancelled, QueueCancelled, EndTurn
      <4> QED BY <3>2, <4>1
    <3> QED BY <1>1, <3>1, <3>3 DEF ChildStep, TaskStarts, SlotAcquired, ModelCallsTool,
                                    NextIteration, CancelSwallowed, NeverStarted
  <2>5. reserved' <= GlobalCalls
    <3>1. reserved' \in Nat
      BY TypeStep DEF TypeInv, TypeOK
    <3> QED BY <2>4, <3>1, SchedulerAssumption DEF LeaseInv, TypeOK
  <2>6. KeyNamesScheduledChild'
    <3> SUFFICES ASSUME NEW k \in Keys, keyOwner'[k] # None
                 PROVE  task'[keyOwner'[k]] # "none"
      BY DEF KeyNamesScheduledChild
    <3>1. keyOwner' = keyOwner /\ keyOwner[k] \in Agents /\ task[keyOwner[k]] # "none"
      BY <2>1 DEF TypeOK, RootKeeps, LeaseInv, KeyNamesScheduledChild
    <3> QED BY <2>1, <3>1 DEF Elsewhere, Outcome, Queues, Enters, GoesOn, Ends, NeverRuns
  <2> QED BY <2>2, <2>3, <2>5, <2>6 DEF LeaseInv
<1>2. ASSUME NEW a \in Agents, NEW k \in Keys \cup {None}, Spawn(a, k)
      PROVE  LeaseInv'
  <2>1. CASE FitsBudget
    <3>1. /\ reserved' = reserved + ChildCalls
          /\ lease' = [lease EXCEPT ![a] = "held"]
          /\ task' = [task EXCEPT ![a] = "ready"]
          /\ keyOwner' = [x \in Keys |-> IF x = k THEN a ELSE keyOwner[x]]
          /\ turnCount' = turnCount
      BY <1>2, <2>1 DEF Spawn, ReserveChild
    <3>2. reserved' <= GlobalCalls
      BY <2>1, <3>1 DEF FitsBudget
    <3>3. ASSUME NEW b \in Agents PROVE FirstTurnLeased(b)'
      BY <3>1 DEF TypeOK, LeaseInv, FirstTurnLeased
    <3>4. KeyNamesScheduledChild'
      <4> SUFFICES ASSUME NEW x \in Keys, keyOwner'[x] # None
                   PROVE  task'[keyOwner'[x]] # "none"
        BY DEF KeyNamesScheduledChild
      <4>1. CASE x = k
        BY <3>1, <4>1 DEF TypeOK
      <4>2. CASE x # k
        BY <3>1, <4>2 DEF TypeOK, LeaseInv, KeyNamesScheduledChild
      <4> QED BY <4>1, <4>2
    <3> QED BY <3>2, <3>3, <3>4 DEF LeaseInv
  <2>2. CASE ~FitsBudget
    BY <1>2, <2>2 DEF Spawn, LeaseInv, FirstTurnLeased, KeyNamesScheduledChild
  <2> QED BY <2>1, <2>2
<1>3. ASSUME NEW a \in Agents, NEW m \in Messages, SendMessage(a, m)
      PROVE  LeaseInv'
  <2>1. ASSUME NEW b \in Agents PROVE FirstTurnLeased(b)'
    <3>1. FirstTurnLeased(b) /\ ThreadShape(b) /\ turnCount[b] \in Nat
      BY DEF LeaseInv, OrphanInv, TypeOK
    <3> QED BY <1>3, <3>1 DEF TypeOK, SendMessage, FirstTurnLeased, ThreadShape
  <2>2. KeyNamesScheduledChild'
    BY <1>3 DEF TypeOK, SendMessage, LeaseInv, KeyNamesScheduledChild
  <2> QED BY <1>3, <2>1, <2>2 DEF SendMessage, LeaseInv
<1>4. ASSUME UNCHANGED <<task, turnCount, lease, reserved, keyOwner>>
      PROVE  LeaseInv'
  BY <1>4 DEF LeaseInv, FirstTurnLeased, KeyNamesScheduledChild
<1> QED
  BY <1>1, <1>2, <1>3, <1>4
     DEF Next, RootCall, RootStep, RunOver, Cancel, Close, CancelNext, CancelReturns,
         Wait, WaitWakes, WaitTimesOut, FinalAnswer, RootAborts, Finally, GatherTasks

\* TypeInv and OrphanInv hold together, as the later proofs need them.
LEMMA BaseInv == Spec => [](TypeInv /\ OrphanInv)
<1>1. Init => TypeInv /\ OrphanInv
  BY TypeInit, OrphanInit
<1>2. TypeInv /\ OrphanInv /\ [Next]_vars => (TypeInv /\ OrphanInv)'
  BY TypeStep, OrphanStep DEF TypeInv
<1> QED BY <1>1, <1>2, PTL DEF Spec

LEMMA LeaseInvariant == Spec => []LeaseInv
<1>1. Init => LeaseInv
  BY SchedulerAssumption DEF Init, LeaseInv, FirstTurnLeased, KeyNamesScheduledChild,
                             LiveTask, InLoop
<1> QED BY <1>1, LeaseStep, BaseInv, PTL DEF Spec

\* Reservations add up to the leases held and stay within the root's limit;
\* the first turn of a child always runs on a lease it holds.
THEOREM BudgetNeverOversubscribed == Spec => []BudgetAccounting
<1>1. TypeInv /\ OrphanInv /\ LeaseInv => BudgetAccounting
  <2> SUFFICES ASSUME TypeInv, OrphanInv, LeaseInv PROVE BudgetAccounting
    OBVIOUS
  <2>1. reserved = ChildCalls * Cardinality({a \in Agents : lease[a] = "held"})
    BY DEF TypeInv, LeaseSum, Held
  <2>2. ASSUME NEW a \in Live,
               turnCount[a] + (IF task[a] \in InLoop THEN 0 ELSE 1) = 1
        PROVE  lease[a] = "held"
    BY <2>2 DEF TypeInv, TypeOK, LeaseInv, FirstTurnLeased, Live
  <2> QED BY <2>1, <2>2 DEF LeaseInv, BudgetAccounting
<1> QED BY <1>1, BaseInv, LeaseInvariant, PTL

\* An idempotency key never answers with a child whose spawn was refused.
THEOREM KeysNameScheduledChildren == Spec => []KeyNamesScheduledChild
<1>1. LeaseInv => KeyNamesScheduledChild
  BY DEF LeaseInv
<1> QED BY <1>1, LeaseInvariant, PTL

-----------------------------------------------------------------------------
(* The semaphore, and the supervisor the whole scheduler implements.       *)

Granted == {a \in Agents : task[a] = "granted"}

\* Every suspended waiter stands in the semaphore's queue.
QueueInv ==
    \A a \in Agents : task[a] = "blocked" => \E j \in DOMAIN slotQueue : slotQueue[j] = a

LEMMA FiniteParts ==
    /\ IsFiniteSet(Granted) /\ IsFiniteSet(Executing)
    /\ Cardinality(Granted) \in Nat /\ Cardinality(Executing) \in Nat
<1>1. IsFiniteSet(Granted) /\ IsFiniteSet(Executing)
  BY SchedulerAssumption, FS_Subset DEF Granted, Executing
<1> QED BY <1>1, FS_CardinalityType

-----------------------------------------------------------------------------
(* Slots are neither leaked nor given twice.                               *)

\* A task that moves to v and hands on k slots: together, free and granted
\* slots change by k and by the slot the task itself was granted.
LEMMA WakeCount ==
    ASSUME TypeOK, NEW a \in Agents, task[a] # "blocked",
           NEW v \in TaskState \ {"granted"}, NEW k \in {0, 1},
           \/ k = 0 /\ WakeNext([task EXCEPT ![a] = v], slots)
           \/ k = 1 /\ WakeNext([task EXCEPT ![a] = v], slots + 1)
    PROVE  /\ slots' + Cardinality(Granted') = slots + k + Cardinality(Granted \ {a})
           /\ Executing' = IF v \in InLoop THEN Executing \cup {a} ELSE Executing \ {a}
           /\ slots' \in Nat
<1>1. IsFiniteSet(Granted \ {a}) /\ Cardinality(Granted \ {a}) \in Nat
  BY FiniteParts, FS_RemoveElement, FS_CardinalityType
<1>2. slots' \in Nat /\ slots \in Nat
  BY WakeNextKeeps DEF TypeOK
<1>3. Executing' = IF v \in InLoop THEN Executing \cup {a} ELSE Executing \ {a}
  <2>1. CASE task' = [task EXCEPT ![a] = v]
    BY <2>1 DEF TypeOK, Executing
  <2>2. CASE \E b \in Agents : Waiting(b) /\ task' = [task EXCEPT ![a] = v, ![b] = "granted"]
    BY <2>2 DEF TypeOK, Executing, InLoop, Waiting
  <2> QED BY <2>1, <2>2, WakeNextKeeps DEF TypeOK
<1>4. slots' + Cardinality(Granted') = slots + k + Cardinality(Granted \ {a})
  <2>1. CASE task' = [task EXCEPT ![a] = v] /\ slots' = slots + k
    <3>1. Granted' = Granted \ {a}
      BY <2>1 DEF TypeOK, Granted
    <3> QED BY <2>1, <3>1
  <2>2. CASE \E b \in Agents : /\ Waiting(b)
                               /\ task' = [task EXCEPT ![a] = v, ![b] = "granted"]
                               /\ slots' = slots + k - 1
    <3>1. PICK b \in Agents : /\ task[b] = "blocked"
                              /\ task' = [task EXCEPT ![a] = v, ![b] = "granted"]
                              /\ slots' = slots + k - 1
      BY <2>2 DEF Waiting
    <3>2. Granted' = (Granted \ {a}) \cup {b} /\ b \notin Granted \ {a}
      BY <3>1 DEF TypeOK, Granted
    <3>3. Cardinality(Granted') = Cardinality(Granted \ {a}) + 1
      BY <1>1, <3>2, FS_AddElement
    <3> QED BY <1>1, <1>2, <3>1, <3>3
  <2>3. \/ task' = [task EXCEPT ![a] = v] /\ slots' = slots + k
        \/ \E b \in Agents : /\ Waiting(b)
                             /\ task' = [task EXCEPT ![a] = v, ![b] = "granted"]
                             /\ slots' = slots + k - 1
    <3>1. /\ task \in [Agents -> TaskState] /\ slots \in Nat /\ slotQueue \in Seq(Agents)
          /\ v \in TaskState
      BY DEF TypeOK
    <3> QED BY <3>1, WakeNextKeeps
  <2> QED BY <2>1, <2>2, <2>3
<1> QED BY <1>2, <1>3, <1>4

LEMMA SlotStep == TypeOK /\ OrphanInv /\ SlotAccounting /\ [Next]_vars => SlotAccounting'
<1> SUFFICES ASSUME TypeOK, OrphanInv, SlotAccounting, [Next]_vars PROVE SlotAccounting'
  OBVIOUS
<1> USE DEF vars, childVars, mailVars, budgetVars, slotVars, waitVars, rootVars
<1> DEFINE g == Cardinality(Granted)
           e == Cardinality(Executing)
<1>1. slots + g + e = MaxConcurrent /\ running = e
  BY DEF SlotAccounting, Granted
<1>2. g \in Nat /\ e \in Nat /\ slots \in Nat
  BY FiniteParts DEF TypeOK
<1>3. ASSUME slots' + Cardinality(Granted') + Cardinality(Executing') = MaxConcurrent,
             running' = Cardinality(Executing')
      PROVE  SlotAccounting'
  BY <1>3 DEF SlotAccounting, Granted
<1>4. ASSUME NEW a \in Agents
      PROVE  /\ task[a] = "granted" => Cardinality(Granted \ {a}) = g - 1
             /\ task[a] # "granted" => Cardinality(Granted \ {a}) = g
             /\ task[a] \in InLoop => Cardinality(Executing \ {a}) = e - 1 /\ e > 0
             /\ task[a] \notin InLoop => /\ Cardinality(Executing \cup {a}) = e + 1
                                         /\ Executing \ {a} = Executing
  <2>1. CASE a \in Executing
    <3>1. Cardinality(Executing \ {a}) = e - 1
      BY <2>1, FiniteParts, FS_RemoveElement
    <3>2. Cardinality(Executing \ {a}) \in Nat
      BY FiniteParts, FS_RemoveElement, FS_CardinalityType
    <3>3. e > 0
      BY <1>2, <3>1, <3>2
    <3>4. task[a] \in InLoop /\ task[a] # "granted" /\ a \notin Granted
      BY <2>1 DEF Executing, InLoop, Granted
    <3>5. Granted \ {a} = Granted
      BY <3>4
    <3> QED BY <3>1, <3>3, <3>4, <3>5
  <2>2. CASE a \notin Executing
    <3>1. Cardinality(Executing \cup {a}) = e + 1 /\ Executing \ {a} = Executing
      <4>1. Cardinality(Executing \cup {a}) = Cardinality(Executing) + 1
        BY <2>2, FiniteParts, FS_AddElement
      <4>2. Executing \ {a} = Executing
        BY <2>2
      <4> QED BY <4>1, <4>2
    <3>2. task[a] \notin InLoop
      BY <2>2 DEF Executing
    <3>3. task[a] = "granted" => Cardinality(Granted \ {a}) = g - 1
      BY FiniteParts, FS_RemoveElement DEF Granted
    <3>4. task[a] # "granted" => Granted \ {a} = Granted
      BY DEF Granted
    <3> QED BY <3>1, <3>2, <3>3, <3>4
  <2> QED BY <2>1, <2>2
<1> HIDE DEF g, e
<1>5. ASSUME NEW a \in Agents, TaskStarts(a)
      PROVE  SlotAccounting'
  <2>1. CASE ~SlotsLocked
    <3>1. /\ task[a] = "ready" /\ task' = [task EXCEPT ![a] = "model"]
          /\ slots' = slots - 1 /\ running' = running + 1
      BY <1>5, <2>1 DEF TaskStarts, BeginTurn
    <3>2. Granted' = Granted /\ Executing' = Executing \cup {a} /\ task[a] \notin InLoop
      BY <3>1 DEF TypeOK, Granted, Executing, InLoop
    <3>3. Cardinality(Granted') = g /\ Cardinality(Executing') = e + 1
      BY <1>4, <3>2 DEF g
    <3>4. slots' + Cardinality(Granted') + Cardinality(Executing') = MaxConcurrent
      BY <1>1, <1>2, <3>1, <3>3
    <3> QED BY <1>1, <1>3, <3>1, <3>3, <3>4
  <2>2. CASE SlotsLocked
    <3>1. /\ task[a] = "ready" /\ task' = [task EXCEPT ![a] = "blocked"]
          /\ UNCHANGED <<slots, running>>
      BY <1>5, <2>2 DEF TaskStarts
    <3>2. Granted' = Granted /\ Executing' = Executing
      BY <3>1 DEF TypeOK, Granted, Executing, InLoop
    <3> QED BY <1>1, <1>3, <3>1, <3>2 DEF g, e
  <2> QED BY <2>1, <2>2
<1>6. ASSUME NEW a \in Agents, SlotAcquired(a)
      PROVE  SlotAccounting'
  <2>1. /\ WakeNext([task EXCEPT ![a] = "model"], slots)
        /\ task[a] = "granted" /\ running' = running + 1
    BY <1>6 DEF SlotAcquired, BeginTurn
  <2>2. /\ slots' + Cardinality(Granted') = slots + 0 + Cardinality(Granted \ {a})
        /\ Executing' = Executing \cup {a}
        /\ slots' \in Nat
    <3>1. "model" \in TaskState \ {"granted"} /\ "model" \in InLoop /\ task[a] # "blocked"
      BY <2>1 DEF TaskState, InLoop
    <3> QED BY <2>1, <3>1, WakeCount
  <2>3. Cardinality(Granted \ {a}) = g - 1 /\ Cardinality(Executing') = e + 1
    BY <1>4, <2>1, <2>2 DEF InLoop
  <2>4. slots' + Cardinality(Granted') + Cardinality(Executing') = MaxConcurrent
    BY <1>1, <1>2, <2>2, <2>3
  <2> QED BY <1>1, <1>3, <2>1, <2>3, <2>4
<1>7. ASSUME NEW a \in Agents, NEW st, NEW n, task[a] \in InLoop, EndTurn(a, st, n)
      PROVE  SlotAccounting'
  <2>1. WakeNext([task EXCEPT ![a] = "done"], slots + 1)
    BY <1>7 DEF EndTurn, ReleaseSlot
  <2>2. /\ slots' + Cardinality(Granted') = slots + 1 + Cardinality(Granted \ {a})
        /\ Executing' = Executing \ {a}
        /\ slots' \in Nat
    BY <1>7, <2>1, WakeCount DEF TaskState, InLoop
  <2>3. Cardinality(Granted \ {a}) = g /\ Cardinality(Executing') = e - 1 /\ e > 0
    BY <1>4, <1>7, <2>2 DEF InLoop
  <2>4. running' = running - 1
    BY <1>1, <1>7, <2>3 DEF EndTurn
  <2>5. slots' + Cardinality(Granted') + Cardinality(Executing') = MaxConcurrent
    BY <1>1, <1>2, <2>2, <2>3
  <2> QED BY <1>1, <1>3, <2>3, <2>4, <2>5
<1>8. ASSUME NEW a \in Agents, TurnSucceeds(a) \/ TurnFails(a) \/ TurnCancelled(a)
      PROVE  SlotAccounting'
  BY <1>7, <1>8 DEF TurnSucceeds, TurnFails, TurnCancelled
<1>9. ASSUME NEW a \in Agents, QueueCancelled(a)
      PROVE  SlotAccounting'
  <2>1. CASE task[a] = "granted"
    <3>1. WakeNext([task EXCEPT ![a] = "done"], slots + 1) /\ running' = running
      BY <1>9, <2>1 DEF QueueCancelled, Surrender, ReleaseSlot
    <3>2. /\ slots' + Cardinality(Granted') = slots + 1 + Cardinality(Granted \ {a})
          /\ Executing' = Executing \ {a}
          /\ slots' \in Nat
      BY <2>1, <3>1, WakeCount DEF TaskState, InLoop
    <3>3. Cardinality(Granted \ {a}) = g - 1 /\ Executing' = Executing
      BY <1>4, <2>1, <3>2 DEF InLoop
    <3>4. slots' + Cardinality(Granted') + Cardinality(Executing') = MaxConcurrent
      BY <1>1, <1>2, <3>2, <3>3 DEF e
    <3> QED BY <1>1, <1>3, <3>1, <3>3, <3>4 DEF e
  <2>2. CASE task[a] = "blocked"
    <3>1. /\ task' = [task EXCEPT ![a] = "done"]
          /\ UNCHANGED <<slots, running>>
      BY <1>9, <2>2 DEF QueueCancelled, Surrender
    <3>2. Granted' = Granted /\ Executing' = Executing
      BY <2>2, <3>1 DEF TypeOK, Granted, Executing, InLoop
    <3> QED BY <1>1, <1>3, <3>1, <3>2 DEF g, e
  <2> QED BY <1>9, <2>1, <2>2 DEF QueueCancelled
<1>10. ASSUME NEW a \in Agents,
              ModelCallsTool(a) \/ NextIteration(a) \/ CancelSwallowed(a) \/ NeverStarted(a)
       PROVE  SlotAccounting'
  <2>1. Granted' = Granted /\ Executing' = Executing
    BY <1>10 DEF TypeOK, Granted, Executing, InLoop, ModelCallsTool, NextIteration,
                 CancelSwallowed, NeverStarted
  <2>2. UNCHANGED <<slots, running>>
    BY <1>10 DEF ModelCallsTool, NextIteration, CancelSwallowed, NeverStarted
  <2> QED BY <1>1, <1>3, <2>1, <2>2 DEF g, e
<1>11. ASSUME NEW a \in Agents,
              \/ \E k \in Keys \cup {None} : Spawn(a, k)
              \/ \E m \in Messages : SendMessage(a, m)
       PROVE  SlotAccounting'
  <2>1. /\ task' = task \/ (task' = [task EXCEPT ![a] = "ready"] /\ status[a] \in {"ABSENT", "IDLE"})
        /\ UNCHANGED <<slots, running>>
    BY <1>11 DEF Spawn, SendMessage
  <2>2. task[a] \in LiveTask => status[a] \notin {"ABSENT", "IDLE"}
    BY DEF OrphanInv, ThreadShape
  <2>3. Granted' = Granted /\ Executing' = Executing
    BY <2>1, <2>2 DEF TypeOK, Granted, Executing, InLoop, LiveTask
  <2> QED BY <1>1, <1>3, <2>1, <2>3 DEF g, e
<1>12. ASSUME UNCHANGED <<task, slots, running>>
       PROVE  SlotAccounting'
  <2>1. Granted' = Granted /\ Executing' = Executing
    BY <1>12 DEF Granted, Executing
  <2> QED BY <1>1, <1>3, <1>12, <2>1 DEF g, e
<1> QED
  BY <1>5, <1>6, <1>8, <1>9, <1>10, <1>11, <1>12
     DEF Next, ChildStep, RootCall, RootStep, RunOver, Cancel, Close, CancelNext,
         CancelReturns, Wait, WaitWakes, WaitTimesOut, FinalAnswer, RootAborts,
         Finally, GatherTasks

LEMMA SlotInit == Init => SlotAccounting
<1> SUFFICES ASSUME Init PROVE SlotAccounting
  OBVIOUS
<1>1. {a \in Agents : task[a] = "granted"} = {} /\ Executing = {}
  BY DEF Init, Executing, InLoop
<1>2. Cardinality({a \in Agents : task[a] = "granted"}) = 0 /\ Cardinality(Executing) = 0
  BY <1>1, FS_EmptySet
<1> QED BY <1>2, SchedulerAssumption DEF Init, SlotAccounting

\* Free slots, granted slots and turns in the loop always add up to
\* max_concurrent, whatever the order of cancellations, grants and ends;
\* _running_count is the number of turns in the loop.
THEOREM SlotsConserved == Spec => []SlotAccounting
<1>1. TypeInv => TypeOK
  BY DEF TypeInv
<1> QED BY <1>1, SlotInit, SlotStep, BaseInv, PTL DEF Spec

-----------------------------------------------------------------------------
(* No slot is idle while a child queues for it.                            *)

\* After a waiter was woken, or none could be, no slot is idle.
LEMMA WakeIdle ==
    ASSUME TypeOK, QueueInv, NEW a \in Agents, task[a] # "blocked",
           NEW v \in TaskState \ {"blocked", "granted"}, NEW k \in {0, 1},
           \/ k = 0 /\ WakeNext([task EXCEPT ![a] = v], slots)
           \/ k = 1 /\ WakeNext([task EXCEPT ![a] = v], slots + 1),
           \A b \in Agents \ {a} : cancelReq'[b] = cancelReq[b]
    PROVE  NoIdleSlot'
<1>1. CASE \E i \in DOMAIN slotQueue :
               /\ Waiting(slotQueue[i])
               /\ task' = [task EXCEPT ![a] = v, ![slotQueue[i]] = "granted"]
  <2>1. PICK i \in DOMAIN slotQueue :
               task' = [task EXCEPT ![a] = v, ![slotQueue[i]] = "granted"]
    BY <1>1
  <2>2. slotQueue[i] \in Agents
    BY DEF TypeOK
  <2> DEFINE b == slotQueue[i]
  <2>3. task' = [task EXCEPT ![a] = v, ![b] = "granted"] /\ b \in Agents
    BY <2>1, <2>2
  <2> HIDE DEF b
  <2>4. task'[b] = "granted"
    BY <2>3 DEF TypeOK
  <2> QED BY <2>3, <2>4 DEF NoIdleSlot
<1>2. CASE slots' = 0
  BY <1>2 DEF NoIdleSlot
<1>3. CASE task' = [task EXCEPT ![a] = v] /\ \A i \in DOMAIN slotQueue : ~Waiting(slotQueue[i])
  <2>1. ASSUME NEW b \in Agents, Waiting(b)' PROVE FALSE
    <3>1. b # a /\ task[b] = "blocked" /\ ~cancelReq[b]
      BY <1>3, <2>1 DEF TypeOK, Waiting
    <3>2. PICK j \in DOMAIN slotQueue : slotQueue[j] = b
      BY <3>1 DEF QueueInv
    <3> QED BY <1>3, <3>1, <3>2 DEF Waiting
  <2> QED BY <2>1 DEF NoIdleSlot
<1>4. \/ \E i \in DOMAIN slotQueue :
            /\ Waiting(slotQueue[i])
            /\ task' = [task EXCEPT ![a] = v, ![slotQueue[i]] = "granted"]
      \/ slots' = 0
      \/ task' = [task EXCEPT ![a] = v] /\ \A i \in DOMAIN slotQueue : ~Waiting(slotQueue[i])
  BY DEF WakeNext
<1> QED BY <1>1, <1>2, <1>3, <1>4

IdleInv == QueueInv /\ NoIdleSlot

LEMMA IdleStep == TypeOK /\ OrphanInv /\ IdleInv /\ [Next]_vars => IdleInv'
<1> SUFFICES ASSUME TypeOK, OrphanInv, QueueInv, NoIdleSlot, [Next]_vars PROVE IdleInv'
  BY DEF IdleInv
<1> USE DEF vars, childVars, mailVars, budgetVars, slotVars, waitVars, rootVars
\* Steps that add no waiter to the queue and take none out of it.
<1>1. ASSUME \A b \in Agents : task'[b] = "blocked" => task[b] = "blocked",
             UNCHANGED slotQueue
      PROVE  QueueInv'
  BY <1>1 DEF QueueInv
<1>2. ASSUME NEW a \in Agents, LeaveQueue(a), task'[a] # "blocked",
             \A b \in Agents : task'[b] = "blocked" => task[b] = "blocked"
      PROVE  QueueInv'
  <2> SUFFICES ASSUME NEW b \in Agents, task'[b] = "blocked"
               PROVE  \E j \in DOMAIN slotQueue' : slotQueue'[j] = b
    BY DEF QueueInv
  <2>1. b \in Agents \ {a} /\ \E j \in DOMAIN slotQueue : slotQueue[j] = b
    BY <1>2 DEF QueueInv
  <2>2. slotQueue \in Seq(Agents)
    BY DEF TypeOK
  <2> QED BY <1>2, <2>1, <2>2, LeaveQueueKeeps
<1>3. ASSUME slots' = slots,
             \A b \in Agents : /\ Waiting(b)' => Waiting(b)
                               /\ task[b] = "granted" => task'[b] = "granted"
      PROVE  NoIdleSlot'
  BY <1>3 DEF NoIdleSlot
<1>4. ASSUME NEW a \in Agents, TaskStarts(a)
      PROVE  IdleInv'
  <2>1. CASE ~SlotsLocked
    <3>1. /\ task' = [task EXCEPT ![a] = "model"] /\ slotQueue' = slotQueue
          /\ UNCHANGED cancelReq
      BY <1>4, <2>1 DEF TaskStarts
    <3>2. QueueInv'
      BY <1>1, <3>1 DEF TypeOK
    <3>3. \A b \in Agents : ~Waiting(b)'
      BY <2>1, <3>1 DEF TypeOK, SlotsLocked, Waiting
    <3> QED BY <3>2, <3>3 DEF IdleInv, NoIdleSlot
  <2>2. CASE SlotsLocked
    <3>1. /\ task' = [task EXCEPT ![a] = "blocked"] /\ task[a] = "ready"
          /\ slotQueue' = Append(slotQueue, a)
          /\ UNCHANGED <<cancelReq, slots>>
      BY <1>4, <2>2 DEF TaskStarts
    <3>2. QueueInv'
      <4> SUFFICES ASSUME NEW b \in Agents, task'[b] = "blocked"
                   PROVE  \E j \in DOMAIN slotQueue' : slotQueue'[j] = b
        BY DEF QueueInv
      <4>1. /\ slotQueue \in Seq(Agents)
            /\ Len(slotQueue) \in Nat /\ DOMAIN slotQueue = 1..Len(slotQueue)
            /\ DOMAIN slotQueue' = 1..(Len(slotQueue) + 1)
            /\ slotQueue'[Len(slotQueue) + 1] = a
            /\ \A j \in 1..Len(slotQueue) : slotQueue'[j] = slotQueue[j]
        BY <3>1, AppendProperties, LenProperties DEF TypeOK
      <4>2. CASE b = a
        BY <4>1, <4>2
      <4>3. CASE b # a
        <5>1. task[b] = "blocked"
          BY <3>1, <4>3 DEF TypeOK
        <5>2. PICK j \in 1..Len(slotQueue) : slotQueue[j] = b
          BY <4>1, <5>1 DEF QueueInv
        <5> QED BY <4>1, <5>2
      <4> QED BY <4>2, <4>3
    <3>3. NoIdleSlot'
      <4>1. CASE slots = 0
        BY <3>1, <4>1 DEF NoIdleSlot
      <4>2. CASE slots # 0
        <5>1. PICK b \in Agents : task[b] = "granted"
          BY <2>2, <4>2 DEF TypeOK, SlotsLocked, NoIdleSlot
        <5>2. task'[b] = "granted"
          BY <3>1, <5>1 DEF TypeOK
        <5> QED BY <5>2 DEF NoIdleSlot
      <4> QED BY <4>1, <4>2
    <3> QED BY <3>2, <3>3 DEF IdleInv
  <2> QED BY <2>1, <2>2
<1>5. ASSUME NEW a \in Agents, SlotAcquired(a)
      PROVE  IdleInv'
  <2>1. /\ WakeNext([task EXCEPT ![a] = "model"], slots) /\ LeaveQueue(a)
        /\ task[a] = "granted" /\ UNCHANGED cancelReq
    BY <1>5 DEF SlotAcquired
  <2>2. NoIdleSlot'
    <3>1. "model" \in TaskState \ {"blocked", "granted"}
      BY DEF TaskState
    <3> QED BY <2>1, <3>1, WakeIdle
  <2>3. Elsewhere(a) /\ task'[a] # "blocked"
    <3>1. Outcome(a) /\ Elsewhere(a)
      BY <1>5, ChildSummary DEF ChildStep
    <3> QED BY <2>1, <3>1 DEF Outcome, Queues, Enters, GoesOn, Ends, NeverRuns, InLoop
  <2>4. QueueInv'
    BY <1>2, <2>1, <2>3 DEF Elsewhere
  <2> QED BY <2>2, <2>4 DEF IdleInv
<1>6. ASSUME NEW a \in Agents, TurnSucceeds(a) \/ TurnFails(a) \/ TurnCancelled(a)
      PROVE  IdleInv'
  <2>1. /\ WakeNext([task EXCEPT ![a] = "done"], slots + 1)
        /\ UNCHANGED slotQueue /\ task[a] \in InLoop
    BY <1>6 DEF TurnSucceeds, TurnFails, TurnCancelled, EndTurn, ReleaseSlot
  <2>2. \A b \in Agents \ {a} : cancelReq'[b] = cancelReq[b]
    BY <1>6 DEF TypeOK, TurnSucceeds, TurnFails, TurnCancelled
  <2>3. NoIdleSlot'
    <3>1. "done" \in TaskState \ {"blocked", "granted"} /\ task[a] # "blocked"
      BY <2>1 DEF TaskState, InLoop
    <3> QED BY <2>1, <2>2, <3>1, WakeIdle
  <2>4. Elsewhere(a) /\ task'[a] # "blocked"
    <3>1. Outcome(a) /\ Elsewhere(a)
      BY <1>6, ChildSummary DEF ChildStep
    <3> QED BY <2>1, <3>1 DEF Outcome, Queues, Enters, GoesOn, Ends, NeverRuns, InLoop
  <2>5. QueueInv'
    BY <1>1, <2>1, <2>4 DEF Elsewhere
  <2> QED BY <2>3, <2>5 DEF IdleInv
<1>7. ASSUME NEW a \in Agents, QueueCancelled(a)
      PROVE  IdleInv'
  <2>1. LeaveQueue(a) /\ Surrender(a) /\ task[a] \in {"blocked", "granted"}
    BY <1>7 DEF QueueCancelled
  <2>2. Elsewhere(a) /\ task'[a] = "done"
    <3>1. Outcome(a) /\ Elsewhere(a)
      BY <1>7, ChildSummary DEF ChildStep
    <3>2. status'[a] = "CANCELLED"
      BY <1>7 DEF TypeOK, QueueCancelled
    <3> QED BY <2>1, <3>1, <3>2 DEF Outcome, Queues, Enters, GoesOn, Ends, NeverRuns, InLoop
  <2>3. QueueInv'
    BY <1>2, <2>1, <2>2 DEF Elsewhere
  <2>4. NoIdleSlot'
    <3>1. CASE task[a] = "granted"
      <4>1. WakeNext([task EXCEPT ![a] = "done"], slots + 1)
        BY <2>1, <3>1 DEF Surrender, ReleaseSlot
      <4>2. "done" \in TaskState \ {"blocked", "granted"}
        BY DEF TaskState
      <4> QED BY <2>2, <3>1, <4>1, <4>2, WakeIdle DEF Elsewhere
    <3>2. CASE task[a] # "granted"
      <4>1. task' = [task EXCEPT ![a] = "done"] /\ slots' = slots
        BY <2>1, <3>2 DEF Surrender
      <4>2. \A b \in Agents : /\ Waiting(b)' => Waiting(b)
                              /\ task[b] = "granted" => task'[b] = "granted"
        BY <2>2, <3>2, <4>1 DEF TypeOK, Elsewhere, Waiting
      <4> QED BY <1>3, <4>1, <4>2
    <3> QED BY <3>1, <3>2
  <2> QED BY <2>3, <2>4 DEF IdleInv
\* Everything else only takes waiters out of consideration.
<1>8. ASSUME slots' = slots, UNCHANGED slotQueue,
             \A b \in Agents : /\ \/ task'[b] = task[b]
                                  \/ task[b] \notin {"blocked", "granted"} /\ task'[b] # "blocked"
                               /\ task[b] = "blocked" /\ cancelReq[b] => cancelReq'[b]
      PROVE  IdleInv'
  <2>1. QueueInv'
    BY <1>1, <1>8
  <2>2. NoIdleSlot'
    BY <1>3, <1>8 DEF Waiting
  <2> QED BY <2>1, <2>2 DEF IdleInv
<1>9. ASSUME NEW a \in Agents,
             ModelCallsTool(a) \/ NextIteration(a) \/ CancelSwallowed(a) \/ NeverStarted(a)
      PROVE  IdleInv'
  <2>1. /\ \A b \in Agents : /\ \/ task'[b] = task[b]
                                \/ task[b] \notin {"blocked", "granted"} /\ task'[b] # "blocked"
                             /\ task[b] = "blocked" /\ cancelReq[b] => cancelReq'[b]
        /\ UNCHANGED <<slots, slotQueue>>
    BY <1>9 DEF TypeOK, ModelCallsTool, NextIteration, CancelSwallowed, NeverStarted, InLoop
  <2> QED BY <1>8, <2>1
<1>10. ASSUME NEW a \in Agents,
              \/ \E k \in Keys \cup {None} : Spawn(a, k)
              \/ \E m \in Messages : SendMessage(a, m)
       PROVE  IdleInv'
  <2>1. /\ task' = task \/ (task' = [task EXCEPT ![a] = "ready"] /\ status[a] \in {"ABSENT", "IDLE"})
        /\ UNCHANGED <<slots, slotQueue, cancelReq>>
    BY <1>10 DEF Spawn, SendMessage
  <2>2. status[a] \in {"ABSENT", "IDLE"} => task[a] \notin {"blocked", "granted"}
    BY DEF OrphanInv, ThreadShape, LiveTask
  <2>3. \A b \in Agents : /\ \/ task'[b] = task[b]
                             \/ task[b] \notin {"blocked", "granted"} /\ task'[b] # "blocked"
                          /\ task[b] = "blocked" /\ cancelReq[b] => cancelReq'[b]
    BY <2>1, <2>2 DEF TypeOK
  <2> QED BY <1>8, <2>1, <2>3
<1>11. ASSUME NEW a \in Agents, NEW next \in {"loop", "close", "cancelAll"},
              BeginCancel(a, next), UNCHANGED <<task, slots, slotQueue>>
       PROVE  IdleInv'
  <2>1. \A b \in Agents : cancelReq[b] => cancelReq'[b]
    BY <1>11, BeginCancelSummary DEF TypeOK
  <2> QED BY <1>8, <1>11, <2>1
<1>12. ASSUME UNCHANGED <<task, slots, slotQueue, cancelReq>>
       PROVE  IdleInv'
  BY <1>8, <1>12
<1>13. ASSUME NEW a \in Agents,
              Cancel(a) \/ CancelNext(a) \/ \E force \in BOOLEAN : Close(a, force)
       PROVE  IdleInv'
  BY <1>11, <1>12, <1>13 DEF Cancel, CancelNext, Close
<1> QED
  BY <1>4, <1>5, <1>6, <1>7, <1>9, <1>10, <1>12, <1>13
     DEF Next, ChildStep, RootCall, RootStep, RunOver, CancelReturns, Wait, WaitWakes,
         WaitTimesOut, FinalAnswer, RootAborts, Finally, GatherTasks

\* While a child queues for a slot and a slot is free, some waiter already
\* holds a grant and will pass the next one on when it resumes.
THEOREM NoSlotLeftIdle == Spec => []NoIdleSlot
<1>1. Init => IdleInv
  BY DEF Init, IdleInv, QueueInv, NoIdleSlot, Waiting
<1>2. TypeInv => TypeOK
  BY DEF TypeInv
<1>3. IdleInv => NoIdleSlot
  BY DEF IdleInv
<1> QED BY <1>1, <1>2, <1>3, IdleStep, BaseInv, PTL DEF Spec

-----------------------------------------------------------------------------
(* The scheduler implements the supervisor.                                *)

\* Whoever gets a slot finds one of the others free.
LEMMA RoomToExecute ==
    ASSUME TypeOK, SlotAccounting, NEW a \in Agents, TaskStarts(a) \/ SlotAcquired(a),
           task'[a] = "model"
    PROVE  Cardinality(Executing) < MaxConcurrent
<1>1. /\ slots + Cardinality(Granted) + Cardinality(Executing) = MaxConcurrent
      /\ slots \in Nat
  BY DEF SlotAccounting, Granted, TypeOK
<1>2. CASE TaskStarts(a)
  <2>1. slots # 0
    BY <1>2 DEF TypeOK, TaskStarts, SlotsLocked
  <2> QED BY <1>1, <2>1, FiniteParts
<1>3. CASE SlotAcquired(a)
  <2>1. a \in Granted
    BY <1>3 DEF SlotAcquired, Granted
  <2>2. Cardinality(Granted) # 0
    BY <2>1, FiniteParts, FS_EmptySet
  <2> QED BY <1>1, <2>2, FiniteParts
<1> QED BY <1>2, <1>3

LEMMA RefineStep ==
    TypeOK /\ OrphanInv /\ SlotAccounting /\ [Next]_vars
    => [Sup!SupervisorNext]_(Sup!supervisorVars)
<1> SUFFICES ASSUME TypeOK, OrphanInv, SlotAccounting, [Next]_vars
             PROVE  Sup!SupervisorNext \/ UNCHANGED Sup!supervisorVars
  OBVIOUS
<1> USE DEF vars, childVars, mailVars, budgetVars, slotVars, waitVars, rootVars
<1>1. ASSUME NEW a \in Agents, ChildStep(a)
      PROVE  Sup!SupervisorNext \/ UNCHANGED Sup!supervisorVars
  <2>1. Outcome(a) /\ Elsewhere(a) /\ UNCHANGED rootPc
    BY <1>1, ChildSummary DEF RootKeeps
  <2>2. CASE Queues(a)
    <3>1. Live' = Live /\ Executing' = Executing
      BY <2>1, <2>2 DEF Queues, Elsewhere, Live, Executing, LiveTask, InLoop
    <3> QED BY <2>1, <3>1 DEF Sup!supervisorVars
  <2>3. CASE GoesOn(a)
    <3>1. Live' = Live /\ Executing' = Executing
      BY <2>1, <2>3 DEF GoesOn, Elsewhere, Live, Executing, LiveTask, InLoop
    <3> QED BY <2>1, <3>1 DEF Sup!supervisorVars
  <2>4. CASE Enters(a)
    <3>1. /\ Live' = Live /\ Executing' = Executing \cup {a}
          /\ a \in Live \ Executing
      BY <2>1, <2>4 DEF Enters, Elsewhere, Live, Executing, LiveTask, InLoop
    <3>2. TaskStarts(a) \/ SlotAcquired(a)
      BY <1>1, <2>4 DEF ChildStep, Enters, ModelCallsTool, NextIteration, TurnSucceeds,
                        TurnFails, TurnCancelled, CancelSwallowed, QueueCancelled,
                        NeverStarted, InLoop, Surrender, TypeOK
    <3>3. Cardinality(Executing) < MaxConcurrent
      BY <2>4, <3>2, RoomToExecute DEF Enters
    <3>4. UNCHANGED <<Live, rootPc = "ended">>
      BY <2>1, <3>1
    <3>5. Sup!Execute(a)
      BY <3>1, <3>3, <3>4, Zenon
         DEF Sup!Execute, Cardinality, Sup!Cardinality, IsFiniteSet, Sup!IsFiniteSet
    <3> QED BY <3>5 DEF Sup!SupervisorNext
  <2>5. CASE Ends(a) \/ NeverRuns(a)
    <3>1. /\ a \in Live /\ Live' = Live \ {a}
          /\ Executing' = Executing \ {a}
      BY <2>1, <2>5 DEF Ends, NeverRuns, Elsewhere, Live, Executing, LiveTask, InLoop
    <3>2. Sup!Leave(a)
      BY <2>1, <3>1 DEF Sup!Leave
    <3> QED BY <3>2 DEF Sup!SupervisorNext
  <2> QED BY <2>1, <2>2, <2>3, <2>4, <2>5 DEF Outcome
\* A spawn or a message that schedules a task admits the child.
<1>2. ASSUME NEW a \in Agents,
             \/ \E k \in Keys \cup {None} : Spawn(a, k)
             \/ \E m \in Messages : SendMessage(a, m)
      PROVE  Sup!SupervisorNext \/ UNCHANGED Sup!supervisorVars
  <2>1. CASE task' = task
    <3>1. UNCHANGED rootPc
      BY <1>2 DEF Spawn, SendMessage
    <3> QED BY <2>1, <3>1 DEF Sup!supervisorVars, Live, Executing
  <2>2. CASE task' # task
    <3>1. /\ task' = [task EXCEPT ![a] = "ready"]
          /\ status[a] \in {"ABSENT", "IDLE"}
          /\ rootPc = "loop" /\ rootPc' = "loop"
      BY <1>2, <2>2 DEF Spawn, SendMessage
    <3>2. task[a] \notin LiveTask
      BY <3>1 DEF OrphanInv, ThreadShape
    <3>3. /\ a \notin Live /\ Live' = Live \cup {a}
          /\ Executing' = Executing
      BY <3>1, <3>2 DEF TypeOK, Live, Executing, LiveTask, InLoop
    <3>4. Sup!Admit(a)
      BY <3>1, <3>3 DEF Sup!Admit
    <3> QED BY <3>4 DEF Sup!SupervisorNext
  <2> QED BY <2>1, <2>2
\* The run ends with no child left.
<1>3. ASSUME Finally \/ GatherTasks
      PROVE  Sup!SupervisorNext \/ UNCHANGED Sup!supervisorVars
  <2>1. rootPc # "ended" /\ UNCHANGED task
    BY <1>3 DEF Finally, GatherTasks
  <2>2. rootPc' = "ended" => Live = {}
    BY <1>3 DEF Finally, GatherTasks, OrphanInv, ThreadShape, Live, Active, ActiveStatus
  <2>3. Live' = Live /\ Executing' = Executing
    BY <2>1 DEF Live, Executing
  <2>4. CASE rootPc' = "ended"
    <3>1. Sup!Finish
      BY <2>1, <2>2, <2>3, <2>4 DEF Sup!Finish
    <3> QED BY <3>1 DEF Sup!SupervisorNext
  <2>5. CASE rootPc' # "ended"
    BY <2>1, <2>3, <2>5 DEF Sup!supervisorVars
  <2> QED BY <2>4, <2>5
\* The other steps move no task and do not end the run.
<1>4. ASSUME UNCHANGED task, (rootPc # "ended" /\ rootPc' # "ended") \/ UNCHANGED rootPc
      PROVE  Sup!SupervisorNext \/ UNCHANGED Sup!supervisorVars
  BY <1>4 DEF Sup!supervisorVars, Live, Executing
<1>5. ASSUME NEW a \in Agents,
             Cancel(a) \/ CancelNext(a) \/ \E force \in BOOLEAN : Close(a, force)
      PROVE  Sup!SupervisorNext \/ UNCHANGED Sup!supervisorVars
  <2>1. rootPc # "ended" /\ rootPc' # "ended" /\ UNCHANGED task
    BY <1>5 DEF Cancel, CancelNext, Close, BeginCancel, Resume
  <2> QED BY <1>4, <2>1
<1>6. CASE CancelReturns
  BY <1>4, <1>6 DEF CancelReturns, Resume
<1>7. ASSUME NEW S0 \in SUBSET Agents, NEW any \in BOOLEAN, Wait(S0, any)
      PROVE  Sup!SupervisorNext \/ UNCHANGED Sup!supervisorVars
  BY <1>4, <1>7 DEF Wait
<1>8. CASE WaitWakes \/ WaitTimesOut \/ FinalAnswer \/ RootAborts
  BY <1>4, <1>8 DEF WaitWakes, WaitTimesOut, FinalAnswer, RootAborts, EndWait
<1>9. CASE UNCHANGED vars
  BY <1>4, <1>9
<1> QED
  BY <1>1, <1>2, <1>3, <1>5, <1>6, <1>7, <1>8, <1>9
     DEF Next, RootCall, RootStep, RunOver

\* The scheduler implements the supervisor: a child task is admitted only
\* while the run is open, at most max_concurrent turns execute, and the run
\* ends only when no child task is left.
THEOREM SchedulerImplementsSupervisor == Spec => ImplementsSupervisor
<1>1. Init => Sup!SupervisorInit
  BY DEF Init, Sup!SupervisorInit, Live, Executing, LiveTask, InLoop
<1>2. TypeInv => TypeOK
  BY DEF TypeInv
<1> QED BY <1>1, <1>2, RefineStep, BaseInv, SlotsConserved, PTL
           DEF Spec, ImplementsSupervisor, Sup!SupervisorSpec
=============================================================================
