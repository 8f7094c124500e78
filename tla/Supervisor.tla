----------------------------- MODULE Supervisor -----------------------------
(***************************************************************************)
(* What the run-scoped supervisor of child agents promises, whatever the   *)
(* way it keeps its books: child tasks live inside the life of the root    *)
(* run.  A child is admitted while the run is open, at most Capacity       *)
(* children execute at once, and the run is over only when no child task   *)
(* is left (phase 2 design, section 12.4: cancel the active children, wait *)
(* for their cleanup, then end the root run).                              *)
(***************************************************************************)
EXTENDS Naturals, FiniteSets

CONSTANTS Agents,    \* the children a run can have
          Capacity   \* how many of them may execute at once

VARIABLES admitted,  \* children whose task exists and has not ended
          executing, \* the admitted children that hold an execution slot
          over       \* has the root run ended?

supervisorVars == <<admitted, executing, over>>

SupervisorInit ==
    /\ admitted = {}
    /\ executing = {}
    /\ over = FALSE

\* A child is scheduled, at its creation or for a follow-up turn.
Admit(a) ==
    /\ ~over
    /\ a \notin admitted
    /\ admitted' = admitted \cup {a}
    /\ UNCHANGED <<executing, over>>

\* An admitted child gets an execution slot.
Execute(a) ==
    /\ a \in admitted \ executing
    /\ Cardinality(executing) < Capacity
    /\ executing' = executing \cup {a}
    /\ UNCHANGED <<admitted, over>>

\* A child task ends, having executed or not, and its slot is free again.
Leave(a) ==
    /\ a \in admitted
    /\ admitted' = admitted \ {a}
    /\ executing' = executing \ {a}
    /\ UNCHANGED over

\* The root run ends: nothing may be left running behind it.
Finish ==
    /\ ~over
    /\ admitted = {}
    /\ over' = TRUE
    /\ UNCHANGED <<admitted, executing>>

SupervisorNext ==
    \/ \E a \in Agents : Admit(a) \/ Execute(a) \/ Leave(a)
    \/ Finish

SupervisorSpec == SupervisorInit /\ [][SupervisorNext]_supervisorVars
=============================================================================
