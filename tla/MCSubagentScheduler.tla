------------------------ MODULE MCSubagentScheduler ------------------------
(* Model-checking instances of SubagentScheduler. *)
EXTENDS SubagentScheduler, TLC

\* Children are interchangeable, and so are follow-up texts.
Symmetry == Permutations(Agents) \cup Permutations(Messages)
=============================================================================
