---------------------------- MODULE MCThreadContext ----------------------------
(* Two contents, of which only one fits into a turn beside the other's cost. *)
EXTENDS ThreadContext

MCItems == {1, 2}
MCCost == [x \in MCItems |-> x + 1]

=============================================================================
