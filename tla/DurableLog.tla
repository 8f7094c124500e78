----------------------------- MODULE DurableLog -----------------------------
(***************************************************************************)
(* What a thread's rollout promises to its session, across crashes: a log  *)
(* that only grows, keeps the order in which items were recorded, and      *)
(* contains every item whose durability was acknowledged.                  *)
(***************************************************************************)
EXTENDS Integers, Sequences

VARIABLES log,      \* the items a reader of the rollout gets
          promised  \* the items a flush has acknowledged

logVars == <<log, promised>>

Entries(l) == {l[i] : i \in DOMAIN l}

LogInit == log = <<>> /\ promised = {}

\* Items become durable at the end, later ones after earlier ones.
Extend ==
    /\ Len(log') >= Len(log)
    /\ \A i \in DOMAIN log : log'[i] = log[i]
    /\ \A i, j \in DOMAIN log' : i < j => log'[i] < log'[j]
    /\ UNCHANGED promised

\* Only durable items are acknowledged.
Promise ==
    /\ promised \subseteq promised'
    /\ promised' \subseteq Entries(log)
    /\ UNCHANGED log

LogSpec == LogInit /\ [][Extend \/ Promise]_logVars
=============================================================================
