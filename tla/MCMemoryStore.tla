------------------------------ MODULE MCMemoryStore ------------------------------
(* An instance of MemoryStore: two texts with one hash, a third that LIKE     *)
(* finds where the index does not, records with and without NULL columns.     *)
EXTENDS MemoryStore, TLC

MCHash(c) == IF c \in {"text", "TEXT"} THEN "h1" ELSE c
MCWords(c) == IF c = "other" THEN {"w2"} ELSE {"w1"}

Key(project, thread, agent) == [project |-> project, thread |-> thread, agent |-> agent]
MCKeys == {Key("a", Null, Null), Key("a", "t", "dev"), Key("b", Null, Null)}

\* A word of two texts; a part of a word, which only LIKE finds.
MCQueries == {[tokens |-> {"w1"}, within |-> {"text"}], [tokens |-> {"oth"}, within |-> {"other"}]}

Symmetry == Permutations(Ids)
===============================================================================
