----------------------------- MODULE TurnLedger -----------------------------
(***************************************************************************)
(* What a thread promises to its user about turns and tool calls, however  *)
(* often the process dies: the user decides about a call once, a call is   *)
(* executed on that decision and not after its result is settled, and the  *)
(* record of turns is never rewritten and tells one story of each.         *)
(***************************************************************************)
EXTENDS Integers, Sequences

CONSTANTS Calls,   \* tool calls
          Asking   \* those that need the user's consent

VARIABLES decision, \* what the user said of each call
          runs,     \* how often each call was executed
          settled,  \* calls whose result is final
          record    \* what is durably on record: entries of a turn and a kind

ledgerVars == <<decision, runs, settled, record>>

LedgerInit ==
    /\ decision = [c \in Calls |-> "none"]
    /\ runs = [c \in Calls |-> 0]
    /\ settled = {}
    /\ record = <<>>

Decide(c) ==
    /\ c \in Asking
    /\ decision[c] = "none"
    /\ \E d \in {"allow", "deny", "cancel"} : decision' = [decision EXCEPT ![c] = d]
    /\ UNCHANGED <<runs, settled, record>>

\* Without consent a call is executed once; with it, until it has a result.
Run(c) ==
    /\ c \notin settled
    /\ IF c \in Asking THEN decision[c] = "allow" ELSE runs[c] = 0
    /\ runs' = [runs EXCEPT ![c] = @ + 1]
    /\ UNCHANGED <<decision, settled, record>>

Settle(c) ==
    /\ c \notin settled
    /\ settled' = settled \cup {c}
    /\ UNCHANGED <<decision, runs, record>>

\* A turn starts after all there is of earlier ones, and once it completed or
\* failed nothing more is said of it.
OneStory(entries) ==
    \A i, j \in DOMAIN entries : i < j =>
        /\ entries[j].kind = "turn.started" => entries[i].turn < entries[j].turn
        /\ entries[i].kind \in {"turn.completed", "turn.failed"} => entries[i].turn # entries[j].turn

\* The record grows at its end.
Write ==
    /\ Len(record') >= Len(record)
    /\ \A i \in DOMAIN record : record'[i] = record[i]
    /\ OneStory(record')
    /\ UNCHANGED <<decision, runs, settled>>

LedgerNext == Write \/ \E c \in Calls : Decide(c) \/ Run(c) \/ Settle(c)

LedgerSpec == LedgerInit /\ [][LedgerNext]_ledgerVars
=============================================================================
