--------------------------- MODULE MCProjectContext ---------------------------
(* An instance of ProjectContext: guidance that does not all fit, and every  *)
(* row of a server name in every scope a project's row can meet.             *)
EXTENDS ProjectContext

MCSize == [admin |-> 1, user |-> 1, project |-> 2, admin_rule |-> 1, user_rule |-> 1, project_rule |-> 1]

Conf(rows, admin, denies) == [rows |-> rows, admin |-> admin, denies |-> denies]

MCConfs ==
    {Conf([admin |-> "none", inline |-> "none", user |-> "http", project |-> p, local |-> l], "absent", {}) :
        p \in {"stdio", "http"}, l \in {"none", "bad"}}
    \cup {Conf([admin |-> a, inline |-> "http", user |-> u, project |-> "stdio", local |-> l], ad, {"stdio"}) :
        a \in {"none", "http"}, u \in {"none", "bad"}, l \in {"none", "stdio"}, ad \in {"valid", "invalid"}}
=============================================================================
