---------------------------- MODULE MCToolApproval ----------------------------
(* An instance of ToolApproval: a tool of each kind, a path of each class. *)
EXTENDS ToolApproval

Traits(kind, risk, mode, safe) ==
    [kind |-> kind, risk |-> risk, able |-> TRUE, mode |-> mode, safeRead |-> safe, eager |-> FALSE]

MCTool ==
    [edit |-> Traits("file", "MEDIUM", "inherit", FALSE),
     shell |-> Traits("command", "HIGH", "inherit", FALSE),
     remote |-> Traits("mcp", "MEDIUM", "inherit", FALSE),
     find |-> Traits("search", "READ_ONLY", "inherit", FALSE),
     spawn |-> Traits("spawn", "LOW", "inherit", FALSE),
     activate |-> Traits("skill", "READ_ONLY", "inherit", FALSE),
     query |-> [Traits("mcp", "LOW", "writes", TRUE) EXCEPT !.eager = TRUE]]

MCPath == [src |-> "plain", git |-> "protected", push |-> "plain", lib |-> "plain",
           out |-> "denied", bad |-> "malformed"]

MCRules ==
    {[tool |-> "shell", args |-> {"push"}, decision |-> "DENY", trusted |-> TRUE],
     [tool |-> "remote", args |-> {"src"}, decision |-> "ALLOW", trusted |-> FALSE],
     [tool |-> "query", args |-> {"lib"}, decision |-> "DENY", trusted |-> TRUE],
     [tool |-> "edit", args |-> {"git"}, decision |-> "DENY", trusted |-> TRUE],
     [tool |-> "find", args |-> {"src"}, decision |-> "ASK", trusted |-> FALSE]}

MCRequests ==
    {[tool |-> "edit", arg |-> "git"], [tool |-> "edit", arg |-> "out"],
     [tool |-> "shell", arg |-> "push"], [tool |-> "remote", arg |-> "src"],
     [tool |-> "find", arg |-> "src"], [tool |-> "activate", arg |-> "src"],
     [tool |-> "spawn", arg |-> "src"]}

MCDelegable == {[tool |-> "query", arg |-> "lib"], [tool |-> "query", arg |-> "bad"]}

MCPresets ==
    {[sandbox |-> "workspace-write", policy |-> "untrusted"],
     [sandbox |-> "danger-full-access", policy |-> "never"]}

MCSkillTools == {"edit"}
=============================================================================
