----------------------------- MODULE ProjectContext -----------------------------
(***************************************************************************)
(* What a project may put before the model or start on the host: guidance, *)
(* skills and MCP servers, gated by the trust the user gives a workspace   *)
(* (guidance/, skills/, mcp/config.py, mcp/approval.py, cli.py and the     *)
(* project context of runtime/run_manager.py), over several processes,     *)
(* directories and threads that share the files of one user.               *)
(*                                                                         *)
(* Every subsystem requires trust, as it does by default.  Of a project's  *)
(* files the model keeps a version: 0 when there are none.  A source of    *)
(* guidance is one document.  An activation that was written can be read   *)
(* again: resume() would skip one that somebody has spoilt.                *)
(***************************************************************************)
EXTENDS Integers, FiniteSets, SequencesExt

CONSTANTS Roots,       \* projects, side by side
          Size,        \* bytes of the guidance of each source
          MaxBytes,    \* guidance.max_guidance_bytes
          Confs,       \* configurations of one MCP server name to start from
          MaxThreads,  \* bound: threads
          MaxVersion,  \* bound: versions of a project's files
          MaxSkills,   \* bound: activations
          MaxRuns      \* bound: processes

Sources == {"admin", "user", "project", "admin_rule", "user_rule", "project_rule"}
OfProject == {"project", "project_rule"}

Scopes == {"admin", "inline", "user", "project", "local"}
Rows == {"none", "bad", "stdio", "http"}

ASSUME ProjectAssumption ==
    /\ Size \in [Sources -> Nat]
    /\ Roots \subseteq Nat \ {0}
    /\ {MaxBytes, MaxThreads, MaxVersion, MaxSkills, MaxRuns} \subseteq Nat
    /\ \A conf \in Confs :
          /\ conf.rows \in [Scopes -> Rows]
          /\ conf.admin \in {"absent", "valid", "invalid"}
          /\ conf.denies \subseteq Rows

VARIABLES
    conf,       \* the rows of the server name, scope by scope, and the admin policy
    version,    \* files of each project
    trustFile,  \* workspace-trust.json
    launches,   \* mcp-launch-approvals.json: projects and versions
    threads,    \* project each thread was created in
    stored,     \* activation snapshots of each thread
    here,       \* directory of the process
    session,    \* thread and project_trusted, or NoSession
    root,       \* project_paths
    guidance,   \* guidance_snapshot
    skills,     \* skill records, and the thread whose snapshots they use
    active,     \* activations of the skill manager
    servers,    \* MCP servers that run
    runs,       \* processes so far
    once,       \* history: projects trusted for this process only
    consents,   \* history: launches the user has said yes to
    inPlace     \* history: the process has had one thread, of its directory

fileVars == <<version, trustFile, launches, threads, stored>>
managerVars == <<root, guidance, skills, active, servers>>
ghosts == <<once, consents, inPlace>>
vars == <<conf, fileVars, here, session, managerVars, runs, ghosts>>

NoSession == [thread |-> 0, trusted |-> FALSE]
NoGuidance == [of |-> 0, docs |-> {}]
NoSkills == [of |-> 0, home |-> 0, trusted |-> FALSE]

Up == here # 0
Open == session.thread # 0

Init ==
    /\ conf \in Confs
    /\ version = [r \in Roots |-> 0]
    /\ trustFile = [r \in Roots |-> "unknown"]
    /\ launches = {}
    /\ threads = <<>> /\ stored = <<>>
    /\ here = 0 /\ session = NoSession
    /\ root = 0 /\ guidance = NoGuidance /\ skills = NoSkills
    /\ active = {} /\ servers = {}
    /\ runs = 0
    /\ once = {} /\ consents = {} /\ inPlace = FALSE

-----------------------------------------------------------------------------
(* Guidance.                                                               *)

Nothing == [total |-> 0, docs |-> {}]

\* One document more, if it fits.
With(acc, s) ==
    IF acc.total + Size[s] > MaxBytes THEN acc
    ELSE [total |-> acc.total + Size[s], docs |-> acc.docs \cup {s}]

\* Mutant: what an untrusted project offers is left out after it was counted.
LoadedLate(r, trusted) ==
    LET Take(acc, s) ==
            IF s \in OfProject /\ version[r] = 0 THEN acc
            ELSE IF s \in OfProject /\ ~trusted THEN [With(acc, s) EXCEPT !.docs = acc.docs]
            ELSE With(acc, s)
    IN  FoldLeft(Take, Nothing, <<"admin", "user", "project", "admin_rule", "user_rule", "project_rule">>).docs

\* GuidanceManager.discover reads some of the sources: main documents and then
\* rules, each by precedence.  A document that does not fit is left out whole,
\* the next one may fit.
Gathered(read) ==
    LET Take(acc, s) == IF s \in read THEN With(acc, s) ELSE acc
        main == Take(Take(Take(Nothing, "admin"), "user"), "project")
    IN  Take(Take(Take(main, "admin_rule"), "user_rule"), "project_rule").docs

\* Untrusted documents are skipped before they count.
Loaded(r, trusted) == Gathered(IF trusted /\ version[r] # 0 THEN Sources ELSE Sources \ OfProject)

-----------------------------------------------------------------------------
(* MCP configuration.                                                      *)

\* The row of a scope; a project without files has none.
Row(r, scope) == IF scope = "project" /\ version[r] = 0 THEN "none" ELSE conf.rows[scope]

\* Mutant: an untrusted project row leaves the user's row of that name alone.
ParsedKept(won, r, scope, trusted) ==
    LET row == Row(r, scope)
    IN  IF won.scope = "admin" \/ row \in {"none", "bad"} THEN won
        ELSE IF scope = "project" /\ ~trusted THEN won
        ELSE [scope |-> scope, row |-> row]

NoServer == [scope |-> "none", row |-> "none"]

\* _parse_rows for one name: an admin row is protected, a row that is not
\* valid changes nothing, and a project row without trust blocks the name.
Parsed(won, r, scope, trusted) ==
    LET row == Row(r, scope)
    IN  IF won.scope = "admin" \/ row \in {"none", "bad"} THEN won
        ELSE IF scope = "project" /\ ~trusted THEN NoServer
        ELSE [scope |-> scope, row |-> row]

\* MCPConfigResolver.resolve: scope over scope, then the winner, unless the
\* admin policy denies it or could not be read.
Resolved(r, trusted) ==
    LET Over(won, scope) == Parsed(won, r, scope, trusted)
        admin == IF conf.admin = "valid" THEN Over(NoServer, "admin") ELSE NoServer
        won == Over(Over(Over(Over(admin, "inline"), "user"), "project"), "local")
    IN  IF conf.admin = "invalid" \/ (conf.admin = "valid" /\ won.row \in conf.denies) THEN NoServer ELSE won

\* Mutant: a launch is remembered for the project, not for what it launches.
ApprovedForProject(r) == \E v \in 0..MaxVersion : <<r, v>> \in launches

\* MCPLaunchApprovalStore.approved: the hash of the row as it is now.
Approved(r) == <<r, version[r]>> \in launches

\* initialize_mcp: a project's stdio server starts when this very row was
\* allowed, now or before; the answer is remembered.
StartServers(r, trusted) ==
    LET won == Resolved(r, trusted)
        server == [scope |-> won.scope, row |-> won.row, of |-> r, version |-> version[r]]
    IN  IF won = NoServer
        THEN servers' = {} /\ UNCHANGED <<launches, consents>>
        ELSE IF won.scope # "project" \/ won.row # "stdio" \/ Approved(r)
        THEN servers' = {server} /\ UNCHANGED <<launches, consents>>
        ELSE \/ /\ servers' = {server}
                /\ launches' = launches \cup {<<r, version[r]>>}
                /\ consents' = consents \cup {<<r, version[r]>>}
             \/ servers' = {} /\ UNCHANGED <<launches, consents>>

-----------------------------------------------------------------------------
(* Trust and the project context.                                          *)

\* What _resolve_workspace_trust can come to: nothing to trust, a stored
\* decision, or an answer.
Answers(r) ==
    IF version[r] = 0 THEN {"no_project"}
    ELSE CASE trustFile[r] = "trusted" -> {"stored_yes"}
           [] trustFile[r] = "untrusted" -> {"stored_no"}
           [] OTHER -> {"once", "always", "never"}

Yes(answer) == answer \in {"stored_yes", "once", "always"}

Remember(r, answer) ==
    /\ trustFile' = CASE answer = "always" -> [trustFile EXCEPT ![r] = "trusted"]
                      [] answer = "never" -> [trustFile EXCEPT ![r] = "untrusted"]
                      [] OTHER -> trustFile
    /\ once' = CASE answer = "once" -> once \cup {r}
                 [] answer = "never" -> once \ {r}
                 [] OTHER -> once

Discovered(r, trusted) == [of |-> r, docs |-> Loaded(r, trusted)]

\* The first thread of a process: everything is discovered.
InitializeAll(r, thread, trusted) ==
    /\ root' = r
    /\ guidance' = Discovered(r, trusted)
    /\ skills' = [of |-> r, home |-> thread, trusted |-> trusted]

\* Mutant: the new skill manager does not read the snapshots.
RestoredNothing(t) == {}

\* SkillManager.resume: the snapshots of the thread, whoever made them.
Restored(t) == stored[t]

\* A new process in a directory, and its first thread.
Code ==
    /\ ~Up
    /\ runs < MaxRuns
    /\ Len(threads) < MaxThreads
    /\ \E r \in Roots : \E answer \in Answers(r) :
          LET thread == Len(threads) + 1
          IN  /\ here' = r
              /\ Remember(r, answer)
              /\ threads' = Append(threads, r)
              /\ stored' = Append(stored, {})
              /\ session' = [thread |-> thread, trusted |-> Yes(answer)]
              /\ InitializeAll(r, thread, Yes(answer))
              /\ StartServers(r, Yes(answer))
    /\ active' = {}
    /\ runs' = runs + 1
    /\ inPlace' = TRUE
    /\ UNCHANGED <<conf, version>>

\* A new process that resumes a thread: the question is about its directory,
\* the project context is that of the thread, and the activations come back.
ResumeThread ==
    /\ ~Up
    /\ runs < MaxRuns
    /\ \E r \in Roots, t \in DOMAIN threads : \E answer \in Answers(r) :
          /\ here' = r
          /\ Remember(r, answer)
          /\ session' = [thread |-> t, trusted |-> Yes(answer)]
          /\ InitializeAll(threads[t], t, Yes(answer))
          /\ active' = Restored(t)
          /\ StartServers(threads[t], Yes(answer))
          /\ inPlace' = (r = threads[t])
    /\ runs' = runs + 1
    /\ UNCHANGED <<conf, version, threads, stored>>

\* /new: the old session closes its servers; guidance and skills have been
\* initialised in this process and stay.
NewThread ==
    /\ Up /\ Open
    /\ Len(threads) < MaxThreads
    /\ \E answer \in Answers(here) :
          /\ Remember(here, answer)
          /\ session' = [thread |-> Len(threads) + 1, trusted |-> Yes(answer)]
          /\ StartServers(here, Yes(answer))
    /\ threads' = Append(threads, here)
    /\ stored' = Append(stored, {})
    /\ root' = here
    /\ inPlace' = FALSE
    /\ UNCHANGED <<conf, version, here, guidance, skills, active, runs>>

\* Mutant: the servers outlive the process's last session.
EndKeepsServers ==
    /\ here' = 0 /\ session' = NoSession
    /\ root' = 0 /\ guidance' = NoGuidance /\ skills' = NoSkills
    /\ active' = {} /\ once' = {} /\ inPlace' = FALSE
    /\ UNCHANGED <<conf, fileVars, servers, runs, consents>>

\* The process is gone, with everything it held.
End ==
    /\ here' = 0 /\ session' = NoSession
    /\ root' = 0 /\ guidance' = NoGuidance /\ skills' = NoSkills
    /\ active' = {} /\ servers' = {} /\ once' = {} /\ inPlace' = FALSE
    /\ UNCHANGED <<conf, fileVars, runs, consents>>

\* resolve_project_paths(session.workspace, root of the thread): a directory
\* outside the thread's workspace is an error that nothing catches.
Elsewhere == here # root

\* /guidance reload
ReloadGuidance ==
    /\ Up /\ Open /\ ~Elsewhere
    /\ guidance' = Discovered(here, session.trusted)
    /\ UNCHANGED <<conf, fileVars, here, session, root, skills, active, servers, runs, ghosts>>

\* /skills reload: a new manager, with the snapshots of the current thread.
ReloadSkills ==
    /\ Up /\ Open /\ ~Elsewhere
    /\ skills' = [of |-> here, home |-> session.thread, trusted |-> session.trusted]
    /\ active' = Restored(session.thread)
    /\ UNCHANGED <<conf, fileVars, here, session, root, guidance, servers, runs, ghosts>>

ReloadFails == Up /\ Open /\ Elsewhere /\ End

\* SkillManager.resolve: of the user, or of a project that was trusted when
\* the skills were discovered.
Resolvable == {"user"} \cup (IF skills.trusted /\ version[skills.of] > 0 THEN {"project"} ELSE {})

\* Activation ids are never used again.
FreshId == {n \in 1..MaxSkills : \A a \in active \cup UNION ToSet(stored) : a.id < n}

SameContent(a, b) == <<a.skill, a.of, a.version>> = <<b.skill, b.of, b.version>>

\* SkillManager.activate by the user or the model: what is active with this
\* content is used again; otherwise it is active, and then written, unless the
\* disk fails.
Activate ==
    /\ Up /\ Open
    /\ \E skill \in Resolvable, id \in FreshId :
          LET activation == [id |-> id, skill |-> skill, of |-> skills.of,
                             version |-> IF skill = "project" THEN version[skills.of] ELSE 0]
          IN  /\ \A a \in active : ~SameContent(a, activation)
              /\ active' = active \cup {activation}
              /\ \/ stored' = [stored EXCEPT ![skills.home] = @ \cup {activation}]
                 \/ UNCHANGED stored
    /\ UNCHANGED <<conf, version, trustFile, launches, threads, here, session, root, guidance,
                   skills, servers, runs, ghosts>>

\* Somebody edits a project.
Edit ==
    /\ \E r \in Roots :
          /\ version[r] < MaxVersion
          /\ version' = [version EXCEPT ![r] = @ + 1]
    /\ UNCHANGED <<conf, trustFile, launches, threads, stored, here, session, managerVars, runs, ghosts>>

Exit == Up /\ End

Next ==
    \/ Code \/ ResumeThread \/ NewThread \/ Exit
    \/ ReloadGuidance \/ ReloadSkills \/ ReloadFails
    \/ Activate \/ Edit

Spec == Init /\ [][Next]_vars

-----------------------------------------------------------------------------
(* Properties.                                                             *)

\* Every variable has its type, and a process that is gone has left nothing.
TypeOK ==
    /\ version \in [Roots -> 0..MaxVersion]
    /\ trustFile \in [Roots -> {"unknown", "trusted", "untrusted"}]
    /\ launches \subseteq Roots \X (1..MaxVersion)
    /\ Len(threads) <= MaxThreads /\ ToSet(threads) \subseteq Roots
    /\ DOMAIN stored = DOMAIN threads
    /\ session.thread \in 0..Len(threads)
    /\ guidance.docs \subseteq Sources
    /\ ~Up => ~Open /\ active = {} /\ servers = {}

Trusted(r) == trustFile[r] = "trusted" \/ r \in once

\* The guidance that is left when there is no project at all.
OwnDocs == Gathered(Sources \ OfProject)

\* In a process with one thread, of its own directory, nothing of the project
\* is shown, offered or started unless the user trusts it, and what an
\* untrusted project offers does not displace the user's own guidance.
TrustedInPlace ==
    Open /\ inPlace /\ ~Trusted(here) =>
        /\ guidance.docs = OwnDocs
        /\ "project" \notin Resolvable
        /\ \A s \in servers : s.scope # "project"

\* A stdio server of a project runs only from a row the user was shown and
\* allowed, for the project of the session, in this process or an earlier one.
LaunchConsent ==
    \A s \in servers :
        /\ s.of = root
        /\ s.scope = "project" =>
              /\ session.trusted
              /\ s.row = "stdio" => <<s.of, s.version>> \in consents

\* The reference: the valid row of the highest scope, with the administrator
\* over all of them.
Rank(scope) == CHOOSE i \in 1..5 : <<"inline", "user", "project", "local", "admin">>[i] = scope
Reference(r, trusted) ==
    LET valid == {s \in Scopes :
                    Row(r, s) \in {"stdio", "http"} /\ (s = "admin" => conf.admin = "valid")}
        top == CHOOSE s \in valid : \A x \in valid : Rank(x) <= Rank(s)
    IN  IF \/ valid = {}
           \/ conf.admin = "invalid"
           \/ top = "project" /\ ~trusted
           \/ conf.admin = "valid" /\ Row(r, top) \in conf.denies
        THEN NoServer
        ELSE [scope |-> top, row |-> Row(r, top)]

\* Parsing the scopes one over the other chooses what the precedence promises,
\* whatever rows are missing, invalid or untrusted.
ResolverAgrees ==
    \A r \in Roots, trusted \in BOOLEAN : Resolved(r, trusted) = Reference(r, trusted)

\* While a process has one thread, of its own directory, everything that was
\* written of its activations is active, and no content is active or written
\* twice, through reloads, failed writes and resumes.
ActivationsKept ==
    Open /\ inPlace =>
        /\ stored[session.thread] \subseteq active
        /\ \A kept \in {active, stored[session.thread]} :
              \A a, b \in kept : SameContent(a, b) => a = b

\* Doc, stage 4, differences, 26: no guidance of a project that is not trusted
\* enters the context.  /new keeps what the last thread loaded, a resume asks
\* about another directory.
UntrustedNotShown ==
    Open /\ guidance.docs \cap OfProject # {} => Trusted(guidance.of)

=============================================================================
