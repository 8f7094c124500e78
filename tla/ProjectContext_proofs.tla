------------------------- MODULE ProjectContext_proofs -------------------------
(***************************************************************************)
(* Safety of the project context, for any number of projects, threads,     *)
(* versions and processes, any sizes of the guidance and any configuration *)
(* of the MCP server.                                                      *)
(*                                                                         *)
(* TypeInv types the files and the process; TrustInv says what a process   *)
(* with one thread, of its own directory, may hold without trust;          *)
(* ConsentInv, that the remembered launches are launches the user allowed; *)
(* KeptInv, that no content is active or written twice for any thread.     *)
(***************************************************************************)
EXTENDS ProjectContext, TLAPS

Activation == [id : Nat, skill : {"user", "project"}, of : Roots, version : Nat]

\* A process that is up has a thread, whose project and skills it knows.
TypeInv ==
    /\ conf \in Confs
    /\ version \in [Roots -> 0..MaxVersion]
    /\ trustFile \in [Roots -> {"unknown", "trusted", "untrusted"}]
    /\ launches \subseteq Roots \X (1..MaxVersion)
    /\ threads \in Seq(Roots) /\ Len(threads) <= MaxThreads
    /\ stored \in Seq(SUBSET Activation) /\ Len(stored) = Len(threads)
    /\ here \in Roots \cup {0}
    /\ session \in [thread : 0..Len(threads), trusted : BOOLEAN]
    /\ guidance.docs \subseteq Sources
    /\ active \subseteq Activation
    /\ Up => /\ Open
             /\ root \in Roots
             /\ skills \in [of : Roots, home : 1..Len(threads), trusted : BOOLEAN]
    /\ ~Up => ~Open /\ active = {} /\ servers = {}

\* The project of the thread is that of the directory; what it was trusted
\* with, it is trusted with still.
TrustInv ==
    Up /\ inPlace =>
        /\ skills.of = here /\ skills.home = session.thread
        /\ session.trusted => Trusted(here)
        /\ ~session.trusted =>
             /\ guidance.docs = OwnDocs
             /\ ~skills.trusted
             /\ \A s \in servers : s.scope # "project"

ConsentInv == launches \subseteq consents /\ LaunchConsent

Single(kept) == \A a, b \in kept : SameContent(a, b) => a = b

\* The snapshots a process writes to are those it began with.
KeptInv ==
    /\ \A t \in DOMAIN stored : Single(stored[t])
    /\ Single(active)
    /\ Up => stored[skills.home] \subseteq active

-----------------------------------------------------------------------------
(* Guidance and servers.                                                   *)

\* A loader that skips a project loads what there is without one.
LEMMA UntrustedLoads ==
    ASSUME NEW r
    PROVE  Loaded(r, FALSE) = OwnDocs
BY DEF Loaded, OwnDocs

LEMMA WithSources ==
    ASSUME NEW acc, acc.docs \subseteq Sources, NEW s \in Sources
    PROVE  With(acc, s).docs \subseteq Sources
BY DEF With

LEMMA LoadedSources ==
    ASSUME NEW r, NEW trusted
    PROVE  Loaded(r, trusted) \subseteq Sources
<1>0. PICK read \in SUBSET Sources : Loaded(r, trusted) = Gathered(read)
  BY DEF Loaded
<1> DEFINE Take(acc, s) == IF s \in read THEN With(acc, s) ELSE acc
<1>1. ASSUME NEW acc, acc.docs \subseteq Sources, NEW s \in Sources
      PROVE  Take(acc, s).docs \subseteq Sources
  BY <1>1, WithSources
<1> DEFINE main == Take(Take(Take(Nothing, "admin"), "user"), "project")
<1>2. Nothing.docs \subseteq Sources
      /\ {"admin", "user", "project", "admin_rule", "user_rule", "project_rule"} \subseteq Sources
  BY DEF Nothing, Sources
<1>3. Loaded(r, trusted) = Take(Take(Take(main, "admin_rule"), "user_rule"), "project_rule").docs
  BY <1>0 DEF Gathered
<1> HIDE DEF Take
<1>4. Take(Nothing, "admin").docs \subseteq Sources
  BY <1>1, <1>2
<1>5. Take(Take(Nothing, "admin"), "user").docs \subseteq Sources
  BY <1>1, <1>2, <1>4
<1>6. main.docs \subseteq Sources
  BY <1>1, <1>2, <1>5
<1> HIDE DEF main
<1>7. Take(main, "admin_rule").docs \subseteq Sources
  BY <1>1, <1>2, <1>6
<1>8. Take(Take(main, "admin_rule"), "user_rule").docs \subseteq Sources
  BY <1>1, <1>2, <1>7
<1>9. Take(Take(Take(main, "admin_rule"), "user_rule"), "project_rule").docs \subseteq Sources
  BY <1>1, <1>2, <1>8
<1> QED BY <1>3, <1>9

\* The configuration in use is one of those the assumption describes.
LEMMA ConfType ==
    ASSUME conf \in Confs
    PROVE  /\ conf.rows \in [Scopes -> Rows]
           /\ conf.admin \in {"absent", "valid", "invalid"}
BY ProjectAssumption DEF ProjectAssumption

\* Only a trusted project that has files provides the server.
LEMMA ProjectResolved ==
    ASSUME NEW r, NEW trusted, Resolved(r, trusted).scope = "project"
    PROVE  trusted /\ version[r] # 0
<1> DEFINE Over(won, scope) == Parsed(won, r, scope, trusted)
           admin == IF conf.admin = "valid" THEN Over(NoServer, "admin") ELSE NoServer
           own == Over(Over(admin, "inline"), "user")
           won == Over(Over(own, "project"), "local")
<1>1. ASSUME NEW w, NEW s \in {"admin", "inline", "user", "local"}, w.scope # "project"
      PROVE  Over(w, s).scope # "project"
  BY <1>1 DEF Parsed
<1>2. ASSUME NEW w, w.scope # "project", Over(w, "project").scope = "project"
      PROVE  trusted /\ version[r] # 0
  BY <1>2 DEF Parsed, Row, NoServer
<1>3. ASSUME NEW w, Over(w, "local").scope = "project"
      PROVE  w.scope = "project"
  BY <1>3 DEF Parsed
<1>4. NoServer.scope # "project"
  BY DEF NoServer
<1>5. Resolved(r, trusted) \in {NoServer, won}
  BY DEF Resolved
<1> HIDE DEF Over
<1>6. admin.scope # "project"
  BY <1>1, <1>4
<1>7. own.scope # "project"
  BY <1>1, <1>6
<1> HIDE DEF own
<1>8. won.scope = "project"
  BY <1>4, <1>5
<1> QED BY <1>2, <1>3, <1>7, <1>8

\* The precedence, highest last.
LEMMA Ranks ==
    /\ Rank("inline") = 1 /\ Rank("user") = 2 /\ Rank("project") = 3
    /\ Rank("local") = 4 /\ Rank("admin") = 5
<1> DEFINE q == <<"inline", "user", "project", "local", "admin">>
<1>1. \A i \in 1..5 : i = 1 \/ i = 2 \/ i = 3 \/ i = 4 \/ i = 5
  OBVIOUS
<1>2. q[1] = "inline" /\ q[2] = "user" /\ q[3] = "project" /\ q[4] = "local" /\ q[5] = "admin"
  OBVIOUS
<1>3. \A scope : Rank(scope) = CHOOSE i \in 1..5 : q[i] = scope
  BY DEF Rank
<1> HIDE DEF q
<1>4. \A i \in 1..5 : /\ q[i] = "inline" <=> i = 1
                      /\ q[i] = "user" <=> i = 2
                      /\ q[i] = "project" <=> i = 3
                      /\ q[i] = "local" <=> i = 4
                      /\ q[i] = "admin" <=> i = 5
  BY <1>1, <1>2
<1>5. Rank("inline") = 1
  BY <1>3, <1>4
<1>6. Rank("user") = 2
  BY <1>3, <1>4
<1>7. Rank("project") = 3
  BY <1>3, <1>4
<1>8. Rank("local") = 4
  BY <1>3, <1>4
<1>9. Rank("admin") = 5
  BY <1>3, <1>4
<1> QED BY <1>5, <1>6, <1>7, <1>8, <1>9

\* The scopes in the order of their precedence, with the top one's row.
LEMMA ResolverChooses ==
    ASSUME conf \in Confs, NEW r, NEW trusted \in BOOLEAN
    PROVE  Resolved(r, trusted) = Reference(r, trusted)
<1> DEFINE Sound(s) == Row(r, s) \in {"stdio", "http"} /\ (s = "admin" => conf.admin = "valid")
           valid == {s \in Scopes : Sound(s)}
           top == CHOOSE s \in valid : \A x \in valid : Rank(x) <= Rank(s)
           Denied(row) == conf.admin = "valid" /\ row \in conf.denies
           Over(won, scope) == Parsed(won, r, scope, trusted)
           admin == IF conf.admin = "valid" THEN Over(NoServer, "admin") ELSE NoServer
           won == Over(Over(Over(Over(admin, "inline"), "user"), "project"), "local")
<1>1. Resolved(r, trusted) = IF conf.admin = "invalid" \/ Denied(won.row) THEN NoServer ELSE won
  BY DEF Resolved
<1>2. Reference(r, trusted) = IF \/ valid = {} \/ conf.admin = "invalid"
                                 \/ (top = "project" /\ ~trusted) \/ Denied(Row(r, top))
                              THEN NoServer ELSE [scope |-> top, row |-> Row(r, top)]
  BY DEF Reference
\* One scope over the ones before it.
<1>3. ASSUME NEW w, NEW s \in Scopes, w.scope = "admin" => s # "admin"
      PROVE  Over(w, s) = IF w.scope = "admin" \/ Row(r, s) \notin {"stdio", "http"} THEN w
                          ELSE IF s = "project" /\ ~trusted THEN NoServer
                          ELSE [scope |-> s, row |-> Row(r, s)]
  <2>1. Row(r, s) \in Rows
    BY ConfType DEF Row, Rows
  <2>2. Row(r, s) \in {"none", "bad"} <=> Row(r, s) \notin {"stdio", "http"}
    BY <2>1 DEF Rows
  <2> QED BY <2>2 DEF Parsed
<1>4. \A s : s \in valid <=> s \in Scopes /\ Sound(s)
  OBVIOUS
<1> HIDE DEF valid, Over
<1>5. ASSUME NEW s \in valid, \A x \in valid : Rank(x) <= Rank(s)
      PROVE  top = s
  <2>1. \A x \in valid : x \in Scopes
    BY <1>4
  <2>2. \A x, y \in Scopes : Rank(x) <= Rank(y) /\ Rank(y) <= Rank(x) => x = y
    BY Ranks DEF Scopes
  <2>3. \E x \in valid : \A y \in valid : Rank(y) <= Rank(x)
    BY <1>5
  <2>4. top \in valid /\ \A x \in valid : Rank(x) <= Rank(top)
    BY <2>3
  <2> HIDE DEF top
  <2> QED BY <1>5, <2>1, <2>2, <2>4
<1> HIDE DEF top
<1>6. {"admin", "inline", "user", "project", "local"} = Scopes /\ NoServer.scope = "none" /\ NoServer.row = "none"
  BY DEF Scopes, NoServer
<1>7. CASE Sound("admin")
  <2>1. top = "admin" /\ valid # {}
    BY <1>4, <1>5, <1>6, <1>7, Ranks
  <2>2. admin = [scope |-> "admin", row |-> Row(r, "admin")]
    BY <1>3, <1>6, <1>7
  <2>3. won = admin
    BY <1>3, <1>6, <2>2
  <2> QED BY <1>1, <1>2, <2>1, <2>2, <2>3
<1>8. CASE ~Sound("admin")
  <2>1. admin = NoServer
    BY <1>3, <1>6, <1>8
  <2> DEFINE a == Over(admin, "inline")
             b == Over(a, "user")
             c == Over(b, "project")
  <2>2. a = IF Sound("inline") THEN [scope |-> "inline", row |-> Row(r, "inline")] ELSE NoServer
    BY <1>3, <1>6, <2>1
  <2> HIDE DEF a
  <2>3. a.scope # "admin"
    BY <1>6, <2>2
  <2>4. b = IF Sound("user") THEN [scope |-> "user", row |-> Row(r, "user")] ELSE a
    BY <1>3, <1>6, <2>3
  <2> HIDE DEF b
  <2>5. b.scope # "admin"
    BY <2>3, <2>4
  <2>6. c = IF Sound("project") THEN IF trusted THEN [scope |-> "project", row |-> Row(r, "project")] ELSE NoServer
            ELSE b
    BY <1>3, <1>6, <2>5
  <2> HIDE DEF c
  <2>7. c.scope # "admin"
    BY <1>6, <2>5, <2>6
  <2>8. won = IF Sound("local") THEN [scope |-> "local", row |-> Row(r, "local")] ELSE c
    BY <1>3, <1>6, <2>7 DEF a, b, c
  <2> HIDE DEF won
  <2>9. CASE Sound("local")
    <3>1. top = "local" /\ valid # {}
      BY <1>4, <1>5, <1>6, <1>8, <2>9, Ranks
    <3> QED BY <1>1, <1>2, <2>8, <2>9, <3>1
  <2>10. CASE ~Sound("local") /\ Sound("project")
    <3>1. top = "project" /\ valid # {}
      BY <1>4, <1>5, <1>6, <1>8, <2>10, Ranks
    <3> QED BY <1>1, <1>2, <2>6, <2>8, <2>10, <3>1
  <2>11. CASE ~Sound("local") /\ ~Sound("project") /\ Sound("user")
    <3>1. top = "user" /\ valid # {}
      BY <1>4, <1>5, <1>6, <1>8, <2>11, Ranks
    <3> QED BY <1>1, <1>2, <2>4, <2>6, <2>8, <2>11, <3>1
  <2>12. CASE ~Sound("local") /\ ~Sound("project") /\ ~Sound("user") /\ Sound("inline")
    <3>1. top = "inline" /\ valid # {}
      BY <1>4, <1>5, <1>6, <1>8, <2>12, Ranks
    <3> QED BY <1>1, <1>2, <2>2, <2>4, <2>6, <2>8, <2>12, <3>1
  <2>13. CASE ~Sound("local") /\ ~Sound("project") /\ ~Sound("user") /\ ~Sound("inline")
    <3>1. valid = {}
      BY <1>4, <1>6, <1>8, <2>13
    <3> QED BY <1>1, <1>2, <2>2, <2>4, <2>6, <2>8, <2>13, <3>1
  <2> QED BY <2>9, <2>10, <2>11, <2>12, <2>13
<1> QED BY <1>7, <1>8

\* What starts is of the project asked for; a project's stdio server was
\* allowed, now or before.
LEMMA ServersStarted ==
    ASSUME TypeInv, NEW r \in Roots, NEW trusted \in BOOLEAN, StartServers(r, trusted)
    PROVE  /\ launches' \subseteq Roots \X (1..MaxVersion)
           /\ consents \subseteq consents'
           /\ launches \subseteq consents => launches' \subseteq consents'
           /\ \A s \in servers' :
                /\ s.of = r
                /\ s.scope = "project" => trusted
                /\ s.scope = "project" /\ s.row = "stdio" /\ launches \subseteq consents =>
                     <<s.of, s.version>> \in consents'
<1> DEFINE won == Resolved(r, trusted)
           server == [scope |-> won.scope, row |-> won.row, of |-> r, version |-> version[r]]
           key == <<r, version[r]>>
<1>1. won.scope = "project" => trusted /\ version[r] # 0
  BY ProjectResolved
<1>2. won.scope = "project" => key \in Roots \X (1..MaxVersion)
  BY <1>1, ProjectAssumption DEF TypeInv
<1>3. launches \subseteq Roots \X (1..MaxVersion)
  BY DEF TypeInv
<1>4. \/ servers' = {} /\ UNCHANGED <<launches, consents>>
      \/ /\ won.scope # "project" \/ won.row # "stdio" \/ key \in launches
         /\ servers' = {server} /\ UNCHANGED <<launches, consents>>
      \/ /\ won.scope = "project" /\ servers' = {server}
         /\ launches' = launches \cup {key} /\ consents' = consents \cup {key}
  BY DEF StartServers, Approved
<1>5. server.scope = won.scope /\ server.row = won.row /\ <<server.of, server.version>> = key /\ server.of = r
  OBVIOUS
<1> HIDE DEF won, server, key
<1> QED BY <1>1, <1>2, <1>3, <1>4, <1>5

-----------------------------------------------------------------------------
(* Steps.                                                                  *)

\* An answer is remembered where the question was asked.
LEMMA AnswerRemembered ==
    ASSUME TypeInv, NEW r \in Roots, NEW answer \in Answers(r), Remember(r, answer)
    PROVE  /\ trustFile' \in [Roots -> {"unknown", "trusted", "untrusted"}]
           /\ Yes(answer) \in BOOLEAN
           /\ Yes(answer) => Trusted(r)'
<1>1. answer \in {"no_project", "stored_yes", "stored_no", "once", "always", "never"}
      /\ (answer = "stored_yes" => trustFile[r] = "trusted")
  BY DEF Answers
<1>2. /\ trustFile' = IF answer = "always" THEN [trustFile EXCEPT ![r] = "trusted"]
                      ELSE IF answer = "never" THEN [trustFile EXCEPT ![r] = "untrusted"]
                      ELSE trustFile
      /\ answer = "once" => once' = once \cup {r}
  BY <1>1 DEF Remember
<1>3. trustFile \in [Roots -> {"unknown", "trusted", "untrusted"}]
  BY DEF TypeInv
<1> QED BY <1>1, <1>2, <1>3 DEF Yes, Trusted

\* The files of threads, with one thread more.
LEMMA ThreadAdded ==
    ASSUME TypeInv, NEW r \in Roots, threads' = Append(threads, r), stored' = Append(stored, {}),
           Len(threads) < MaxThreads
    PROVE  /\ threads' \in Seq(Roots) /\ Len(threads') = Len(threads) + 1 /\ Len(threads') <= MaxThreads
           /\ stored' \in Seq(SUBSET Activation) /\ Len(stored') = Len(threads')
           /\ Len(threads) + 1 \in 1..Len(threads')
           /\ DOMAIN stored = 1..Len(threads) /\ DOMAIN stored' = 1..(Len(threads) + 1)
           /\ \A t \in DOMAIN stored : stored'[t] = stored[t]
           /\ stored'[Len(threads) + 1] = {}
<1>1. /\ threads \in Seq(Roots) /\ stored \in Seq(SUBSET Activation) /\ Len(stored) = Len(threads)
      /\ Len(threads) \in Nat /\ MaxThreads \in Nat
  BY ProjectAssumption DEF TypeInv
<1>2. stored' \in Seq(SUBSET Activation) /\ Len(stored') = Len(stored) + 1
  BY <1>1
<1>3. DOMAIN stored = 1..Len(threads) /\ DOMAIN stored' = 1..(Len(threads) + 1)
  BY <1>1, <1>2
<1>4. (\A t \in DOMAIN stored : stored'[t] = stored[t]) /\ stored'[Len(threads) + 1] = {}
  BY <1>1, <1>3
<1>5. threads' \in Seq(Roots) /\ Len(threads') = Len(threads) + 1
  BY <1>1
<1> QED BY <1>1, <1>2, <1>3, <1>4, <1>5

LEMMA StoredType ==
    ASSUME TypeInv
    PROVE  /\ DOMAIN stored = 1..Len(threads) /\ DOMAIN threads = 1..Len(threads)
           /\ Len(threads) \in Nat
           /\ \A t \in 1..Len(threads) : threads[t] \in Roots /\ stored[t] \subseteq Activation
<1>1. /\ threads \in Seq(Roots) /\ stored \in Seq(SUBSET Activation) /\ Len(stored) = Len(threads)
  BY DEF TypeInv
<1>2. \A t \in 1..Len(threads) : threads[t] \in Roots
  BY <1>1
<1>3. \A t \in 1..Len(threads) : stored[t] \in SUBSET Activation
  BY <1>1
<1> QED BY <1>1, <1>2, <1>3

\* A process begins, in a directory and with a thread.
Begins(r, t, trusted) ==
    /\ r \in Roots /\ t \in 1..Len(threads') /\ trusted \in BOOLEAN
    /\ ~Up /\ here' = r /\ session' = [thread |-> t, trusted |-> trusted]
    /\ trusted => Trusted(r)'

LEMMA CodeBegins ==
    ASSUME TypeInv, Code
    PROVE  \E r \in Roots, trusted \in BOOLEAN :
              /\ Begins(r, Len(threads) + 1, trusted)
              /\ InitializeAll(r, Len(threads) + 1, trusted) /\ StartServers(r, trusted)
              /\ threads' = Append(threads, r) /\ stored' = Append(stored, {})
              /\ Len(threads) < MaxThreads
              /\ active' = {} /\ inPlace' = TRUE
              /\ trustFile' \in [Roots -> {"unknown", "trusted", "untrusted"}]
              /\ UNCHANGED <<conf, version>>
<1>1. PICK r \in Roots : \E answer \in Answers(r) :
          LET thread == Len(threads) + 1
          IN  /\ here' = r
              /\ Remember(r, answer)
              /\ threads' = Append(threads, r)
              /\ stored' = Append(stored, {})
              /\ session' = [thread |-> thread, trusted |-> Yes(answer)]
              /\ InitializeAll(r, thread, Yes(answer))
              /\ StartServers(r, Yes(answer))
  BY DEF Code
<1>2. PICK answer \in Answers(r) :
         /\ here' = r /\ Remember(r, answer)
         /\ threads' = Append(threads, r) /\ stored' = Append(stored, {})
         /\ session' = [thread |-> Len(threads) + 1, trusted |-> Yes(answer)]
         /\ InitializeAll(r, Len(threads) + 1, Yes(answer))
         /\ StartServers(r, Yes(answer))
  BY <1>1
<1>3. /\ trustFile' \in [Roots -> {"unknown", "trusted", "untrusted"}]
      /\ Yes(answer) \in BOOLEAN /\ (Yes(answer) => Trusted(r)')
  BY <1>2, AnswerRemembered
<1>4. /\ ~Up /\ Len(threads) < MaxThreads /\ active' = {} /\ inPlace' = TRUE
      /\ UNCHANGED <<conf, version>>
  BY DEF Code
<1>5. Begins(r, Len(threads) + 1, Yes(answer))
  BY <1>2, <1>3, <1>4, ThreadAdded DEF Begins
<1> QED BY <1>2, <1>3, <1>4, <1>5

LEMMA ResumeBegins ==
    ASSUME TypeInv, ResumeThread
    PROVE  \E r \in Roots, t \in DOMAIN threads, trusted \in BOOLEAN :
              /\ Begins(r, t, trusted)
              /\ InitializeAll(threads[t], t, trusted) /\ StartServers(threads[t], trusted)
              /\ active' = stored[t] /\ inPlace' = (r = threads[t])
              /\ trustFile' \in [Roots -> {"unknown", "trusted", "untrusted"}]
              /\ UNCHANGED <<conf, version, threads, stored>>
<1>1. PICK r \in Roots, t \in DOMAIN threads : \E answer \in Answers(r) :
          /\ here' = r
          /\ Remember(r, answer)
          /\ session' = [thread |-> t, trusted |-> Yes(answer)]
          /\ InitializeAll(threads[t], t, Yes(answer))
          /\ active' = Restored(t)
          /\ StartServers(threads[t], Yes(answer))
          /\ inPlace' = (r = threads[t])
  BY DEF ResumeThread
<1>2. PICK answer \in Answers(r) :
         /\ here' = r /\ Remember(r, answer)
         /\ session' = [thread |-> t, trusted |-> Yes(answer)]
         /\ InitializeAll(threads[t], t, Yes(answer))
         /\ active' = stored[t]
         /\ StartServers(threads[t], Yes(answer))
         /\ inPlace' = (r = threads[t])
  BY <1>1 DEF Restored
<1>3. /\ trustFile' \in [Roots -> {"unknown", "trusted", "untrusted"}]
      /\ Yes(answer) \in BOOLEAN /\ (Yes(answer) => Trusted(r)')
  BY <1>2, AnswerRemembered
<1>4. ~Up /\ UNCHANGED <<conf, version, threads, stored>>
  BY DEF ResumeThread
<1>5. t \in 1..Len(threads')
  BY <1>4, StoredType
<1>6. Begins(r, t, Yes(answer))
  BY <1>2, <1>3, <1>4, <1>5 DEF Begins
<1> QED BY <1>2, <1>3, <1>4, <1>6

LEMMA NewThreadStarts ==
    ASSUME TypeInv, NewThread
    PROVE  \E trusted \in BOOLEAN :
              /\ Up /\ here \in Roots
              /\ session' = [thread |-> Len(threads) + 1, trusted |-> trusted]
              /\ StartServers(here, trusted)
              /\ threads' = Append(threads, here) /\ stored' = Append(stored, {})
              /\ Len(threads) < MaxThreads
              /\ root' = here /\ inPlace' = FALSE
              /\ trustFile' \in [Roots -> {"unknown", "trusted", "untrusted"}]
              /\ UNCHANGED <<conf, version, here, guidance, skills, active>>
<1>1. PICK answer \in Answers(here) :
         /\ Remember(here, answer)
         /\ session' = [thread |-> Len(threads) + 1, trusted |-> Yes(answer)]
         /\ StartServers(here, Yes(answer))
  BY DEF NewThread
<1>2. Up /\ here \in Roots
  BY DEF NewThread, TypeInv, Up
<1>3. trustFile' \in [Roots -> {"unknown", "trusted", "untrusted"}] /\ Yes(answer) \in BOOLEAN
  BY <1>1, <1>2, AnswerRemembered
<1> QED BY <1>1, <1>2, <1>3 DEF NewThread

\* What is activated is not active yet; it is written for the thread whose
\* snapshots are in use, or not at all.
LEMMA ActivateWrites ==
    ASSUME TypeInv, Activate
    PROVE  \E a \in Activation :
              /\ Up /\ skills.home \in DOMAIN stored
              /\ a.of = skills.of
              /\ \A b \in active : ~SameContent(b, a)
              /\ active' = active \cup {a}
              /\ stored' \in {stored, [stored EXCEPT ![skills.home] = @ \cup {a}]}
              /\ UNCHANGED <<conf, version, trustFile, launches, threads, here, session, root, guidance,
                             skills, servers, once, consents, inPlace>>
<1>1. PICK skill \in Resolvable, id \in FreshId :
          LET a == [id |-> id, skill |-> skill, of |-> skills.of,
                    version |-> IF skill = "project" THEN version[skills.of] ELSE 0]
          IN  /\ \A b \in active : ~SameContent(b, a)
              /\ active' = active \cup {a}
              /\ \/ stored' = [stored EXCEPT ![skills.home] = @ \cup {a}]
                 \/ UNCHANGED stored
  BY DEF Activate
<1>2. /\ Up /\ skills.of \in Roots /\ skills.home \in DOMAIN stored
  BY StoredType DEF TypeInv, Activate
<1>3. /\ skill \in {"user", "project"} /\ id \in Nat /\ version[skills.of] \in Nat
  <2>1. MaxSkills \in Nat /\ MaxVersion \in Nat
    BY ProjectAssumption DEF ProjectAssumption
  <2>2. skill \in {"user", "project"}
    BY DEF Resolvable
  <2>3. id \in Nat
    BY <2>1 DEF FreshId
  <2>4. version[skills.of] \in 0..MaxVersion
    BY <1>2 DEF TypeInv
  <2> QED BY <2>1, <2>2, <2>3, <2>4
<1> DEFINE a == [id |-> id, skill |-> skill, of |-> skills.of,
                 version |-> IF skill = "project" THEN version[skills.of] ELSE 0]
<1>4. a \in Activation /\ a.of = skills.of
  BY <1>2, <1>3 DEF Activation
<1>5. /\ \A b \in active : ~SameContent(b, a)
      /\ active' = active \cup {a}
      /\ stored' \in {stored, [stored EXCEPT ![skills.home] = @ \cup {a}]}
  BY <1>1
<1> HIDE DEF a
<1>6. UNCHANGED <<conf, version, trustFile, launches, threads, here, session, root, guidance,
                  skills, servers, once, consents, inPlace>>
  BY DEF Activate, ghosts
<1> QED BY <1>2, <1>4, <1>5, <1>6

\* The process is gone.
LEMMA EndClears ==
    ASSUME TypeInv, End
    PROVE  /\ TypeInv' /\ ~Up'
           /\ UNCHANGED <<launches, consents, stored>> /\ active' = {} /\ servers' = {}
  BY DEF TypeInv, End, Up, Open, NoSession, NoGuidance, fileVars

LEMMA InitInv ==
    ASSUME Init
    PROVE  TypeInv /\ TrustInv /\ ConsentInv /\ KeptInv
<1>1. /\ conf \in Confs /\ launches = {} /\ threads = <<>> /\ stored = <<>>
      /\ here = 0 /\ session = NoSession /\ guidance = NoGuidance
      /\ active = {} /\ servers = {} /\ consents = {} /\ inPlace = FALSE
      /\ version = [r \in Roots |-> 0] /\ trustFile = [r \in Roots |-> "unknown"]
  BY DEF Init
<1>2. MaxThreads \in Nat /\ MaxVersion \in Nat
  BY ProjectAssumption DEF ProjectAssumption
<1>3. version \in [Roots -> 0..MaxVersion] /\ trustFile \in [Roots -> {"unknown", "trusted", "untrusted"}]
  BY <1>1, <1>2
<1>4. /\ threads \in Seq(Roots) /\ Len(threads) = 0 /\ stored \in Seq(SUBSET Activation) /\ Len(stored) = 0
      /\ DOMAIN stored = {}
  BY <1>1
<1>5. session \in [thread : 0..0, trusted : BOOLEAN] /\ session.thread = 0 /\ guidance.docs = {}
  BY <1>1 DEF NoSession, NoGuidance
<1>6. TypeInv
  BY <1>1, <1>2, <1>3, <1>4, <1>5 DEF TypeInv, Up, Open
<1>7. TrustInv /\ ConsentInv /\ KeptInv
  BY <1>1, <1>4 DEF TrustInv, ConsentInv, LaunchConsent, KeptInv, Single, Up
<1> QED BY <1>6, <1>7

LEMMA TypeInvStep ==
    ASSUME TypeInv, [Next]_vars
    PROVE  TypeInv'
<1>1. CASE Code
  <2>1. PICK r \in Roots, trusted \in BOOLEAN :
           /\ Begins(r, Len(threads) + 1, trusted)
           /\ InitializeAll(r, Len(threads) + 1, trusted) /\ StartServers(r, trusted)
           /\ threads' = Append(threads, r) /\ stored' = Append(stored, {})
           /\ Len(threads) < MaxThreads
           /\ active' = {}
           /\ trustFile' \in [Roots -> {"unknown", "trusted", "untrusted"}]
           /\ UNCHANGED <<conf, version>>
    BY <1>1, CodeBegins
  <2>2. launches' \subseteq Roots \X (1..MaxVersion)
    BY <2>1, ServersStarted
  <2>3. /\ threads' \in Seq(Roots) /\ Len(threads') = Len(threads) + 1 /\ Len(threads') <= MaxThreads
        /\ stored' \in Seq(SUBSET Activation) /\ Len(stored') = Len(threads')
        /\ Len(threads) \in Nat
    BY <2>1, ThreadAdded, StoredType
  <2>4. Loaded(r, trusted)  \subseteq Sources
    BY LoadedSources
  <2>5. guidance'.docs \subseteq Sources
    BY <2>1, <2>4 DEF InitializeAll, Discovered
  <2>6. here' \in Roots /\ here' # 0
    BY <2>1, ProjectAssumption DEF Begins, ProjectAssumption
  <2>7. session' \in [thread : 0..Len(threads'), trusted : BOOLEAN] /\ session'.thread # 0
    BY <2>1, <2>3 DEF Begins
  <2>8. root' \in Roots /\ skills' \in [of : Roots, home : 1..Len(threads'), trusted : BOOLEAN]
    BY <2>1, <2>3 DEF InitializeAll
  <2> QED BY <2>1, <2>2, <2>3, <2>5, <2>6, <2>7, <2>8 DEF TypeInv, Up, Open
<1>2. CASE ResumeThread
  <2>1. PICK r \in Roots, t \in DOMAIN threads, trusted \in BOOLEAN :
           /\ Begins(r, t, trusted)
           /\ InitializeAll(threads[t], t, trusted) /\ StartServers(threads[t], trusted)
           /\ active' = stored[t]
           /\ trustFile' \in [Roots -> {"unknown", "trusted", "untrusted"}]
           /\ UNCHANGED <<conf, version, threads, stored>>
    BY <1>2, ResumeBegins
  <2>2. threads[t] \in Roots /\ stored[t] \subseteq Activation /\ t \in 1..Len(threads) /\ Len(threads) \in Nat
    BY StoredType
  <2>3. launches' \subseteq Roots \X (1..MaxVersion)
    BY <2>1, <2>2, ServersStarted
  <2>4. Loaded(threads[t], trusted) \subseteq Sources
    BY LoadedSources
  <2>5. guidance'.docs \subseteq Sources
    BY <2>1, <2>4 DEF InitializeAll, Discovered
  <2>6. here' \in Roots /\ here' # 0
    BY <2>1, ProjectAssumption DEF Begins, ProjectAssumption
  <2>7. session' \in [thread : 0..Len(threads'), trusted : BOOLEAN] /\ session'.thread # 0
    BY <2>1, <2>2 DEF Begins
  <2>8. root' \in Roots /\ skills' \in [of : Roots, home : 1..Len(threads'), trusted : BOOLEAN]
    BY <2>1, <2>2 DEF InitializeAll
  <2> QED BY <2>1, <2>2, <2>3, <2>5, <2>6, <2>7, <2>8 DEF TypeInv, Up, Open
<1>3. CASE NewThread
  <2>1. PICK trusted \in BOOLEAN :
           /\ Up /\ here \in Roots
           /\ session' = [thread |-> Len(threads) + 1, trusted |-> trusted]
           /\ StartServers(here, trusted)
           /\ threads' = Append(threads, here) /\ stored' = Append(stored, {})
           /\ Len(threads) < MaxThreads
           /\ root' = here
           /\ trustFile' \in [Roots -> {"unknown", "trusted", "untrusted"}]
           /\ UNCHANGED <<conf, version, here, guidance, skills, active>>
    BY <1>3, NewThreadStarts
  <2>2. launches' \subseteq Roots \X (1..MaxVersion)
    BY <2>1, ServersStarted
  <2>3. /\ threads' \in Seq(Roots) /\ Len(threads') = Len(threads) + 1 /\ Len(threads') <= MaxThreads
        /\ stored' \in Seq(SUBSET Activation) /\ Len(stored') = Len(threads')
        /\ Len(threads) \in Nat
    BY <2>1, ThreadAdded, StoredType
  <2>4. session' \in [thread : 0..Len(threads'), trusted : BOOLEAN] /\ session'.thread # 0
    BY <2>1, <2>3
  <2>5. skills' \in [of : Roots, home : 1..Len(threads'), trusted : BOOLEAN]
    <3>1. skills' = skills /\ skills \in [of : Roots, home : 1..Len(threads), trusted : BOOLEAN]
      BY <2>1 DEF TypeInv
    <3>2. 1..Len(threads) \subseteq 1..Len(threads')
      BY <2>3
    <3> QED BY <3>1, <3>2
  <2> QED BY <2>1, <2>2, <2>3, <2>4, <2>5 DEF TypeInv, Up, Open
<1>4. CASE Exit \/ ReloadFails
  BY <1>4, EndClears DEF Exit, ReloadFails
<1>5. CASE ReloadGuidance
  <2>1. Loaded(here, session.trusted) \subseteq Sources
    BY LoadedSources
  <2>2. guidance'.docs \subseteq Sources
    BY <1>5, <2>1 DEF ReloadGuidance, Discovered
  <2> QED BY <1>5, <2>2 DEF ReloadGuidance, TypeInv, fileVars, ghosts, Up, Open
<1>6. CASE ReloadSkills
  <2>1. Up /\ Open /\ here \in Roots /\ session.thread \in 1..Len(threads) /\ session.trusted \in BOOLEAN
    BY <1>6, StoredType DEF ReloadSkills, TypeInv, Up, Open
  <2>2. skills' \in [of : Roots, home : 1..Len(threads), trusted : BOOLEAN]
    BY <1>6, <2>1 DEF ReloadSkills
  <2>3. active' \subseteq Activation
    BY <1>6, <2>1, StoredType DEF ReloadSkills, Restored
  <2> QED BY <1>6, <2>1, <2>2, <2>3 DEF ReloadSkills, TypeInv, fileVars, ghosts, Up, Open
<1>7. CASE Activate
  <2>1. PICK a \in Activation :
           /\ Up /\ skills.home \in DOMAIN stored
           /\ active' = active \cup {a}
           /\ stored' \in {stored, [stored EXCEPT ![skills.home] = @ \cup {a}]}
           /\ UNCHANGED <<conf, version, trustFile, launches, threads, here, session, root, guidance,
                          skills, servers>>
    BY <1>7, ActivateWrites
  <2>2. stored' \in Seq(SUBSET Activation) /\ Len(stored') = Len(stored)
    <3>1. stored \in Seq(SUBSET Activation)
      BY DEF TypeInv
    <3>2. stored[skills.home] \cup {a} \in SUBSET Activation
      BY <2>1, <3>1
    <3> QED BY <2>1, <3>1, <3>2
  <2> QED BY <2>1, <2>2 DEF TypeInv, Up, Open
<1>8. CASE Edit
  <2>1. PICK r \in Roots : version[r] < MaxVersion /\ version' = [version EXCEPT ![r] = @ + 1]
    BY <1>8 DEF Edit
  <2>2. version \in [Roots -> 0..MaxVersion] /\ MaxVersion \in Nat
    BY ProjectAssumption DEF TypeInv, ProjectAssumption
  <2>3. version[r] + 1 \in 0..MaxVersion
    BY <2>1, <2>2
  <2>4. version' \in [Roots -> 0..MaxVersion]
    BY <2>1, <2>2, <2>3
  <2> QED BY <1>8, <2>4 DEF Edit, TypeInv, managerVars, ghosts, Up, Open
<1>9. CASE UNCHANGED vars
  BY <1>9 DEF vars, fileVars, managerVars, ghosts, TypeInv, Up, Open
<1> QED BY <1>1, <1>2, <1>3, <1>4, <1>5, <1>6, <1>7, <1>8, <1>9 DEF Next

\* A process that begins in the directory of its thread.
LEMMA BegunInPlace ==
    ASSUME NEW r, NEW t, NEW trusted, Begins(r, t, trusted), InitializeAll(r, t, trusted),
           StartServers(r, trusted), TypeInv
    PROVE  TrustInv'
<1>1. here' = r /\ session' = [thread |-> t, trusted |-> trusted] /\ r \in Roots /\ trusted \in BOOLEAN
      /\ (trusted => Trusted(r)')
  BY DEF Begins
<1>2. skills' = [of |-> r, home |-> t, trusted |-> trusted] /\ guidance'.docs = Loaded(r, trusted)
  BY DEF InitializeAll, Discovered
<1>3. trusted => Trusted(here)'
  BY <1>1 DEF Trusted
<1>4. ~trusted => guidance'.docs = OwnDocs /\ \A s \in servers' : s.scope # "project"
  <2>1. ~trusted => Loaded(r, trusted) = OwnDocs
    BY <1>1, UntrustedLoads
  <2> QED BY <1>1, <1>2, <2>1, ServersStarted
<1>5. OwnDocs' = OwnDocs
  BY DEF OwnDocs
<1> QED BY <1>1, <1>2, <1>3, <1>4, <1>5 DEF TrustInv

LEMMA TrustInvStep ==
    ASSUME TypeInv, TrustInv, [Next]_vars
    PROVE  TrustInv'
<1>0. OwnDocs' = OwnDocs
  BY DEF OwnDocs
<1>1. CASE Code
  BY <1>1, CodeBegins, BegunInPlace
<1>2. CASE ResumeThread
  <2>1. PICK r \in Roots, t \in DOMAIN threads, trusted \in BOOLEAN :
           /\ Begins(r, t, trusted)
           /\ InitializeAll(threads[t], t, trusted) /\ StartServers(threads[t], trusted)
           /\ inPlace' = (r = threads[t])
    BY <1>2, ResumeBegins
  <2>2. CASE r = threads[t]
    BY <2>1, <2>2, BegunInPlace
  <2>3. CASE r # threads[t]
    BY <2>1, <2>3 DEF TrustInv
  <2> QED BY <2>2, <2>3
<1>3. CASE NewThread
  BY <1>3, NewThreadStarts DEF TrustInv
<1>4. CASE Exit \/ ReloadFails
  BY <1>4, EndClears DEF Exit, ReloadFails, TrustInv
<1>5. CASE ReloadGuidance
  <2>1. ~session.trusted => Loaded(here, session.trusted) = OwnDocs
    <3>1. session.trusted \in BOOLEAN
      BY DEF TypeInv
    <3> QED BY <3>1, UntrustedLoads
  <2>2. ~session.trusted => guidance'.docs = OwnDocs
    BY <1>5, <2>1 DEF ReloadGuidance, Discovered
  <2> QED BY <1>0, <1>5, <2>2 DEF ReloadGuidance, TrustInv, Trusted, Up, fileVars, ghosts
<1>6. CASE ReloadSkills
  <2>1. skills' = [of |-> here, home |-> session.thread, trusted |-> session.trusted]
    BY <1>6 DEF ReloadSkills
  <2> QED BY <1>0, <1>6, <2>1 DEF ReloadSkills, TrustInv, Trusted, Up, fileVars, ghosts
<1>7. CASE Activate
  <2>1. UNCHANGED <<trustFile, here, session, guidance, skills, servers, once, inPlace>>
    BY <1>7, ActivateWrites
  <2> QED BY <1>0, <2>1 DEF TrustInv, Trusted, Up
<1>8. CASE Edit
  BY <1>0, <1>8 DEF Edit, TrustInv, Trusted, Up, managerVars, ghosts
<1>9. CASE UNCHANGED vars
  BY <1>0, <1>9 DEF vars, fileVars, managerVars, ghosts, TrustInv, Trusted, Up
<1> QED BY <1>1, <1>2, <1>3, <1>4, <1>5, <1>6, <1>7, <1>8, <1>9 DEF Next

LEMMA ConsentInvStep ==
    ASSUME TypeInv, ConsentInv, [Next]_vars
    PROVE  ConsentInv'
<1>0. launches \subseteq consents
  BY DEF ConsentInv
<1>1. ASSUME NEW r \in Roots, NEW trusted \in BOOLEAN, StartServers(r, trusted),
             root' = r, session'.trusted = trusted
      PROVE  ConsentInv'
  BY <1>0, <1>1, ServersStarted DEF ConsentInv, LaunchConsent
<1>2. CASE Code
  <2>1. PICK r \in Roots, trusted \in BOOLEAN :
           /\ Begins(r, Len(threads) + 1, trusted)
           /\ InitializeAll(r, Len(threads) + 1, trusted) /\ StartServers(r, trusted)
    BY <1>2, CodeBegins
  <2>2. root' = r /\ session'.trusted = trusted
    BY <2>1 DEF Begins, InitializeAll
  <2> QED BY <1>1, <2>1, <2>2
<1>3. CASE ResumeThread
  <2>1. PICK r \in Roots, t \in DOMAIN threads, trusted \in BOOLEAN :
           /\ Begins(r, t, trusted)
           /\ InitializeAll(threads[t], t, trusted) /\ StartServers(threads[t], trusted)
    BY <1>3, ResumeBegins
  <2>2. root' = threads[t] /\ session'.trusted = trusted
    BY <2>1 DEF Begins, InitializeAll
  <2>3. threads[t] \in Roots
    BY StoredType
  <2> QED BY <1>1, <2>1, <2>2, <2>3
<1>4. CASE NewThread
  <2>1. PICK trusted \in BOOLEAN :
           /\ here \in Roots /\ root' = here /\ StartServers(here, trusted)
           /\ session' = [thread |-> Len(threads) + 1, trusted |-> trusted]
    BY <1>4, NewThreadStarts
  <2> QED BY <1>1, <2>1
<1>5. CASE Exit \/ ReloadFails
  BY <1>0, <1>5, EndClears DEF Exit, ReloadFails, ConsentInv, LaunchConsent
<1>6. CASE ReloadGuidance
  BY <1>6 DEF ReloadGuidance, ConsentInv, LaunchConsent, fileVars, ghosts
<1>7. CASE ReloadSkills
  BY <1>7 DEF ReloadSkills, ConsentInv, LaunchConsent, fileVars, ghosts
<1>8. CASE Activate
  BY <1>8, ActivateWrites DEF ConsentInv, LaunchConsent
<1>9. CASE Edit
  BY <1>9 DEF Edit, ConsentInv, LaunchConsent, managerVars, ghosts
<1>10. CASE UNCHANGED vars
  BY <1>10 DEF vars, fileVars, managerVars, ghosts, ConsentInv, LaunchConsent
<1> QED BY <1>2, <1>3, <1>4, <1>5, <1>6, <1>7, <1>8, <1>9, <1>10 DEF Next

LEMMA KeptInvStep ==
    ASSUME TypeInv, KeptInv, [Next]_vars
    PROVE  KeptInv'
<1>0. Single({})
  BY DEF Single
<1>1. CASE Code
  <2>1. PICK r \in Roots, trusted \in BOOLEAN :
           /\ InitializeAll(r, Len(threads) + 1, trusted)
           /\ threads' = Append(threads, r) /\ stored' = Append(stored, {})
           /\ Len(threads) < MaxThreads /\ active' = {}
    BY <1>1, CodeBegins
  <2>2. /\ DOMAIN stored = 1..Len(threads) /\ DOMAIN stored' = 1..(Len(threads) + 1)
        /\ \A t \in DOMAIN stored : stored'[t] = stored[t]
        /\ stored'[Len(threads) + 1] = {} /\ Len(threads) \in Nat
    BY <2>1, ThreadAdded, StoredType
  <2>3. \A t \in DOMAIN stored' : Single(stored'[t])
    <3>1. \A t \in DOMAIN stored' : t \in DOMAIN stored \/ t = Len(threads) + 1
      BY <2>2
    <3> QED BY <1>0, <2>2, <3>1 DEF KeptInv
  <2>4. skills'.home = Len(threads) + 1
    BY <2>1 DEF InitializeAll
  <2>5. (\A t \in DOMAIN stored : Single(stored[t]))'
    BY <2>3 DEF Single, SameContent
  <2>6. Single(active)'
    BY <2>1 DEF Single
  <2> QED BY <2>1, <2>2, <2>4, <2>5, <2>6 DEF KeptInv
<1>2. CASE ResumeThread
  <2>1. PICK r \in Roots, t \in DOMAIN threads, trusted \in BOOLEAN :
           /\ InitializeAll(threads[t], t, trusted)
           /\ active' = stored[t] /\ UNCHANGED stored
    BY <1>2, ResumeBegins
  <2>2. skills'.home = t /\ t \in DOMAIN stored
    BY <2>1, StoredType DEF InitializeAll
  <2>3. Single(stored[t])
    BY <2>2 DEF KeptInv
  <2> QED BY <2>1, <2>2, <2>3 DEF KeptInv, Single, SameContent
<1>3. CASE NewThread
  <2>1. /\ Up /\ threads' = Append(threads, here) /\ stored' = Append(stored, {})
        /\ Len(threads) < MaxThreads /\ here \in Roots /\ UNCHANGED <<skills, active>>
    BY <1>3, NewThreadStarts
  <2>2. /\ DOMAIN stored = 1..Len(threads) /\ DOMAIN stored' = 1..(Len(threads) + 1)
        /\ \A t \in DOMAIN stored : stored'[t] = stored[t]
        /\ stored'[Len(threads) + 1] = {} /\ Len(threads) \in Nat
    BY <2>1, ThreadAdded, StoredType
  <2>3. \A t \in DOMAIN stored' : Single(stored'[t])
    <3>1. \A t \in DOMAIN stored' : t \in DOMAIN stored \/ t = Len(threads) + 1
      BY <2>2
    <3> QED BY <1>0, <2>2, <3>1 DEF KeptInv
  <2>4. (\A t \in DOMAIN stored : Single(stored[t]))'
    BY <2>3 DEF Single, SameContent
  <2>5. stored'[skills.home] \subseteq active
    <3>1. skills.home \in DOMAIN stored
      BY <2>1, <2>2 DEF TypeInv
    <3> QED BY <2>1, <2>2, <3>1 DEF KeptInv
  <2> QED BY <2>1, <2>4, <2>5 DEF KeptInv, Single, SameContent
<1>4. CASE Exit \/ ReloadFails
  BY <1>4, EndClears DEF Exit, ReloadFails, KeptInv, Single, SameContent
<1>5. CASE ReloadGuidance
  BY <1>5 DEF ReloadGuidance, KeptInv, Single, SameContent, Up, fileVars, ghosts
<1>6. CASE ReloadSkills
  <2>1. /\ skills'.home = session.thread /\ active' = stored[session.thread]
        /\ UNCHANGED stored
    BY <1>6 DEF ReloadSkills, Restored, fileVars
  <2>2. session.thread \in DOMAIN stored
    BY <1>6, StoredType DEF ReloadSkills, Open, TypeInv
  <2>3. Single(stored[session.thread])
    BY <2>2 DEF KeptInv
  <2> QED BY <2>1, <2>3 DEF KeptInv, Single, SameContent
<1>7. CASE Activate
  <2>1. PICK a \in Activation :
           /\ Up /\ skills.home \in DOMAIN stored
           /\ \A b \in active : ~SameContent(b, a)
           /\ active' = active \cup {a}
           /\ stored' \in {stored, [stored EXCEPT ![skills.home] = @ \cup {a}]}
           /\ UNCHANGED <<here, skills>>
    BY <1>7, ActivateWrites
  <2>2. stored[skills.home] \subseteq active /\ Single(active)
    BY <2>1 DEF KeptInv
  <2>3. ASSUME NEW kept, kept \subseteq active
        PROVE  Single(kept \cup {a})
    <3>1. \A b \in kept : ~SameContent(b, a) /\ ~SameContent(a, b)
      BY <2>1, <2>3 DEF SameContent
    <3>2. \A b, c \in kept : SameContent(b, c) => b = c
      BY <2>2, <2>3 DEF Single
    <3> QED BY <3>1, <3>2 DEF Single
  <2>4. \A t \in DOMAIN stored' : stored'[t] = stored[t] \/ stored'[t] = stored[skills.home] \cup {a}
    BY <2>1
  <2>5. DOMAIN stored' = DOMAIN stored
    BY <2>1
  <2>6. \A t \in DOMAIN stored' : Single(stored'[t])
    BY <2>2, <2>3, <2>4, <2>5 DEF KeptInv
  <2>7. stored'[skills.home] \subseteq active'
    BY <2>1, <2>2, <2>4, <2>5
  <2>8. Single(active')
    BY <2>1, <2>3
  <2> QED BY <2>1, <2>6, <2>7, <2>8 DEF KeptInv, Single, SameContent
<1>8. CASE Edit
  BY <1>8 DEF Edit, KeptInv, Single, SameContent, Up, managerVars
<1>9. CASE UNCHANGED vars
  BY <1>9 DEF vars, fileVars, managerVars, KeptInv, Single, SameContent, Up
<1> QED BY <1>1, <1>2, <1>3, <1>4, <1>5, <1>6, <1>7, <1>8, <1>9 DEF Next

-----------------------------------------------------------------------------
(* Theorems.                                                               *)

LEMMA Invariants == Spec => [](TypeInv /\ TrustInv /\ ConsentInv /\ KeptInv)
<1>1. Init => TypeInv /\ TrustInv /\ ConsentInv /\ KeptInv
  BY InitInv
<1>2. TypeInv /\ TrustInv /\ ConsentInv /\ KeptInv /\ [Next]_vars =>
        (TypeInv /\ TrustInv /\ ConsentInv /\ KeptInv)'
  BY TypeInvStep, TrustInvStep, ConsentInvStep, KeptInvStep
<1> QED BY <1>1, <1>2, PTL DEF Spec

\* The files, the process and what it holds always have their types, whichever
\* directories, threads and answers the processes meet.
THEOREM TypeCorrect == Spec => []TypeOK
<1>1. TypeInv => TypeOK
  <2> SUFFICES ASSUME TypeInv PROVE TypeOK
    OBVIOUS
  <2>1. ToSet(threads) \subseteq Roots /\ DOMAIN stored = DOMAIN threads
    BY StoredType DEF ToSet
  <2> QED BY <2>1 DEF TypeInv, TypeOK
<1> QED BY <1>1, Invariants, PTL

\* While a process has one thread, of its own directory, an untrusted project
\* shows, offers and starts nothing and displaces none of the user's guidance,
\* through answers, reloads, edits and activations.
THEOREM TrustCorrect == Spec => []TrustedInPlace
<1>1. TypeInv /\ TrustInv => TrustedInPlace
  <2> SUFFICES ASSUME TypeInv, TrustInv, Open, inPlace, ~Trusted(here)
               PROVE  /\ guidance.docs = OwnDocs
                      /\ "project" \notin Resolvable
                      /\ \A s \in servers : s.scope # "project"
    BY DEF TrustedInPlace
  <2>1. Up
    BY DEF TypeInv
  <2>2. ~session.trusted /\ ~skills.trusted
    BY <2>1 DEF TrustInv
  <2> QED BY <2>1, <2>2 DEF TrustInv, Resolvable
<1> QED BY <1>1, Invariants, PTL

\* No stdio server of a project ever runs from a row the user did not allow,
\* nor any server for another project than the session's.
THEOREM ConsentCorrect == Spec => []LaunchConsent
<1>1. ConsentInv => LaunchConsent
  BY DEF ConsentInv
<1> QED BY <1>1, Invariants, PTL

\* The scopes of the MCP configuration, parsed one over the other, choose the
\* row of the highest one, for every configuration, project and trust.
THEOREM ResolverCorrect == Spec => []ResolverAgrees
<1>1. TypeInv => ResolverAgrees
  BY ResolverChooses DEF TypeInv, ResolverAgrees
<1> QED BY <1>1, Invariants, PTL

\* What was written of a thread's activations is active while a process has
\* that thread alone, and no content is active or written twice, through
\* failed writes, reloads and resumes.
THEOREM KeptCorrect == Spec => []ActivationsKept
<1>1. TypeInv /\ TrustInv /\ KeptInv => ActivationsKept
  <2> SUFFICES ASSUME TypeInv, TrustInv, KeptInv, Open, inPlace
               PROVE  /\ stored[session.thread] \subseteq active
                      /\ \A kept \in {active, stored[session.thread]} :
                            \A a, b \in kept : SameContent(a, b) => a = b
    BY DEF ActivationsKept
  <2>1. Up /\ skills.home = session.thread /\ session.thread \in DOMAIN stored
    <3>1. Up
      BY DEF TypeInv
    <3> QED BY <3>1, StoredType DEF TypeInv, TrustInv
  <2> QED BY <2>1 DEF KeptInv, Single
<1> QED BY <1>1, Invariants, PTL
=============================================================================
