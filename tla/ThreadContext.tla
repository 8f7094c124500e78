----------------------------- MODULE ThreadContext -----------------------------
(***************************************************************************)
(* What the model of a root thread gets to see: the messages of its turns, *)
(* the external context a user selects, and the summary that replaces old  *)
(* messages, across restarts (runtime/session.py, compaction/service.py,   *)
(* context/builder.py, and the loop as far as it appends messages).        *)
(*                                                                         *)
(* The rollout is a log whose unwritten tail a crash loses                 *)
(* (RolloutRecorder); checkpoints and compaction records are rows of the   *)
(* database, committed at once.  A summary is the messages it was made of: *)
(* that its text is cut to max_summary_chars is left out.                  *)
(***************************************************************************)
EXTENDS Integers, FiniteSets, SequencesExt

CONSTANTS Items,      \* contents a user can select
          Cost,       \* bytes of each that count for a turn
          TurnBytes,  \* context.max_external_turn_bytes
          Retain,     \* compaction.retain_recent_turns
          Recent,     \* context.recent_turns
          MaxTurns,   \* bound: turns
          MaxCalls,   \* bound: responses with tool calls
          Widths,     \* bound: how many calls such a response has
          MaxNotes,   \* bound: answers the final guard refuses
          MaxCrashes  \* bound: ends of the process

ASSUME ContextAssumption ==
    /\ Cost \in [Items -> Nat]
    /\ {TurnBytes, MaxTurns, MaxCalls, MaxNotes, MaxCrashes} \subseteq Nat
    /\ {Retain, Recent} \cup Widths \subseteq Nat \ {0}

VARIABLES
    pc,        \* where the session is suspended
    turn,      \* state.turn_id
    messages,  \* state.messages
    summary,   \* state.session_summary
    todo,      \* calls of the committed response without a result
    recovered, \* the turn was continued after a restart
    hashes,    \* external_context_hashes
    pending,   \* pending_external_context
    mailbox,   \* turn_steer_mailbox
    meta,      \* metadata.json: status and turn count
    log,       \* rollout
    synced,    \* how much of it a flush has put on disk
    saved,     \* latest checkpoint
    record,    \* latest compaction record
    crashes,   \* how often the process has ended
    seen,      \* history: selected contents that were sent to the model
    settled    \* history: messages and summary when a turn was over

stateVars == <<turn, messages, summary, todo, recovered>>
contextVars == <<hashes, pending, mailbox>>
rolloutVars == <<meta, log, synced>>
dbVars == <<saved, record>>
ghosts == <<crashes, seen, settled>>
vars == <<pc, stateVars, contextVars, rolloutVars, dbVars, ghosts>>

Message(kind, of, part) == [kind |-> kind, of |-> of, part |-> part]
Task(t) == Message("task", t, 0)
Text(t, n) == Message("text", t, n)
Note(t) == Message("note", t, 0)
Steer(x) == Message("steer", x, 0)
External(x) == Message("external", x, 0)
Calls(r, n) == Message("calls", r, n)
Result(c) == Message("result", c[1], c[2])

\* Messages of the role user that carry no external_context mark.
UserTurn(msg) == msg.kind \in {"task", "note", "steer"}

\* The items of the rollout; a task and a text as the messages they are.
Entry(kind, of) == Message(kind, of, 0)
Logged(kind) == {e.of : e \in {f \in ToSet(log) : f.kind = kind}}
Checkpoint(point) == [point |-> point, turn |-> turn, messages |-> messages, summary |-> summary]
None == [point |-> "NONE"]
Blank == [messages |-> <<>>, summary |-> <<>>]

Init ==
    /\ pc = "idle"
    /\ turn = 0 /\ messages = <<>> /\ summary = <<>> /\ todo = {} /\ recovered = FALSE
    /\ hashes = {} /\ pending = <<>> /\ mailbox = <<>>
    /\ meta = [status |-> "IDLE", turns |-> 0]
    /\ log = <<>> /\ synced = 0
    /\ saved = None /\ record = None
    /\ crashes = 0 /\ seen = {} /\ settled = Blank

-----------------------------------------------------------------------------
(* Windows over the messages.                                              *)

\* The elements of a sequence that are in S, in their order.
Kept(s, S) ==
    LET at == {i \in DOMAIN s : s[i] \in S}
    IN  [n \in 1..Cardinality(at) |-> s[CHOOSE i \in at : Cardinality({j \in at : j <= i}) = n]]

\* Those whose kind is one of some.
Of(kinds, s) == Kept(s, {e \in ToSet(s) : e.kind \in kinds})

UserIndexes(msgs) == {i \in DOMAIN msgs : UserTurn(msgs[i])}

\* The index from which the last n user turns run; 0 when there are no more.
Boundary(msgs, n) ==
    LET users == UserIndexes(msgs)
    IN  IF Cardinality(users) <= n THEN 0
        ELSE CHOOSE i \in users : Cardinality({j \in users : j >= i}) = n

From(msgs, i) == SubSeq(msgs, i, Len(msgs))

\* _recent_messages: what of them a request shows.
Visible(msgs) == IF Boundary(msgs, Recent) = 0 THEN msgs ELSE From(msgs, Boundary(msgs, Recent))

\* Mutant: only the results are protected.
ProtectedResults(msgs) == Of({"result"}, msgs)

Protected(msgs) == Of({"calls", "result"}, msgs)

Compactable(msgs) == Of({"task", "text", "note", "steer", "external"}, msgs)

Old(msgs) == SubSeq(msgs, 1, Boundary(msgs, Retain) - 1)

\* What compact and apply_latest leave of them.
Compacted(msgs) == Protected(Old(msgs)) \o From(msgs, Boundary(msgs, Retain))

\* Mutant: a restart reapplies the summary and keeps the messages.
AppliedSummary(msgs) == msgs

Applied(msgs) == Compacted(msgs)

-----------------------------------------------------------------------------
(* External context.                                                       *)

Up == pc \notin {"down", "refused"}

\* queue_external_context, at any time the session is up; the digest bars the
\* same content for good.  The record names the destination.
Select ==
    /\ Up
    /\ \E x \in Items \ hashes :
          /\ hashes' = hashes \cup {x}
          /\ IF meta.status = "ACTIVE"
             THEN /\ mailbox' = Append(mailbox, x) /\ UNCHANGED pending
                  /\ log' = Append(log, Entry("steered", x))
             ELSE /\ pending' = Append(pending, x) /\ UNCHANGED mailbox
                  /\ log' = Append(log, Entry("queued", x))
    /\ UNCHANGED <<pc, stateVars, meta, synced, dbVars, ghosts>>

\* The first of the pending items that fit, one after the other; the rest waits.
Fitting ==
    LET fit[i \in 0..Len(pending)] ==
            IF i = 0 THEN [items |-> <<>>, bytes |-> 0]
            ELSE IF fit[i - 1].bytes + Cost[pending[i]] > TurnBytes THEN fit[i - 1]
            ELSE [items |-> Append(fit[i - 1].items, pending[i]),
                  bytes |-> fit[i - 1].bytes + Cost[pending[i]]]
    IN  fit[Len(pending)].items

\* Mutant: what was steered into a turn is not restored.
ToRestoreQueued(entries) ==
    Kept(entries, {e \in ToSet(entries) :
        e.kind = "queued" /\ Entry("injected", e.of) \notin ToSet(entries)})

\* _restore_external_context: selected for the next turn or for the one that
\* ran, and not injected, in order.
ToRestore(entries) ==
    Kept(entries, {e \in ToSet(entries) :
        e.kind \in {"queued", "steered"} /\ Entry("injected", e.of) \notin ToSet(entries)})

\* Mutant: the digest of what was steered into a turn is forgotten.
KnownQueued(entries) == {e.of : e \in {f \in ToSet(entries) : f.kind = "queued"}}

\* The digests it brings back: of everything that was ever selected.
Known(entries) == {e.of : e \in {f \in ToSet(entries) : f.kind \in {"queued", "steered"}}}

Objects(entries) == [i \in DOMAIN entries |-> entries[i].of]

-----------------------------------------------------------------------------
(* A turn.                                                                 *)

\* run_turn up to controller.start: the task, then the context that fits.
StartTurn ==
    /\ pc = "idle"
    /\ meta.turns < MaxTurns
    /\ turn' = meta.turns + 1
    /\ messages' = messages \o <<Task(turn')>> \o [i \in DOMAIN Fitting |-> External(Fitting[i])]
    /\ pending' = Kept(pending, ToSet(pending) \ ToSet(Fitting))
    /\ log' = log \o [i \in DOMAIN Fitting |-> Entry("injected", Fitting[i])]
    /\ todo' = {} /\ recovered' = FALSE
    /\ pc' = "starting"
    /\ UNCHANGED <<summary, hashes, mailbox, meta, synced, dbVars, ghosts>>

\* controller.start: metadata, then the user message of the rollout.
Started ==
    /\ pc = "starting"
    /\ meta' = [status |-> "ACTIVE", turns |-> turn]
    /\ log' = Append(log, Task(turn))
    /\ pc' = "loop"
    /\ UNCHANGED <<stateVars, contextVars, synced, dbVars, ghosts>>

Drained == [i \in DOMAIN mailbox |-> Steer(mailbox[i])]

\* The selected contents among some messages.
Contents(msgs) == {msg.of : msg \in {m \in ToSet(msgs) : m.kind \in {"external", "steer"}}}

\* The mailbox is drained before every request; ContextBuilder.build gives the
\* request the summary and the recent turns.  The checkpoint BEFORE_MODEL that
\* MODEL_IN_FLIGHT replaces at once has the same messages.
Request ==
    /\ pc = "loop" /\ todo = {}
    /\ messages' = messages \o Drained
    /\ mailbox' = <<>>
    /\ saved' = [Checkpoint("MODEL_IN_FLIGHT") EXCEPT !.messages = messages']
    /\ seen' = seen \cup Contents(summary \o Visible(messages'))
    /\ pc' = "model"
    /\ UNCHANGED <<turn, summary, todo, recovered, hashes, pending, rolloutVars, record, crashes, settled>>

Responses == {messages[i].of : i \in {j \in DOMAIN messages : messages[j].kind = "calls"}}

\* The model asks for tools.
ModelCalls ==
    /\ pc = "model"
    /\ \E n \in Widths, r \in 1..MaxCalls :
          /\ \A s \in Responses : s < r
          /\ messages' = Append(messages, Calls(r, n))
          /\ todo' = {<<r, i>> : i \in 1..n}
    /\ saved' = [Checkpoint("AFTER_MODEL") EXCEPT !.messages = messages']
    /\ pc' = "loop"
    /\ UNCHANGED <<turn, summary, recovered, contextVars, rolloutVars, record, ghosts>>

\* It answers with text, which the final guard may not accept.
ModelAnswers ==
    /\ pc = "model"
    /\ messages' = Append(messages, Text(turn, Cardinality({i \in DOMAIN messages :
                               messages[i].kind = "text" /\ messages[i].of = turn})))
    /\ saved' = [Checkpoint("AFTER_MODEL") EXCEPT !.messages = messages']
    /\ pc' = "text"
    /\ UNCHANGED <<turn, summary, todo, recovered, contextVars, rolloutVars, record, ghosts>>

Guarded ==
    /\ pc = "text"
    /\ Cardinality({i \in DOMAIN messages : messages[i].kind = "note"}) < MaxNotes
    /\ messages' = Append(messages, Note(turn))
    /\ pc' = "loop"
    /\ UNCHANGED <<turn, summary, todo, recovered, contextVars, rolloutVars, dbVars, ghosts>>

Accepted ==
    /\ pc = "text"
    /\ saved' = Checkpoint("TERMINAL")
    /\ settled' = [messages |-> messages, summary |-> summary]
    /\ pc' = "completed"
    /\ UNCHANGED <<stateVars, contextVars, rolloutVars, record, crashes, seen>>

\* The next call goes to its tool, with a question to the user or without.
BeginTool ==
    /\ pc = "loop" /\ todo # {}
    /\ \E point \in {"TOOL_IN_FLIGHT", "WAITING_APPROVAL"} : saved' = Checkpoint(point)
    /\ pc' = "tool"
    /\ UNCHANGED <<stateVars, contextVars, rolloutVars, record, ghosts>>

\* Its result is appended and saved; then the mailbox is drained.
ToolReturns ==
    /\ pc = "tool"
    /\ \E c \in todo :
          /\ \A d \in todo : c[2] <= d[2]
          /\ messages' = messages \o <<Result(c)>> \o Drained
          /\ saved' = [Checkpoint("AFTER_TOOL") EXCEPT !.messages = Append(messages, Result(c))]
          /\ todo' = todo \ {c}
    /\ mailbox' = <<>>
    /\ pc' = "loop"
    /\ UNCHANGED <<turn, summary, recovered, hashes, pending, rolloutVars, record, ghosts>>

\* A limit ends the turn before its next iteration, or the request for which
\* the mailbox has been drained.
LimitReached ==
    /\ \/ pc = "resumed" \/ (pc = "loop" /\ todo = {})
    /\ \/ UNCHANGED <<messages, mailbox>>
       \/ pc = "loop" /\ messages' = messages \o Drained /\ mailbox' = <<>>
    /\ saved' = [Checkpoint("TERMINAL") EXCEPT !.messages = messages']
    /\ settled' = [messages |-> messages', summary |-> summary]
    /\ todo' = {}
    /\ pc' = "failed"
    /\ UNCHANGED <<turn, summary, recovered, hashes, pending, rolloutVars, record, crashes, seen>>

\* An error or CANCEL_TURN ends the turn with a checkpoint; a
\* cancelled task ends it without.
TurnFails ==
    /\ pc \in {"model", "tool"}
    /\ \/ saved' = Checkpoint("TERMINAL") /\ settled' = [messages |-> messages, summary |-> summary]
       \/ UNCHANGED <<saved, settled>>
    /\ todo' = {}
    /\ pc' = "failed"
    /\ UNCHANGED <<turn, messages, summary, recovered, contextVars, rolloutVars, record, crashes, seen>>

\* The items a turn ends with: its answer, if that came last, and the outcome.
Closing(t, msgs) ==
    LET own == Kept(msgs, {msg \in ToSet(msgs) : msg.kind # "steer"})
    IN  (IF own # <<>> /\ Last(own).kind = "text" THEN <<Last(own)>> ELSE <<>>) \o <<Entry("terminal", t)>>

\* TurnController._finalize: text and terminal item, metadata, flush.
Finalize ==
    /\ pc \in {"completed", "failed"}
    /\ log' = log \o Closing(turn, messages)
    /\ synced' = Len(log')
    /\ meta' = [meta EXCEPT !.status = "IDLE"]
    /\ pc' = IF pc = "completed" /\ ~recovered THEN "compacting" ELSE "idle"
    /\ UNCHANGED <<stateVars, contextVars, dbVars, ghosts>>

\* _compact_idle_state: the messages may be below the threshold.
Compact ==
    /\ pc = "compacting"
    /\ \/ UNCHANGED <<messages, summary, record, settled>>
       \/ /\ Boundary(messages, Retain) # 0
          /\ Compactable(Old(messages)) # <<>>
          /\ record' = [point |-> "RECORD", source |-> Compactable(Old(messages)),
                        protected |-> Protected(Old(messages))]
          /\ summary' = record'.source
          /\ messages' = Compacted(messages)
          /\ settled' = [messages |-> messages', summary |-> summary']
    /\ pc' = "idle"
    /\ UNCHANGED <<turn, todo, recovered, contextVars, rolloutVars, saved, crashes, seen>>

-----------------------------------------------------------------------------
(* The end of the process and the resume.                                  *)

\* The process ends, whatever the writer has put on disk beyond the last
\* flush; at the prompt it may also close the session.
Ends ==
    /\ Up
    /\ crashes < MaxCrashes
    /\ crashes' = crashes + 1
    /\ pc' = "down"
    /\ \/ \E k \in synced..Len(log) : log' = SubSeq(log, 1, k)
          /\ UNCHANGED meta
       \/ pc = "idle" /\ meta' = [meta EXCEPT !.status = "CLOSED"] /\ UNCHANGED log
    /\ synced' = Len(log')
    /\ messages' = <<>> /\ summary' = <<>> /\ todo' = {}
    /\ hashes' = {} /\ pending' = <<>> /\ mailbox' = <<>>
    /\ UNCHANGED <<turn, recovered, dbVars, seen, settled>>

\* _messages_from_history
FromHistory == Of({"task", "text"}, log)

Source(msgs) == Compactable(Old(msgs))

\* apply_latest has nothing to do.
UpToDate(msgs, sum) == record = None \/ (sum # <<>> /\ sum = record.source)

\* It can show that the record was made of these messages.
Verified(msgs) ==
    /\ Boundary(msgs, Retain) # 0
    /\ Source(msgs) = record.source
    /\ Protected(Old(msgs)) = record.protected

\* The committed response of a turn that goes on: calls without a result.
Unanswered(msgs) ==
    LET said == {i \in DOMAIN msgs : msgs[i].kind \in {"calls", "text"}}
        last == msgs[CHOOSE i \in said : \A j \in said : j <= i]
    IN  IF last.kind = "text" THEN {}
        ELSE {<<last.of, i>> : i \in 1..last.part} \ {<<m.of, m.part>> : m \in {n \in ToSet(msgs) : n.kind = "result"}}

Restorable == saved.point \notin {"NONE", "TOOL_IN_FLIGHT"}
Continued == Restorable /\ saved.point # "TERMINAL"

\* ConversationSession.resume: the checkpoint when it can be used, with the
\* latest summary; otherwise what the rollout shows.  The end of a turn that
\* is over is put on record if it is not.
Resume ==
    /\ pc = "down"
    /\ hashes' = Known(log)
    /\ pending' = Objects(ToRestore(log))
    /\ recovered' = Continued
    /\ turn' = IF Restorable THEN saved.turn ELSE turn
    /\ meta' = CASE saved.point = "TOOL_IN_FLIGHT" -> [meta EXCEPT !.status = "RECOVERY_REQUIRED"]
                 [] saved.point = "TERMINAL" -> [meta EXCEPT !.status = "IDLE"]
                 [] OTHER -> meta
    /\ log' = IF saved.point = "TERMINAL" /\ saved.turn \notin Logged("terminal")
              THEN log \o Closing(saved.turn, saved.messages) ELSE log
    /\ synced' = Len(log')
    /\ todo' = IF Continued /\ saved.point # "MODEL_IN_FLIGHT"
               THEN Unanswered(saved.messages) ELSE {}
    /\ \/ /\ ~Restorable
          /\ messages' = FromHistory /\ summary' = <<>>
          /\ pc' = "idle"
       \/ /\ Restorable /\ UpToDate(saved.messages, saved.summary)
          /\ messages' = saved.messages /\ summary' = saved.summary
          /\ pc' = IF Continued THEN "resumed" ELSE "idle"
       \/ /\ Restorable /\ ~UpToDate(saved.messages, saved.summary) /\ Verified(saved.messages)
          /\ messages' = Applied(saved.messages) /\ summary' = record.source
          /\ pc' = IF Continued THEN "resumed" ELSE "idle"
       \/ /\ Restorable /\ ~UpToDate(saved.messages, saved.summary) /\ ~Verified(saved.messages)
          /\ messages' = saved.messages /\ summary' = saved.summary
          /\ pc' = "refused"
    /\ UNCHANGED <<mailbox, dbVars, ghosts>>

\* continue_incomplete_turn: the mailbox is drained, then the committed
\* response is used again; a request in flight is repeated.
Continue ==
    /\ pc = "resumed"
    /\ messages' = messages \o Drained
    /\ mailbox' = <<>>
    /\ pc' = IF saved.point # "MODEL_IN_FLIGHT" /\ todo = {} /\ Last(saved.messages).kind = "text"
             THEN "text" ELSE "loop"
    /\ UNCHANGED <<turn, summary, todo, recovered, hashes, pending, rolloutVars, dbVars, ghosts>>

Next ==
    \/ Select \/ StartTurn \/ Started \/ Request
    \/ ModelCalls \/ ModelAnswers \/ Guarded \/ Accepted \/ BeginTool \/ ToolReturns
    \/ LimitReached \/ TurnFails \/ Finalize \/ Compact
    \/ Ends \/ Resume \/ Continue

Spec == Init /\ [][Next]_vars

-----------------------------------------------------------------------------
(* Properties.                                                             *)

\* Every variable has its type; no content waits twice, and nothing waits
\* that the digests do not know.
TypeOK ==
    /\ pc \in {"idle", "starting", "loop", "model", "text", "tool",
               "completed", "failed", "compacting", "down", "resumed", "refused"}
    /\ turn \in 0..MaxTurns
    /\ IsInjective(pending \o mailbox) /\ ToSet(pending \o mailbox) \subseteq hashes
    /\ meta.status \in {"IDLE", "ACTIVE", "CLOSED", "RECOVERY_REQUIRED"} /\ meta.turns \in 0..MaxTurns
    /\ synced \in 0..Len(log)
    /\ pc = "tool" => todo # {}
    /\ saved.point \in {"NONE", "MODEL_IN_FLIGHT", "AFTER_MODEL", "WAITING_APPROVAL",
                        "TOOL_IN_FLIGHT", "AFTER_TOOL", "TERMINAL"}

\* Compaction, in a turn's wake or at a restart, never takes the call from
\* before a result.
Answers(msgs) ==
    \A i \in DOMAIN msgs :
        msgs[i].kind = "result" =>
            \E j \in 1..(i - 1) : msgs[j].kind = "calls" /\ msgs[j].of = msgs[i].of

ResultsFollowCalls == Answers(messages) /\ (saved # None => Answers(saved.messages))

\* The compaction after the turn made the very summary the turn had before.
SummaryRepeated == saved.summary = settled.summary /\ saved.messages # settled.messages

\* A session resumed after a turn has the messages and the summary the turn
\* left, whether it was compacted in memory only or saved since; or, if it had
\* no summary and an old record matches, the same messages compacted.
ResumeAgrees ==
    [][pc = "down" /\ pc' = "idle" /\ saved.point = "TERMINAL" /\ ~SummaryRepeated =>
        \/ messages' = settled.messages /\ summary' = settled.summary
        \/ /\ settled.summary = <<>>
           /\ messages' = Compacted(settled.messages) /\ summary' = Source(settled.messages)]_vars

\* A content the user may not select again, because its digest is known, was
\* sent to the model, is waiting for it, or is on record as part of a turn.
SelectedKept ==
    Up => hashes \subseteq
              seen \cup ToSet(pending) \cup ToSet(mailbox) \cup Logged("injected")
                   \cup Contents(summary \o messages)

\* Doc, stage 6, 26.4: compaction does not damage a thread.  A thread taken
\* up from its rollout no longer agrees with its latest compaction.
ThreadResumable == pc # "refused"

\* Doc, stage 1, 11.4: no pair of a tool call and its result is silently
\* removed.  What a request shows of the messages has a result for each call
\* and a call for each result; a user message drained in between breaks it.
PairsIntact ==
    pc = "model" =>
        /\ Answers(Visible(messages))
        /\ \A m \in {v \in ToSet(Visible(messages)) : v.kind = "calls"} :
              \A i \in 1..m.part : Result(<<m.of, i>>) \in ToSet(Visible(messages))

=============================================================================
