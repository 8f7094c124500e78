# TLA+ models of agent_harness

Formal models of the runtime in `src/agent-harness/src/agent_harness` ("the
code" below), the configurations that model-check them with TLC, and theorems
about them that TLAPS checks.  Every definition is translated from the source;
`PROJECT.json` names the lines each one stands for.

## The system

The harness runs one *root agent* per turn of a conversation.  The agent loop
alternates model requests and tool calls; tools run through a permission and
approval pipeline; a durable thread keeps its history in an append-only rollout
and its resumable state in a checkpoint database; the root may delegate work to
child agents; MCP servers, artifacts, memory, project guidance and skills feed
the context.  Everything runs in one asyncio event loop: code between two
`await`s is atomic, and what is hard is what can happen *at* an `await`
(another task runs, a cancellation or a timeout arrives) and between two writes
to disk (the process dies).

| Component | State it keeps | Operations | Interacts with | What makes it correct |
|---|---|---|---|---|
| Subagent scheduler `runtime/subagents/scheduler.py` | threads, tasks, semaphore, condition, idempotency map | spawn, wait, send_message, cancel, close, cancel_all, `_run_child` | agent loop (children), budgets, run manager | slots and leases are conserved, statuses agree with tasks, no task outlives the run, nobody sleeps for ever |
| Run budgets `runtime/budgets.py` | reservations, usage, leases | reserve_child, release_child | scheduler | reservations never exceed the limit and are returned once |
| Agent loop `runtime/agent_loop.py` | run state, resume point | run, `_checkpoint`, `_resume_finalization` | provider, tool runtime, checkpoints | every exit leaves a resumable or terminal checkpoint |
| Run manager `runtime/run_manager.py` | per-run wiring | run_existing | all | cleanup on every exit |
| Session and turn controller `runtime/session.py`, `turns/` | live thread, pending context, active turn | start, resume, run_turn, continue, queue_external_context, close | recorder, checkpoints, run manager | one terminal item per turn, in rollout order |
| Rollout recorder `threads/`, `rollout/` | queue, writer task, sequence, hash chain | record, flush, shutdown, load_verified | session | what was acknowledged is durable, in order, and readable after a crash |
| Checkpoints and recovery `checkpoints/`, `recovery/`, `persistence/` | checkpoint rows, generations, approvals | save, latest, plan | agent loop, session, tool runtime | a side effect is never repeated silently |
| Compaction `compaction/` | summaries | compact, apply_latest | session | the recent turns survive |
| Tool runtime, permissions, approvals `tools/`, `security/` | executed approvals, grants | execute, evaluate, request | agent loop | nothing runs without permission; an approval is used once |
| MCP connection `mcp/connection.py`, `manager.py`, `runtime.py` | status, session, transport task, catalogue, two locks | start, connect, refresh, call, reconnect, close | agents of a run, server | one transport, a catalogue of its session, no repeated side effect, every call returns |
| MCP configuration `mcp/config.py`, `approval.py` | rows per scope, launch approvals | resolve, approve | CLI, run manager | the right row wins; a project starts nothing the user did not allow |
| Artifacts `artifacts/` | files, byte counters | put | tool runtime, session | the quotas hold |
| Memory `memory/` | records, sources, full text index, tombstones | add, invalidate, delete, search, list | run manager, CLI, other processes | what was deleted is in no table and in no answer |
| Guidance and trust `guidance/`, `project/` | trust decisions, discovered documents | discover, decide | run manager | untrusted text is not injected |
| Skills `skills/` | activations per turn | activate, invoke, finish_turn | run manager, scheduler | a skill's tools are effective only in its turn |
| Tracing `tracing/` | `events.jsonl`, sequence number, live view | emit, publish, close, replay | agent loop, CLI | numbers increase, view and file agree, a response is counted once |
| Context builder, providers, sandbox, built-in tools, CLI, configuration | - | - | - | conversions and I/O |

## Plan

| Module | Subject | Runs | Proofs |
|---|---|---|---|
| `Supervisor`, `SubagentScheduler` | the concurrent core and its abstraction | 2 | all safety properties, refinement |
| `DurableLog`, `RolloutRecorder` | the durable log and its abstraction | 1 | all safety properties and the refinement |
| `TurnLedger`, `TurnRecovery` | checkpoints, turns, crash and resume, and their abstraction | 2 | all safety properties and the refinement |
| `McpConnection` | one connection shared by agents | 1 | all safety properties |
| `ToolApproval` | permission pipeline, approvals, grants, tool scopes | 1 | all safety properties |
| `ThreadContext` | messages, external context, compaction, restarts | 2 | all safety properties |
| `ProjectContext` | trust, guidance, skills, MCP scopes and launches | 1 | all safety properties |
| `TraceLog` | trace file, live view, accounting | 1 | all safety properties |
| `MemoryStore` | records, index, searches of several processes | 1 | all safety properties |

The modules do not share variables.  Each takes of its neighbours what it needs
and says so in its header: `ThreadContext` takes the rollout for a log whose
unwritten tail a crash loses (`RolloutRecorder`), `ToolApproval` an MCP server
for one that is up (`McpConnection`), `TurnRecovery` a permission for a set of
calls that ask (`ToolApproval`).

Left: a model of two concurrent `put`s of the artifact store.

## The modules

### Supervisor and SubagentScheduler

`Supervisor` says what a supervisor of child tasks promises: a child is admitted
while the run is open, at most `Capacity` execute, and the run ends only when no
child task is left.  `SubagentScheduler` models `scheduler.py` with
`budgets.py`; its variables are the fields of the scheduler, of
`AgentThreadState` and of `BudgetLease`, plus the place where every task is
suspended (`task`), a cancellation that was requested and not yet delivered
(`cancelReq`), and asyncio's semaphore (`slots`, `slotQueue`).  Actors are the
root, which makes one scheduler call at a time, and one task per child.

Two facts about asyncio shape the model.  A semaphore slot that is freed is
handed to the oldest waiter at once, whose task resumes later (`granted`); a
cancellation can arrive in between, and `acquire` then passes the slot on
(`Surrender`).  And a task cancelled before its first step never enters its
coroutine (`NeverStarted`), so no handler of `_run_child` runs.
`asyncio.wait_for` of Python 3.11 may return a tool's result and drop a
cancellation that came in the same iteration (`CancelSwallowed`).

Abstracted: results, packets, agent definitions, the depth test (depth is 1 by
construction), trace events.  `used` and `reserved` count model calls; the tool
counters move in step.  Loop iterations of a child are counted because they
bound its turn.

`ImplementsSupervisor` maps admitted to the live tasks, executing to the tasks
inside the loop and over to the end of the root run.

### DurableLog and RolloutRecorder

`DurableLog` is what a session relies on: a log that only grows, keeps the order
of recording and contains what was acknowledged, across crashes.
`RolloutRecorder` models `threads/recorder.py` and `rollout/integrity.py`: the
queue, the writer task, the futures of flush and shutdown commands, the sticky
failure, and the file with its sequence numbers and hash chain.  Items are
numbered in the order they are recorded, so an item's number stands for the hash
of its row (`prev`).  The file is a sequence of rows plus one bit, `newline`:
whether its last row is terminated.  A torn row is `Garbage`.

`Torn` is the heart of the fault model: an append that raises or dies with the
process leaves some whole rows and then, depending on `Tears`, nothing, part of
a row, or a row without its newline.  `Crash` also stands for a session that
drops its recorder; `Open` is the constructor with loading and tail repair.
`upTo`, `base` and `promised` are history variables: what a flush covers.
`ImplementsLog` maps the log to the items a reader of the file gets.

Abstracted: contents of items, serialisation, the quarantine file, rows of
schema version 1.  There is one recorder per file, which is how the session
uses it.

### TurnLedger and TurnRecovery

`TurnLedger` is what a thread promises to its user, whatever happens to the process:
the user decides about a call once; a call is executed on that decision (once, if it
needs none) and never after its result is settled; the record on disk grows at its
end, a turn starts after all there is on record, and once it completed or failed
nothing more is said of it (a cancelled one may go on, see *Two terminals*).
`ImplementsLedger` maps executions and checkpointed results directly and the record
to the durable prefix of the rollout.

One thread of a conversation across process lifetimes.  `pc` says where
`ConversationSession` is suspended: in `run_turn` or `continue_incomplete_turn`,
in `AgentLoop.run`, in `ToolRuntime.execute`, in `TurnController._finalize`, in
`close`, or nowhere (`"down"`).  What survives the process is the latest
checkpoint (`ckpt`, point and serialised `RunState`), the stored approval
decisions (`decision`), the durable prefix of the rollout (`log`, `durable`) and
`metadata.json` (`meta`).

Every step ends with a durable write or at an await, so a crash comes between
any two durable writes, and a cancellation of the session's task at every await
(`CancelRun` inside the try block of `run_turn`, `CancelOutside` elsewhere).
Tool calls are numbered in the order the model issues them.  A number stands
for the call's stable action and approval ids, which do not change when the
call is resumed.  The client is the CLI: it continues an incomplete turn right
after `resume`, and an exception that leaves the session closes it.

`resumed` distinguishes the two entries into the loop, since only `run_turn`
catches what comes out of `run_existing`.  `issued`, `executions`, `answered`
and `manual` are history variables.

Abstracted: the recorder does not fail (its failures are in `RolloutRecorder`)
and the items that only inform are left out; SQLite writes succeed; approval
grants and hooks (a call that is allowed by a grant is one outside `Asking`);
the mailbox, external context and compaction; the iteration counter and the
tool call counter (their failures are `LoopFails`, which may happen at any
time); the cooperative `cancellation_requested`, which nothing sets.
`Refused` stands for every result a call can have without reaching its executor.

### McpConnection

`mcp/connection.py` under the adapters that call it and the manager that starts
and stops it.  Actors are the agents (`Callers`, a root and a child) and the
`Host`.  `pc` says at which await an actor is suspended; the two locks
`_refresh_lock` and `_reconnect_lock` are held by whoever is at one of the awaits
inside them (`Refreshing`, `Reconnecting`).  `connect`, `refresh_catalogs` and
`_stop_transport` are shared: `Connect(a)` holds their steps for the host and
for an agent that reconnects.  `owner` is the state of each transport owner task,
which sets `session` itself when it gets that far.  The server is the
environment: it changes and announces its catalogue, forgets sessions, breaks
transports.  It may forget a session, but `SessionNotFound` does not ask whether it
has: `_is_session_not_found` goes by a 404 anywhere in the chain of causes or by
words of the message, which an error on a session the server knows may have too.

`CancelCall`, `CancelConnect` and `CancelWait` are the tool timeout or the scheduler's
cancellation, at every await.  `_stop_transport` (`Waiting`) waits with the `wait_for` of
Python 3.11: after `cleanup_timeout_seconds` (`StopTimesOut`) or on a cancellation
(`CancelWait`) the owner task is cancelled, which puts it in `cut`, and waited for
without a limit.  A cancellation then (`Escape`) leaves the owner alive and the
connection without a transport.  Such an owner still ends, and its `finally` sets
`self.session` to None whatever session is there by then (`OwnerEnds`).

Left out: a call cancelled a second time in `tools/runtime.py:68`, whose outer
`wait_for` is left while the task of the tool still waits, so that `close_mcp` may run
beside it.

Abstracted: a catalogue is a version number, one listing has up to `MaxPages`
pages; resources and prompts take the path of `read`.  History: `overtaken`.

### ToolApproval

What a call passes before it runs: `Evaluate` is the permission engine,
`AfterHook` the hooks, `Authorization`, `Ruling` and `Proceed` the approvals and
grants of `tools/runtime.py`, `Effective` the scope that inline skills and deferred MCP
schemas leave; a skill that names no tools restricts nothing (`Restricted`), and a
tool marked as always loaded is there without its schema being asked for.
`ClearTurn` is the turn's part of the finally clause of
`run_existing`.  One process runs threads one after the other (`NewThread` keeps
the run manager, as `/new` does) with turns numbered from 1 in each, beside one
subagent with delegated MCP tools; `Crash` and `Resume` keep what the database
and the rollout keep.  A provider may repeat call ids.

Abstracted: tools by their traits (kind, risk, approval mode), paths by what the
path policy makes of them, rules by the requests they match.  History: `consents`
(what the user allowed) and `ran`.

### ThreadContext

What the model sees: the messages of a thread, the external context a user
selects before and during a turn, and compaction.  A message is a record of kind,
origin and part.  `Select` has the branches of `queue_external_context`;
`Request`, `ModelCalls`, `Guarded`, `ToolReturns` are the points at which the
loop drains its mailbox and appends; `Finalize` and `Compact` follow a turn;
`LimitReached` is a limit met before an iteration, or after the drain and before the
request; `Ends` is a crash, a cancellation or `close`; `Resume` is the recovery with
every refusal, from checkpoint or rollout, with `apply_latest`, and what
`_restore_external_context` puts back.  A summary is the sequence of messages it
was made of, so applying it twice or to others shows; that the code cuts it to
`max_summary_chars` is left out.  `Kept` is the filter the code
writes as a comprehension, defined so that it can be reasoned about.

`ResumeAgrees` makes two exceptions.  With `retain_recent_turns` above 1, a session
that resumed from its rollout without its summary may checkpoint messages that an
old record happens to match; the next resume then compacts them (its second
alternative).  And a thread whose compaction yields the very summary it had
(`SummaryRepeated`: the same content, selected again after crashes) cannot be told
from one that was not compacted, and may be resumed uncompacted.

### ProjectContext

Files of one user (trust, launch approvals, snapshots of activations, projects)
and one process at a time over them.  `Code`, `ResumeThread` and `NewThread` are
the three ways the CLI opens a thread, with the answers to the trust and launch
questions (`Answers`); `Loaded` is guidance in precedence order under the byte
budget, `Parsed`/`Resolved` the scopes of an MCP server name parsed one over the other,
`Activate` a skill activation with a write that may fail.  `Edit` changes a
project's files at any time.  Of files the model keeps versions; a source of
guidance is one document, and a snapshot that was written can be read again
(`SkillManager.resume` would skip one that was spoilt since).

### TraceLog

`events.jsonl` as the sink of a turn writes it: `Written` for a line that goes out,
`Unwritten` for one the encoder refuses (only its number is gone) or the disk
refuses (it stays in the buffer of the file object, partly written perhaps, and
goes out with the next).  The places of the turn are the emitting sites of
`agent_loop.py`; `Account` is the usage event, `AfterModel` the checkpoint that
keeps the response, `Reuse` a resume that uses it again.  `Resume` replays the
file into the view.  A subagent emits in between.  After a failed write the view may
lack what went out late, so `ViewOfFile` asks for the whole file only of a process
without one (`failed`), and for order and origin of every process.

The fault model has one limit.  A line longer than the buffer of the file object
(8 KiB) does not stay in it: of one that a short write cuts, the rest is lost, the next
line is glued to the part that went out, and neither can be read.  The model keeps
the rest, so what it says of numbers, view and counts holds for lines that fit; a
trace with such a fragment raises on every replay, like the *Torn trace* below.

### MemoryStore

Several processes on one SQLite file.  A write is a transaction and one step; a
search is up to two SELECTs, of the index (`Search`) and of the columns
(`Fallback`), with anything in between.  `rows` has the columns queries read and
the payload they return apart; `sources`, `index` and `tombstones` are the other
tables.  `Delete` has to reach all of them.  The retrieval event a search inserts is
not kept by the model; when that insert or a SELECT fails, the search raises and
shows nothing (`SearchFails`).

Abstracted: ranking (any rows up to the limit), tokenising (`Words`), redaction
(`Secret`).  All processes have the same SQLite.

## The runs

| Run | Checks |
|---|---|
| `scheduler_safety` | types, slots, wake-ups, leases, no orphan, refinement of `Supervisor` |
| `scheduler_liveness` | `NobodyWaitsForEver`: `cancel_all` ends the run, a queued child moves on |
| `recorder` | types; `LogSound`: acknowledged items survive, the file loads, CLOSED means drained; every flush ends; refinement of `DurableLog` |
| `turn` | types, no tool runs twice behind the user's back; `TurnsAccountedFor`: no turn is forgotten, run again after its end or given another's id; refinement of `TurnLedger`: decisions survive the process and are made once, the record is never rewritten; every turn ends |
| `turn_replay` | refutes `NoReplay`, see below |
| `mcp` | types; `SessionSound`: no transport forgotten or outliving the thread uncancelled, a catalogue of this session, no wait for a transport nobody stops; a tool call is sent once, an announced change is remembered; `SessionShared`: no agent closes a usable connection other than the one its request failed on, an unknown outcome is reported after a reconnect; every call returns |
| `approval` | types, an asked-for call runs on consent for this very call, no grant crosses a boundary, a denying rule gives way to the user on a protected path only, a turn leaves nothing |
| `context` | types, compaction takes no call from its result, no selected content is lost, a resumed session has what the turn left |
| `context_resumable` | refutes `ThreadResumable`, see below |
| `project` | types, nothing of an untrusted project is used, launches have consent, the resolver agrees with a declarative reference, activations are kept |
| `trace` | `FileSound`: types and increasing numbers; live view and file agree, a response is counted once |
| `memory` | `StoreSound`: types, one kept record per text, a deleted text is in no table, a kept record is backed; a search shows nothing that was gone before it began |

A property named in the table with a colon is the conjunction of properties that
are broken by different faults; each has a mutant of its own.

Bounds.

- *Scheduler*: two or three children; two suffice for a grant, a cancellation
  and a third party to meet on one slot, three for a queue behind them.
  `MaxTurns = 2` gives every child one follow-up turn; `ChildCalls` gives a turn
  an iteration more than its first.  Children and follow-up texts are
  interchangeable, and `scheduler_safety` uses that symmetry: all its properties
  are safety properties that name no child.  Its budget covers two first turns of
  three, so the third spawn is refused or waits for a lease to come back.
- *Recorder*: three items in batches of at most two, so an append can break inside a
  batch; the file is opened again after every crash, without a bound on crashes;
  three futures let two clients race.
- *Turns*: two, so that a turn can follow one that was cancelled, failed or
  handed over; two tool calls, one that asks and one that does not, in one
  response or in two; two model calls, so that the limit is reached both by
  requests that were answered and by requests the crash lost.  Crashes are not bounded.
- *MCP*: two agents and the host suffice for one to meet the lock, the transport or the
  session of another; one forgotten session, since a call may take any other for
  forgotten; two catalogues, two pages, so that a
  change and a reconnect can fall inside a listing.  One call each: calls
  interact through the connection, not through the caller.
- *Approvals*: seven tools, at least one of each kind but deletion (which always
  asks, as `shell` does), two approval modes of MCP tools, a path of each class
  (plain, protected, denied, malformed), one MCP tool deferred (the root asks for
  it) and one always loaded (only the subagent asks for it, with an argument a rule
  denies and with the malformed one), rules that deny, on a plain and on a protected
  path, that ask, and an ALLOW of an untrusted source, the two presets that differ
  most, two threads with the same two turn numbers, three calls (the third can meet what was said of two),
  one crash.  `MixedIds = FALSE`: see Disagreements.
- *Context*: two contents of which one fills a turn, two turns (three and two
  crashes for the refutation, which needs them), retention of one turn, so that
  the first is compacted.
- *Projects*: two directories, two versions, two processes, two threads; guidance
  of which not all fits; twenty configurations of a server name.
- *Trace*: three turns, so that a number can be reused after two failures; two
  responses, two faults, one crash.
- *Memory*: two records, since every property relates at most two; two texts with
  one hash; scopes with and without NULL columns; one reading process, since
  readers do not interact.  `Ids` are interchangeable.

Fairness of the scheduler (`FairSpec`): weak fairness of every child's task, since the event loop
runs each ready task and provider calls and tools carry timeouts, and of the
steps of the root that wait for no decision (`RootStep`).  The root's own calls
have no fairness: the model may stop calling.  A child that swallows its
cancellation still ends because its model calls are bounded, which is what
makes the run end.

The recorder's `FairSpec` has weak fairness of the writer, whose append in a
worker thread returns or raises, and of clients whose future is done.

The `FairSpec` of `TurnRecovery` has weak fairness of `SessionStep`, the steps
the event loop carries on with: provider requests and tools end because both
carry timeouts.  The user's answer to an approval, new turns, cancellations and
crashes have no fairness, nor has `Resume`, so `TurnEnds` says that a turn ends
or the session is left waiting for the user or dead.  What makes it hold is the
limit on model calls, which the checkpoint must therefore keep.

`Fairness` of `McpConnection`: as long as some agent or the host can go on
(`Resumes`: its request is answered or times out, its lock is free, its transport has
ended or the cleanup timeout has passed), one of them does; and a transport owner that
was cancelled ends.  Nothing more is asked of the order: the agents make finitely
many calls, so whoever waits for a lock gets it when the others are done, as with
the first come, first served `asyncio.Lock`.  Nothing makes an agent call, the server
change, an owner come up, or an owner that was only told to stop end.

`CHECK_DEADLOCK FALSE` stands where a bound on calls, turns or crashes, or a
process that is gone, really stops the system.

### Disagreements

Between the code and what its documents, comments or tests say.  "States" names
the property of the module; those of the two violation runs are checked by the
project, the others were refuted by TLC when they were written.

Scheduler:

- *Zombie child*: a refused reservation leaves a CREATED thread that
  `active_agent_ids` reports and that blocks the final answer
  (`ActiveCanConsumeWork`).
- *Lease*: cancelling a child before its task's first step keeps its lease.
- *Follow-up twice*: a follow-up to an idle child is injected as task and from
  the mailbox (`FollowupInjectedOnce`).
- *Follow-up lost*: a follow-up drained after `submit_result` is never acted on
  (`FollowupActedOn`).
- *Usage*: the reservation test ignores the usage of ended children, which the
  phase 2 design counts as global usage.
- *Child narrows*: a child is evaluated under the defaults of the loop and no rules, not
  under the preset and rules of its parent, so it may do what its parent may not
  (`ChildNarrows`).
- *Delegated only*: `_run_child` extends `enabled_tools` of a shallow copy of the agent's
  definition, whose list is the definition's own; a later child without the MCP
  tools is enabled for tools its registry does not hold and fails (`DelegatedOnly`).

Recorder and turns:

- *Torn newline*: `load_verified` accepts a last row without newline; the next
  append continues that line, and acknowledged items are cut off afterwards.
  `Tears = {"newline"}` breaks `LogSound`; the run and the proofs exclude it.
- *Cancelled flush*: cancelling a task inside `flush()` fails the recorder
  (`OnlyTheDiskFails`).
- *Replay* (`turn_replay`): the approval of a call replaces its `TOOL_IN_FLIGHT`
  checkpoint by `BEFORE_TOOL`; after a crash during the tool, resume executes it
  again (`NoReplay`).  `NoBlindReplay` is what remains true: tools that need no
  approval run once.
- *Two terminals*: a cancelled turn has `turn.cancelled` on record and a
  checkpoint that is not terminal, so resume continues it (`OneTerminal`).
  `FinishedIsFinal` is what remains true: a turn that completed or failed is over.
- *Start lost*: `turn.started` is queued only when the first checkpoint is
  committed, so the rollout may end a turn it has not started (`StartOnRecord`).
- *Cancel for ever*: `CANCEL_TURN` is stored as the decision of the call, every
  resume finds it and ends the process again.
- *Dangling calls*: a turn that ends between the calls of a response leaves them
  without results in the messages of later turns (`PairsIntact`, which a user
  message drained between the calls of a response and their results breaks as well).
- *Stale status*: a crash before the first checkpoint leaves the thread ACTIVE;
  `metadata.json` says IDLE before the terminal item is flushed.

Context:

- *Thread not resumable* (`context_resumable`): a thread that was compacted and
  crashed during a tool is taken up from its rollout, without the summary; the
  next turn is checkpointed in that shape, and from then on `apply_latest` raises
  out of every resume (`ThreadResumable`).

Tools and MCP:

- *Approval id*: `stable_approval_id` has the call's id and arguments and not the
  tool's name.  A response that gives one id to calls of two tools with the same
  arguments lets the decision about one answer for the other
  (`ApprovalCovers` with `MixedIds = TRUE`).
- *Listing not recovered*: a refresh that meets an expired session returns the
  error; the phase 5.1 design lists `tools/list` among the requests that are
  tried again (`ListRecovered`).
- *Owner left*: a second cancellation, or one after the cleanup timeout, leaves the
  wait of `_stop_transport` (connection.py:243) with the owner task alive, where the
  phase 5.1 design (27.4, lines 1864-1865) has no leaked task and no leaked stdio
  process (`OneTransport`).  When that owner ends, it takes the session from a
  transport opened since, which stays READY without one (`ReadyHasSession`).
  `NoLeakedTransport` is what remains true: such an owner has been cancelled.
- *Known session given up*: `_is_session_not_found` (connection.py:373) takes any 404
  in the chain of causes, or a message that mentions one, for an expired session; the
  phase 5.1 design (4.3 and 4.4) means the 404 a server gives to the id of a session it
  has ended.  A session the server knows may be closed, and the outcome of a tool
  call reported as unknown, on an unrelated error (`KnownSessionKept`).
  `HealthySessionKept` is what remains true: nobody closes a session other than the
  one his own request failed on.
- *Deny overridden*: the engine asks about a protected path before it reads the rules
  (permission_engine.py:26-31), so an approval or a grant lets a call run against a
  rule that denies it.  The phase 3 design says that no deny is overridden by an allow
  (5.4), that denying rules are evaluated before those that ask (11.2), and that DENY
  goes before ASK and ALLOW (29.1) (`DenyIsFinal`).  `BoundaryHolds` is what remains
  true: elsewhere a denying rule holds, and on a protected path only the user can
  override it.
- *Change forgotten*: a `list_changed` that arrives while a refresh reads is
  wiped out by the end of that refresh.  `ChangeRemembered` excludes it
  (`overtaken`).
- *Artifact quota*: `_put_bytes` tests the quota and adds to the counters in a
  worker thread, and the agents of a run share the store; two results that
  arrive together both pass the test, and the later addition to the turn's
  counter forgets the earlier (read, not modelled).

Project:

- *Untrusted shown*: `/new` reuses the `RunManager` (run_manager.py:316) with the
  guidance and skills the last thread loaded, and `resume` asks about the
  directory of the process, not of the thread (cli.py:354), so guidance of a
  project the user has not trusted is shown (`UntrustedNotShown`).
  `TrustedInPlace` is what remains true: a process with one thread, of its own directory.

Trace and memory (read, and met by the models):

- *Torn trace*: a line torn by a crash makes every replay of the file raise, and
  a thread with such a trace cannot be opened (jsonl.py:93, usage.py:139).
- *Stale memory*: adding a text again after it was invalidated returns the
  invalidated record; with thread and agent set, adding it again after a deletion
  raises an IntegrityError, because the deleted row still has its hash
  (store.py:75).  No reader looks at the tombstones (store.py:148).

## The proofs

`SubagentScheduler_proofs` proves, for every
finite set of agents and every value of the limits, all safety properties the
passing runs check, three more (`NoIdleSlot`, `KeyNamesScheduledChild`,
`DeadStaysDead`), and the refinement.  The assumption is
`SchedulerAssumption`.

- `TypeCorrect` needs more than types: `reserved` stays a natural number only
  because it is the sum of the held leases (`LeaseSum`), so both are proved
  together (`TypeInv`).
- `NoOrphan` rests on `OrphanInv`: the shape of a thread (which tasks go with
  which statuses, `ThreadShape`) and the fact that `cancel_all` still has every
  active child ahead of it (`CancelAllCovers`).
- `DeadForGood`, `BudgetNeverOversubscribed` and `KeysNameScheduledChildren`
  follow from those with `LeaseInv`.
- `SlotsConserved` and `NoSlotLeftIdle` need the queue: every blocked or granted
  task is in it exactly once (`QueueInv`), so waking the oldest waiter wakes
  somebody (`IdleInv`).
- `SchedulerImplementsSupervisor` shows every step to be a step or a stutter of
  `Supervisor` under these invariants.

`RolloutRecorder_proofs` proves, for any number of clients, items and futures:

- `TypeCorrect`, by `TypeInv` (a batch is an interval; only a file with a row can
  lack its newline).
- `FlushAnswered` and `FailureFinal`, by `LifeInv`: the writer works for an open
  recorder only, nothing but a shutdown is queued behind a shutdown, and the
  future of a shutdown is set by the end of the writer alone.
- `DurabilityCorrect`, `LoadingCorrect` and `ClosingCorrect`, by `DurableInv`,
  under the assumption `"newline" \notin Tears`; without it they are false (torn
  newline, above); `LogCorrect` joins them into `LogSound`.  The invariant says that while a recorder runs
  its counters describe the end of the file (`Disk`), and that every item a
  queued command covers is readable, in the batch, or queued before it
  (`Durable`).
- `LogImplemented`, under the same assumption: every step of the recorder lengthens
  the log in order, acknowledges what is in it, or stutters (`LogStep`).  It needs
  `OrderInv`: what is readable, being written and queued follows one another in the
  order of recording, so that an append, whole or broken off, only adds newer items.

`TurnRecovery_proofs` proves, for any number of turns and calls, any choice of
the calls that ask and any limit on model calls (`TurnAssumption`):

- `TypeCorrect`, by `TypeInv`: the calls a checkpoint or the run knows of were
  issued, and a session that is about to write a terminal item has a turn and an
  outcome for it.
- `ResponseCorrect`, by `FlowInv`, which ties the place of the session to the
  last checkpoint: a loop that makes a request has no open call, because it comes
  from an answered response, from a fresh turn, or from a checkpoint taken before
  a request.
- `ReplayCorrect`, by `BlindInv`: a call that needs no approval and was executed
  is open only while it executes, and a checkpoint in which it is still open is
  one that recovery does not continue.
- `ApprovalCorrect`: a decision is stored once, since the user is asked only about
  calls without one.
- `ResultsCorrect` (an action property), by `AnswerInv`: a call with a
  checkpointed result is open neither in the run nor in the last checkpoint.
- `LedgerImplemented`: every step decides, executes, settles or writes in `TurnLedger`,
  or stutters (`LedgerMoves`, `LedgerStep`).  On top of the invariants here it needs
  that the record tells one story, written to disk or not (`StoryStep`), and that a run
  has its results from a checkpoint or from the turn before (`ResultsKnownStep`).
- `AccountCorrect`, by `AccountInv`, over the few ways a step can move the record,
  the last checkpoint and the turn (`RecordMoves`).  Turns are numbered in order
  and a new one is unknown to record and checkpoint (`NumberInv`); a turn that is
  over on record is not the one an unfinished checkpoint would continue, because
  the terminal checkpoint comes first (`OverInv`); the turn whose end is written is
  the checkpointed one, unless the session closes next (`EndInv`).

`ToolApproval_proofs` proves, for any tools, rules, paths, presets, hooks and
requests (`ApprovalAssumption`) and any number of threads, turns, calls and crashes:

- `TypeCorrect`, by `TypeInv` and `PlaceInv`, which says at which places a call of the
  response is under way; the strongest of some rules is a verdict (`StrongestVerdict`).
- `NothingLeft`, by `ScopeInv`: grants, skills and schemas that belong to a turn
  belong to the one that runs, and there are none while none runs.
- `BoundaryCorrect`, by `VerdictInv`: from the evaluation of a call to its
  executor, a verdict that is no denial was given within the call's boundary; where
  a rule denies it, the verdict is ASK on a protected path.  What the user then said
  comes from `ConsentCorrect`, hence the assumption `~MixedIds` here as well.
- `ConsentCorrect`, by `ConsentInv`, for `~MixedIds` (without it the property is
  false, see *Approval id*).  The decisions on record outlive the process and the
  grants do not, so the invariant has to say for which calls a decision can still
  be found: those of the present response that are not settled or that a restart
  would run again (`PlaceInv`, `RecordInv`).  For each of them the user said it;
  every grant was said (`GrantInv`); and whatever ran on a decision for one call has
  used it up, or left a grant (`RanInv`, `ExecInv`).

`McpConnection_proofs` proves, for any set of agents, any page limit and any number
of calls, catalogues and forgotten sessions (`McpAssumption`), by the cases of `Steps`:

- `TypeCorrect` and `SessionCorrect`, by `LockInv` (one holder of each lock, agents
  at work only while the host serves), `LinkInv` (an owner other than that of the
  transport has ended or been cancelled, and the session is the transport's or none;
  whoever connects has a transport; what is ready is up) and `CatInv` (the
  catalogue, and every page that may replace it while the connection is ready, come
  from the session of now).  `AwaitedStops`, its third part, is inductive with
  `LockInv`: the transport an agent waits for can only be replaced by that agent.
  It is the safety half of `CallsReturn`.
- `SentCorrect`, by `SendInv`: how often a call was sent follows from where it is.
- `SharedCorrect` (two action properties), by `SharedInv`: a call sent on the session
  opened last, and no other, has noted the generation of now.  It holds because the
  generation is noted after the refresh and not before.
- `ChangeCorrect`, by `ChangeInv`: it speaks of pages as well, because a refresh may
  commit pages read before a change.

`TraceMemory_proofs` proves, of `MemoryStore`, for any number of processes, memories,
texts and keys, with and without the index (`MemoryAssumption`):

- `StoreCorrect`, by `TableInv`: every row is described in all tables at once,
  either kept and backed (`BackedRow`) or gone from everything but the tombstones
  (`DeletedRow`); a kept row and its payload agree (`KeptInv`), which the columns a
  query tests do not say by themselves.
- `OffersCorrect`, by `ReadInv`: what was gone when a search began stays gone
  (`GoneInv`), so neither SELECT can return it.

The same module proves, of `TraceLog`, for any number of turns, responses, subagents'
events, failed writes and crashes (`TraceAssumption`):

- `FileCorrect`, by `LinesInv`: the file and the buffer behind it are one sequence, in
  the order of numbers and of creation, and while a turn runs no number in it is above
  the sink's.  A new sink starts from the highest number of the file alone, which is
  enough because it opens with an empty buffer (`SinkInv`).
- `ViewCorrect`, by `ViewInv`: what is shown comes from the file, in its order.
- `CountCorrect`, by `ReplyInv`: wherever the turn works on a response, or holds a
  checkpoint that does, the response is on file and, while the process lives, in the
  view; a response about to be accounted for is on neither.  That it is there once
  needs the uncommitted lines as well (`Once` of file and buffer together).

`ProjectContext_proofs` proves, for any projects, threads, versions and processes,
any sizes and budget of guidance, and any configurations (`ProjectAssumption`):

- `TypeCorrect`, by `TypeInv`, which adds that a process that is up has a thread, and
  that the thread its skills write to exists.
- `TrustCorrect`, by `TrustInv`: while the process has one thread, of its own
  directory, what the session was trusted with it is trusted with still, and an
  untrusted session holds only the guidance there is without a project
  (`UntrustedLoads`).
- `ConsentCorrect`, by `ConsentInv`: every remembered launch was allowed, and whatever
  starts is of the project it was resolved for (`ServersStarted`).
- `ResolverCorrect`, from `ResolverChooses` by cases on the highest valid scope; it
  needs no induction.
- `KeptCorrect`, by `KeptInv`: no content is active or written twice for any thread,
  and the snapshots the skills write to are active, even after `/new`, when they are
  no longer those of the session's thread.

`ThreadContext_proofs` proves, for any contents, costs and digests, any number of kept
turns and any bounds (`ContextAssumption`):

- `TypeCorrect`, by `TypeInv`, `PcInv` and `WaitInv`: no content is put on record
  twice (`SelectedOnce`), and whatever is on record and not consumed is known by its
  digest, so what a restart puts back into the queue is new to it and all different.
- `ResultsKeepCalls`, by `CallsInv`: the calls of the response that executes are
  among the messages, and a compaction keeps every call and result in their order.
- `SelectedNotLost`, by `SeenInv`: the contents of a summary were in a request
  before anything was compacted.
- `ResumeCorrect` (an action property), by `SettledInv`: the terminal checkpoint
  holds either what the turn left, or what the compaction after it started from,
  and then its record is the last one.

They rest on what a filter of a sequence does (`KeptFacts`: which elements, in which
order, how often) and on where a compaction cuts (`BoundaryFacts`).  Such facts need
induction over data, which no backend instantiates; it is replaced by the least
counterexample, which exists because strict inclusion of finite sets is well founded
(`NatMin`).

Some theorems state properties that no run checks because they follow from others
there: `NoStuckFlush` and `FailureIsSticky` of the recorder, `ResponseReused`,
`ResultsReused` and `ApprovalRespected` of turns, three of the scheduler.

No safety property is model-checked only.  Liveness stays with TLC:
`NobodyWaitsForEver`, `FlushEnds`, `TurnEnds` and `CallsReturn` rest on fairness and
`ENABLED`, which TLAPS does not reach here.

## Not modelled

- Artifact store: see the quota above.
- Providers, built-in tools and the sandbox: network, file system and processes
  of the host.  The models take a provider call or a tool as something that
  returns, fails or is cancelled.
- Configuration, argument parsing, rendering, pricing, OAuth and token storage,
  result conversion, parsers of skills and guidance imports: sequential
  conversions without state that survives a call.
- `interrupt()` of the turn controller and the outbox of the checkpoint store have no caller.
