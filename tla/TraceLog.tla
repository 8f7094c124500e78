-------------------------------- MODULE TraceLog --------------------------------
(***************************************************************************)
(* The trace of a thread: events numbered and appended to events.jsonl by  *)
(* the sink of the turn that runs, shown live over the event bus, replayed *)
(* into the usage and phase view of a process that resumes the thread      *)
(* (tracing/, cli_observability.py, the emitting sites of agent_loop.py).  *)
(*                                                                         *)
(* The sink fails closed, as it does by default.  A line the disk refuses  *)
(* stays in the buffer of the file object, partly written perhaps, and     *)
(* goes out with the next line that is accepted; a line that cannot be     *)
(* encoded leaves nothing behind but its number.  Left out: a line longer  *)
(* than that buffer, of which the disk takes a part before it refuses.     *)
(* The rest of it is lost and the next line joins the part, so that no     *)
(* replay can read the file again.                                         *)
(***************************************************************************)
EXTENDS Integers, SequencesExt

CONSTANTS MaxTurns,    \* bound: sinks opened
          MaxCalls,    \* bound: responses of the provider
          MaxChild,    \* bound: events of subagents
          MaxFaults,   \* bound: writes that fail
          MaxCrashes   \* bound: crashes

ASSUME TraceAssumption == {MaxTurns, MaxCalls, MaxChild, MaxFaults, MaxCrashes} \subseteq Nat

VARIABLES
    file,      \* complete lines of events.jsonl
    torn,      \* the file ends inside the first line of the buffer
    buffer,    \* lines accepted and not written
    number,    \* sequence_number of the sink
    pc,        \* where the turn is: "down" without a process, "idle" without a turn
    point,     \* latest checkpoint: resume point and the response it holds
    reply,     \* response the turn is working on
    resuming,  \* resume_point the turn began with
    view,      \* events the reducer has applied
    ids,       \* events created so far
    calls,     \* responses of the provider so far
    turns, children, faults, crashes,
    failed     \* history: a write has failed in this process

disk == <<file, torn, buffer>>
counters == <<turns, children, crashes>>
turnVars == <<pc, point, reply, resuming>>
traceVars == <<disk, number, turnVars, view, ids, calls, counters, faults, failed>>

NoPoint == [at |-> "none", reply |-> 0]
Lasting == {"before_model", "after_model", "before_finalize"}
InTurn == pc \notin {"down", "idle"}

TraceInit ==
    /\ file = <<>> /\ torn = FALSE /\ buffer = <<>>
    /\ number = 0
    /\ pc = "idle" /\ point = NoPoint /\ reply = 0 /\ resuming = "none"
    /\ view = <<>>
    /\ ids = 0 /\ calls = 0
    /\ turns = 0 /\ children = 0 /\ faults = 0 /\ crashes = 0
    /\ failed = FALSE

-----------------------------------------------------------------------------
(* The sink.                                                               *)

Event(kind, call) == [id |-> ids + 1, n |-> number + 1, kind |-> kind, call |-> call]

\* RuntimeEventBus.publish to the one subscriber, which drops what it has seen.
Shown(e) == IF \E i \in DOMAIN view : view[i].id = e.id THEN view ELSE Append(view, e)

\* The buffer goes out, and the event with it; then it is published.
Written(e) ==
    /\ file' = file \o buffer \o <<e>>
    /\ torn' = FALSE
    /\ buffer' = <<>>
    /\ view' = Shown(e)
    /\ UNCHANGED <<faults, failed>>

\* A flush the disk stops somewhere in the lines that wait, which fit the
\* buffer.
FlushStops(lines) ==
    \E k \in 0..(Len(lines) - 1) :
        /\ file' = file \o SubSeq(lines, 1, k)
        /\ torn' \in (IF torn /\ k = 0 THEN {TRUE} ELSE BOOLEAN)
        /\ buffer' = SubSeq(lines, k + 1, Len(lines))

Fault == faults < MaxFaults /\ faults' = faults + 1 /\ failed' = TRUE

\* Mutant: the bus comes before the file.
UnwrittenPublished(e) ==
    /\ Fault
    /\ view' = Shown(e)
    /\ \/ FlushStops(Append(buffer, e))
       \/ UNCHANGED disk

\* _write_event raises, and what comes after it in the composite sees nothing:
\* the disk, or the encoding of the line.
Unwritten(e) ==
    /\ Fault
    /\ UNCHANGED view
    /\ \/ FlushStops(Append(buffer, e))
       \/ UNCHANGED disk

\* JsonlTraceSink.emit, and where the turn goes when it returns or raises.
Emit(kind, call, returned, raised) ==
    \E e \in {Event(kind, call)} :
        /\ number' = number + 1
        /\ ids' = ids + 1
        /\ \/ Written(e) /\ pc' = returned
           \/ Unwritten(e) /\ pc' = raised

\* Mutant: the numbers go on from how many lines there are.
LastNumberCounted == Len(file)

\* _read_last_sequence_number
LastNumber == Max({0} \cup {e.n : e \in ToSet(file)})

-----------------------------------------------------------------------------
(* A turn.                                                                 *)

\* run_existing opens the sink.  A torn last line is an error there, but no
\* process gets this far with one: the replay has refused it.
OpenSink(next) ==
    /\ turns < MaxTurns
    /\ turns' = turns + 1
    /\ pc' = next
    /\ number' = LastNumber

StartTurn ==
    /\ pc = "idle"
    /\ OpenSink("created")
    /\ reply' = 0
    /\ resuming' = "none"
    /\ UNCHANGED <<disk, point, view, ids, calls, children, crashes, faults, failed>>

\* turn.created and turn.started come before anything is caught.
Created ==
    /\ pc = "created"
    /\ Emit("started", 0,
            CASE resuming = "before_finalize" -> "recovering"
              [] resuming = "after_model" -> "reusing"
              [] OTHER -> "building",
            "raising")
    /\ UNCHANGED <<point, reply, resuming, calls, counters>>

\* CheckpointManager.save; what a crash leaves is what was saved.
Save(at, next) ==
    /\ point' = [at |-> at, reply |-> reply]
    /\ pc' = next
    /\ UNCHANGED <<disk, number, reply, resuming, view, ids, calls, counters, faults, failed>>

BeforeModel == pc = "building" /\ Save("before_model", "requesting")

Request ==
    /\ pc = "requesting"
    /\ Emit("request", 0, "calling", "failing")
    /\ UNCHANGED <<point, reply, resuming, calls, counters>>

ModelAnswers ==
    /\ pc = "calling"
    /\ calls < MaxCalls
    /\ calls' = calls + 1
    /\ reply' = calls + 1
    /\ pc' = "accounting"
    /\ UNCHANGED <<disk, number, point, resuming, view, ids, counters, faults, failed>>

\* A provider error, a limit, a cancellation.
ModelFails ==
    /\ pc = "calling"
    /\ pc' = "failing"
    /\ UNCHANGED <<disk, number, point, reply, resuming, view, ids, calls, counters, faults, failed>>

Account ==
    /\ pc = "accounting"
    /\ Emit("response", reply, "answered", "failing")
    /\ UNCHANGED <<point, reply, resuming, calls, counters>>

AfterModel == pc = "answered" /\ Save("after_model", "working")

\* Mutant: a response that is used again is accounted for again.
ReuseAccounted ==
    /\ pc = "reusing"
    /\ Emit("response", reply, "working", "failing")
    /\ UNCHANGED <<point, reply, resuming, calls, counters>>

Reuse ==
    /\ pc = "reusing"
    /\ Emit("reused", reply, "working", "failing")
    /\ UNCHANGED <<point, reply, resuming, calls, counters>>

\* The response asked for tools: the loop goes round.
NextIteration ==
    /\ pc = "working"
    /\ pc' = "building"
    /\ UNCHANGED <<disk, number, point, reply, resuming, view, ids, calls, counters, faults, failed>>

Finalizing ==
    /\ pc = "working"
    /\ Emit("finalizing", 0, "deciding", "failing")
    /\ UNCHANGED <<point, reply, resuming, calls, counters>>

BeforeFinalize == pc = "deciding" /\ Save("before_finalize", "completing")

Complete ==
    /\ \/ pc = "completing" /\ Emit("completed", 0, "finishing", "failing")
       \/ pc = "recovering" /\ Emit("recovered", 0, "finishing", "failing")
    /\ UNCHANGED <<point, reply, resuming, calls, counters>>

Terminal == pc = "finishing" /\ Save("terminal", "closing")

\* run.failed: an error here leaves run_existing without a last checkpoint.
Fail ==
    /\ pc = "failing"
    /\ Emit("failed", 0, "finishing", "raising")
    /\ UNCHANGED <<point, reply, resuming, calls, counters>>

\* Mutant: the turn leaves its sink open.
CloseForgotten ==
    /\ pc \in {"closing", "raising"}
    /\ pc' = IF pc = "closing" THEN "idle" ELSE "down"
    /\ view' = IF pc' = "down" THEN <<>> ELSE view
    /\ UNCHANGED <<disk, number, point, reply, resuming, ids, calls, counters, faults, failed>>

\* close() flushes what waits, or loses it and raises.  Nothing in the command
\* line catches what leaves a turn.
Close ==
    /\ pc \in {"closing", "raising"}
    /\ \/ /\ file' = file \o buffer
          /\ torn' = FALSE
          /\ pc' = IF pc = "closing" THEN "idle" ELSE "down"
          /\ UNCHANGED <<faults, failed>>
       \/ /\ buffer # <<>>
          /\ Fault
          /\ \E k \in 0..(Len(buffer) - 1) :
                /\ file' = file \o SubSeq(buffer, 1, k)
                /\ torn' \in (IF torn /\ k = 0 THEN {TRUE} ELSE BOOLEAN)
          /\ pc' = "down"
    /\ buffer' = <<>>
    /\ view' = IF pc' = "down" THEN <<>> ELSE view
    /\ UNCHANGED <<number, point, reply, resuming, ids, calls, counters>>

\* A subagent of the turn emits with the numbers of the same sink; an error is
\* the subagent's own.
ChildEmits ==
    /\ InTurn
    /\ children < MaxChild
    /\ children' = children + 1
    /\ Emit("child", 0, pc, pc)
    /\ UNCHANGED <<point, reply, resuming, calls, turns, crashes>>

-----------------------------------------------------------------------------
(* Processes.                                                              *)

Crash ==
    /\ pc # "down"
    /\ crashes < MaxCrashes
    /\ crashes' = crashes + 1
    /\ pc' = "down"
    /\ buffer' = <<>>
    /\ view' = <<>>
    /\ UNCHANGED <<file, torn, number, point, reply, resuming, ids, calls, turns, children, faults, failed>>

\* read_trace: no torn line, and numbers that increase.
Readable == ~torn /\ \A i \in 2..Len(file) : file[i - 1].n < file[i].n

\* CliObservability.replay, then the live subscription, then the turn the last
\* checkpoint left open.
Resume ==
    /\ pc = "down" /\ Readable
    /\ view' = file
    /\ failed' = FALSE
    /\ IF point.at \in Lasting
       THEN /\ OpenSink("created")
            /\ reply' = point.reply
            /\ resuming' = point.at
       ELSE pc' = "idle" /\ UNCHANGED <<turns, number, reply, resuming>>
    /\ UNCHANGED <<disk, point, ids, calls, children, crashes, faults>>

TraceNext ==
    \/ StartTurn \/ Created
    \/ BeforeModel \/ Request \/ ModelAnswers \/ ModelFails \/ Account \/ AfterModel \/ Reuse
    \/ NextIteration \/ Finalizing \/ BeforeFinalize \/ Complete \/ Terminal \/ Fail \/ Close
    \/ ChildEmits \/ Crash \/ Resume

TraceSpec == TraceInit /\ [][TraceNext]_traceVars

-----------------------------------------------------------------------------
(* Properties.                                                             *)

Accounted(events, call) == Cardinality({i \in DOMAIN events : events[i].kind = "response" /\ events[i].call = call})

\* What is torn waits to be completed, or nobody holds the file.
TraceTypeOK ==
    /\ \A e \in ToSet(file) \cup ToSet(buffer) : e.n \in 1..ids /\ e.id \in 1..ids /\ e.call \in 0..MaxCalls
    /\ {point.reply, reply} \subseteq 0..calls
    /\ torn /\ InTurn => buffer # <<>>
    /\ ~InTurn => buffer = <<>>
    /\ pc = "down" => view = <<>>

Increasing(events) == \A i, j \in DOMAIN events : i < j => events[i].n < events[j].n

\* The numbers of the file strictly increase, over turns, subagents, failed
\* writes and crashes, so that a replay never refuses the file for its order;
\* and what is torn or kept back belongs to a sink that is still open.
FileSound == TraceTypeOK /\ Increasing(file)

\* Nothing is shown that a replay would not show, once and in the order of the
\* numbers, which is that of the file; and a process in which no write has
\* failed shows the whole file.
ViewOfFile ==
    /\ ToSet(view) \subseteq ToSet(file)
    /\ Increasing(view)
    /\ pc # "down" /\ ~failed => view = file

\* The tokens of a response a turn has built on are counted exactly once, in
\* the file and in the view, and of no response twice, whether the turn failed,
\* was resumed or replayed.
CountedOnce ==
    /\ \A call \in 1..calls : Accounted(file, call) <= 1
    /\ pc \in {"working", "deciding", "completing"} =>
          Accounted(file, reply) = 1 /\ Accounted(view, reply) = 1

=============================================================================
