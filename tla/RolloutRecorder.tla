-------------------------- MODULE RolloutRecorder --------------------------
(***************************************************************************)
(* threads/recorder.py with rollout/integrity.py: the single writer of a   *)
(* thread's rollout.jsonl.  Clients queue items and commands without being *)
(* suspended; one writer task takes them in order and appends each batch   *)
(* in a worker thread; flush() and shutdown() wait for a future the writer *)
(* completes.  The process may die at any time, and the next one loads the *)
(* file, repairs its tail and goes on.                                     *)
(*                                                                         *)
(* Items are numbered in the order they are recorded.  An item is recorded *)
(* once, so its number stands for the hash of its row.                     *)
(***************************************************************************)
EXTENDS Integers, Sequences, FiniteSets

CONSTANTS Clients,   \* tasks that flush or shut the recorder down
          MaxItems,  \* bound: items recorded over all recorders
          MaxBatch,  \* bound: items of one record() call
          MaxAcks,   \* bound: futures one recorder hands out
          Tears      \* where an interrupted append may break the last row

ASSUME RecorderAssumption ==
    /\ MaxItems \in Nat
    /\ MaxBatch \in Nat
    /\ MaxAcks \in Nat
    /\ Tears \subseteq {"clean",    \* after a row and its newline
                        "partial",  \* inside a row
                        "newline"}  \* between a row and its newline

VARIABLES
    file,      \* the rows of rollout.jsonl
    newline,   \* the file is empty or its last row ends with a newline
    state,     \* RecorderState; "down" without a recorder, "corrupt" when
               \* loading raised RolloutIntegrityError
    failure,   \* _failure
    writer,    \* the writer task
    queue,     \* _queue
    batch,     \* the command being appended
    sequence,  \* _sequence
    previous,  \* _previous_hash
    ack,       \* the futures of the flush and shutdown commands
    call,      \* where each client is suspended, and on which future
    recorded,  \* history: items recorded so far
    base,      \* history: items recorded before this recorder was opened
    upTo,      \* history: items recorded when a future was created
    promised   \* history: items acknowledged by a flush

diskVars == <<file, newline>>
writerVars == <<writer, batch, sequence, previous>>
countVars == <<recorded, base>>
vars == <<diskVars, state, failure, writerVars, queue, ack, call, countVars, upTo, promised>>

Acks == 1..MaxAcks

Garbage == [item |-> 0, seq |-> 0, prev |-> 0]

Idle == [at |-> "idle", ack |-> 0]

Items(lo, hi) == [kind |-> "items", lo |-> lo, hi |-> hi, ack |-> 0]
Command(kind, k) == [kind |-> kind, lo |-> 0, hi |-> 0, ack |-> k]

Nothing == Items(1, 0)

-----------------------------------------------------------------------------
(* The file.                                                               *)

\* The rows _append_items makes of a batch.
Rows(b) ==
    [j \in 1..(b.hi - b.lo + 1) |->
        [item |-> b.lo + j - 1,
         seq |-> sequence + j,
         prev |-> IF j = 1 THEN previous ELSE b.lo + j - 2]]

\* Rows written behind a row without newline run into it.
Written(rows) ==
    IF rows = <<>> \/ newline THEN file \o rows
    ELSE SubSeq(file, 1, Len(file) - 1) \o <<Garbage>> \o Tail(rows)

\* An append that is broken off: some rows whole, the next one torn.
Torn(b) ==
    \E k \in 0..(b.hi - b.lo + 1), tear \in Tears :
        LET whole == SubSeq(Rows(b), 1, k)
            rows == IF tear = "clean" \/ k = b.hi - b.lo + 1 THEN whole
                    ELSE whole \o <<IF tear = "partial" THEN Garbage ELSE Rows(b)[k + 1]>>
        IN /\ file' = Written(rows)
           /\ newline' = IF rows = <<>> THEN newline ELSE Len(rows) = k

Follows(f, i) ==
    /\ f[i].seq = i
    /\ f[i].prev = IF i = 1 THEN 0 ELSE f[i - 1].item

\* load_verified: a last row that does not parse is cut off, everything
\* else must be a chain.
Trimmed(f) ==
    IF f # <<>> /\ f[Len(f)] = Garbage THEN SubSeq(f, 1, Len(f) - 1) ELSE f

Loads(f) == \A i \in DOMAIN Trimmed(f) : f[i] # Garbage /\ Follows(f, i)

\* The items a reader gets.
Readable == {Trimmed(file)[i].item : i \in DOMAIN Trimmed(file)}

-----------------------------------------------------------------------------
Init ==
    /\ file = <<>>
    /\ newline = TRUE
    /\ state = "down"
    /\ failure = "none"
    /\ writer = "none"
    /\ queue = <<>>
    /\ batch = Nothing
    /\ sequence = 0
    /\ previous = 0
    /\ ack = [k \in Acks |-> "unused"]
    /\ call = [c \in Clients |-> Idle]
    /\ recorded = 0
    /\ base = 0
    /\ upTo = [k \in Acks |-> 0]
    /\ promised = {}

\* Mutant: the torn tail is skipped by the reader and left in the file.
OpenUnrepaired ==
    /\ state = "down"
    /\ UNCHANGED diskVars
    /\ \/ /\ Loads(file)
          /\ state' = "OPEN"
          /\ sequence' = Len(Trimmed(file))
          /\ previous' = IF Trimmed(file) = <<>> THEN 0 ELSE file[Len(Trimmed(file))].item
       \/ /\ ~Loads(file)
          /\ state' = "corrupt"
          /\ UNCHANGED <<sequence, previous>>
    /\ base' = recorded
    /\ UNCHANGED <<failure, writer, batch, queue, ack, call, recorded, upTo, promised>>

\* Mutant: the next row gets the number of the last one.
OpenOffByOne ==
    /\ state = "down"
    /\ state' = "OPEN"
    /\ file' = Trimmed(file)
    /\ newline' = (newline \/ file # Trimmed(file))
    /\ sequence' = Len(Trimmed(file)) - 1
    /\ previous' = IF Trimmed(file) = <<>> THEN 0 ELSE file[Len(Trimmed(file))].item
    /\ base' = recorded
    /\ UNCHANGED <<failure, writer, batch, queue, ack, call, recorded, upTo, promised>>

\* The constructor loads and repairs the file.  Loading stops at a row in
\* the middle that is not the successor of the one before.
Open ==
    /\ state = "down"
    /\ \/ /\ Loads(file)
          /\ state' = "OPEN"
          /\ file' = Trimmed(file)
          /\ newline' = (newline \/ file # Trimmed(file))
          /\ sequence' = Len(Trimmed(file))
          /\ previous' = IF Trimmed(file) = <<>> THEN 0 ELSE file[Len(Trimmed(file))].item
       \/ /\ ~Loads(file)
          /\ state' = "corrupt"
          /\ UNCHANGED <<diskVars, sequence, previous>>
    /\ base' = recorded
    /\ UNCHANGED <<failure, writer, batch, queue, ack, call, recorded, upTo, promised>>

\* The process dies, or the session drops the recorder.
Crash ==
    /\ state # "down"
    /\ state' = "down"
    /\ IF writer = "appending" THEN Torn(batch) ELSE UNCHANGED diskVars
    /\ failure' = "none"
    /\ writer' = "none"
    /\ queue' = <<>>
    /\ batch' = Nothing
    /\ sequence' = 0
    /\ previous' = 0
    /\ ack' = [k \in Acks |-> "unused"]
    /\ call' = [c \in Clients |-> Idle]
    /\ upTo' = [k \in Acks |-> 0]
    /\ UNCHANGED <<countVars, promised>>

-----------------------------------------------------------------------------
(* Clients.                                                                *)

\* Mutant: a command overtakes the items queued before it.
EnqueueFirst(command) ==
    /\ queue' = <<command>> \o queue
    /\ writer' = IF writer = "none" THEN "waiting" ELSE writer

\* start() and an unbounded put: the caller is not suspended.
Enqueue(command) ==
    /\ queue' = Append(queue, command)
    /\ writer' = IF writer = "none" THEN "waiting" ELSE writer

\* record and record_nowait; both refuse a recorder that is not OPEN.
Record(n) ==
    /\ state = "OPEN"
    /\ recorded + n <= MaxItems
    /\ recorded' = recorded + n
    /\ Enqueue(Items(recorded + 1, recorded + n))
    /\ UNCHANGED <<diskVars, state, failure, batch, sequence, previous, ack, call, base,
                   upTo, promised>>

NewAck(k) ==
    /\ ack[k] = "unused"
    /\ \A j \in 1..(k - 1) : ack[j] # "unused"
    /\ ack' = [ack EXCEPT ![k] = "pending"]
    /\ upTo' = [upTo EXCEPT ![k] = recorded]

Flush(c, k) ==
    /\ state = "OPEN"
    /\ call[c] = Idle
    /\ NewAck(k)
    /\ Enqueue(Command("flush", k))
    /\ call' = [call EXCEPT ![c] = [at |-> "flush", ack |-> k]]
    /\ UNCHANGED <<diskVars, state, failure, batch, sequence, previous, countVars, promised>>

\* The awaited future is done; a set one tells the client that everything
\* recorded before its call is durable.
FlushReturns(c) ==
    /\ call[c].at = "flush"
    /\ ack[call[c].ack] \in {"set", "error"}
    /\ promised' = IF ack[call[c].ack] = "set"
                   THEN promised \cup (base + 1)..upTo[call[c].ack] ELSE promised
    /\ call' = [call EXCEPT ![c] = Idle]
    /\ UNCHANGED <<diskVars, state, failure, writerVars, queue, ack, countVars, upTo>>

\* The flushing task is cancelled, and with it the future it awaits.
FlushCancelled(c) ==
    /\ call[c].at = "flush"
    /\ ack' = [ack EXCEPT ![call[c].ack] = IF @ = "pending" THEN "cancelled" ELSE @]
    /\ call' = [call EXCEPT ![c] = Idle]
    /\ UNCHANGED <<diskVars, state, failure, writerVars, queue, countVars, upTo, promised>>

\* shutdown: a failed recorder raises and a closed one returns at once.
Shutdown(c, k) ==
    /\ state \in {"OPEN", "CLOSING"}
    /\ call[c] = Idle
    /\ \/ /\ writer = "none"
          /\ state' = "CLOSED"
          /\ UNCHANGED <<writer, queue, ack, call, upTo>>
       \/ /\ writer # "none"
          /\ state' = "CLOSING"
          /\ NewAck(k)
          /\ Enqueue(Command("shutdown", k))
          /\ call' = [call EXCEPT ![c] = [at |-> "drain", ack |-> k]]
    /\ UNCHANGED <<diskVars, failure, batch, sequence, previous, countVars, promised>>

\* The shielded future is done: next the end of the writer is awaited.
ShutdownDrained(c) ==
    /\ call[c].at = "drain"
    /\ ack[call[c].ack] = "set"
    /\ call' = [call EXCEPT ![c].at = "join"]
    /\ UNCHANGED <<diskVars, state, failure, writerVars, queue, ack, countVars, upTo, promised>>

ShutdownReturns(c) ==
    /\ call[c].at = "join"
    /\ writer = "ended"
    /\ state' = "CLOSED"
    /\ call' = [call EXCEPT ![c] = Idle]
    /\ UNCHANGED <<diskVars, failure, writerVars, queue, ack, countVars, upTo, promised>>

\* Mutant: a timeout counts as closed.
ShutdownGivesUp(c) ==
    /\ call[c].at \in {"drain", "join"}
    /\ state' = "CLOSED"
    /\ call' = [call EXCEPT ![c] = Idle]
    /\ UNCHANGED <<diskVars, failure, writerVars, queue, ack, countVars, upTo, promised>>

\* The wait times out, is cancelled or gets the writer's failure; shield
\* keeps the future alive.
ShutdownRaises(c) ==
    /\ call[c].at \in {"drain", "join"}
    /\ call' = [call EXCEPT ![c] = Idle]
    /\ UNCHANGED <<diskVars, state, failure, writerVars, queue, ack, countVars, upTo, promised>>

-----------------------------------------------------------------------------
(* The writer.                                                             *)

\* Mutant: commands left in the queue are forgotten.
FailQuietly(cause) ==
    /\ failure' = cause
    /\ state' = "FAILED"
    /\ writer' = "ended"
    /\ queue' = <<>>
    /\ UNCHANGED ack

\* _set_failure: every queued command gets the failure and the writer ends.
SetFailure(cause) ==
    /\ failure' = cause
    /\ state' = "FAILED"
    /\ writer' = "ended"
    /\ queue' = <<>>
    /\ ack' = [k \in Acks |->
                 IF ack[k] = "pending" /\ \E i \in DOMAIN queue : queue[i].ack = k
                 THEN "error" ELSE ack[k]]

TakeItems ==
    /\ writer = "waiting"
    /\ queue # <<>>
    /\ Head(queue).kind = "items"
    /\ batch' = Head(queue)
    /\ queue' = Tail(queue)
    /\ writer' = "appending"
    /\ UNCHANGED <<diskVars, state, failure, sequence, previous, ack, call, countVars, upTo,
                   promised>>

\* Mutant: the chain is continued from the first row of the batch.
AppendedStale ==
    /\ writer = "appending"
    /\ file' = Written(Rows(batch))
    /\ newline' = TRUE
    /\ sequence' = sequence + (batch.hi - batch.lo + 1)
    /\ previous' = batch.lo
    /\ batch' = Nothing
    /\ writer' = "waiting"
    /\ UNCHANGED <<state, failure, queue, ack, call, countVars, upTo, promised>>

\* The batch is written and synced.
Appended ==
    /\ writer = "appending"
    /\ file' = Written(Rows(batch))
    /\ newline' = TRUE
    /\ sequence' = sequence + (batch.hi - batch.lo + 1)
    /\ previous' = batch.hi
    /\ batch' = Nothing
    /\ writer' = "waiting"
    /\ UNCHANGED <<state, failure, queue, ack, call, countVars, upTo, promised>>

\* Mutant: the writer logs the error and takes the next command.
AppendSkipped ==
    /\ writer = "appending"
    /\ UNCHANGED <<diskVars, state, failure, sequence, previous, queue, ack>>
    /\ batch' = Nothing
    /\ writer' = "waiting"
    /\ UNCHANGED <<call, countVars, upTo, promised>>

\* The append raises, having written some of the batch.  The counters in
\* memory are of no further use: nothing is appended after a failure.
AppendFails ==
    /\ writer = "appending"
    /\ Torn(batch)
    /\ SetFailure("disk")
    /\ batch' = Nothing
    /\ UNCHANGED <<sequence, previous, call, countVars, upTo, promised>>

\* set_result; on a cancelled future it raises, and that is a failure like
\* any other.
AnswerFlush ==
    /\ writer = "waiting"
    /\ queue # <<>>
    /\ Head(queue).kind = "flush"
    /\ \/ /\ ack[Head(queue).ack] = "pending"
          /\ ack' = [ack EXCEPT ![Head(queue).ack] = "set"]
          /\ queue' = Tail(queue)
          /\ UNCHANGED <<state, failure, writer>>
       \/ /\ ack[Head(queue).ack] = "cancelled"
          /\ SetFailure("cancelled flush")
    /\ UNCHANGED <<diskVars, batch, sequence, previous, call, countVars, upTo, promised>>

AnswerShutdown ==
    /\ writer = "waiting"
    /\ queue # <<>>
    /\ Head(queue).kind = "shutdown"
    /\ ack' = [ack EXCEPT ![Head(queue).ack] = "set"]
    /\ queue' = Tail(queue)
    /\ writer' = "ended"
    /\ UNCHANGED <<diskVars, state, failure, batch, sequence, previous, call, countVars, upTo,
                   promised>>

WriterStep == TakeItems \/ Appended \/ AppendFails \/ AnswerFlush \/ AnswerShutdown

ClientStep(c) ==
    \/ FlushReturns(c) \/ FlushCancelled(c)
    \/ ShutdownDrained(c) \/ ShutdownReturns(c) \/ ShutdownRaises(c)

Next ==
    \/ Open \/ Crash
    \/ \E n \in 1..MaxBatch : Record(n)
    \/ \E c \in Clients : ClientStep(c) \/ \E k \in Acks : Flush(c, k) \/ Shutdown(c, k)
    \/ WriterStep

Spec == Init /\ [][Next]_vars

\* The event loop runs the writer and every client whose future is done;
\* the worker thread's append returns or raises.
FairSpec ==
    /\ Spec
    /\ WF_vars(WriterStep)
    /\ \A c \in Clients : WF_vars(FlushReturns(c))

-----------------------------------------------------------------------------
(* Properties.                                                             *)

Row == [item : Nat, seq : Nat, prev : Nat]

CommandType == [kind : {"items", "flush", "shutdown"}, lo : Nat, hi : Nat, ack : Acks \cup {0}]

\* The domain of every variable.
TypeOK ==
    /\ file \in Seq(Row)
    /\ newline \in BOOLEAN
    /\ state \in {"down", "corrupt", "OPEN", "FAILED", "CLOSING", "CLOSED"}
    /\ failure \in {"none", "disk", "cancelled flush"}
    /\ writer \in {"none", "waiting", "appending", "ended"}
    /\ queue \in Seq(CommandType)
    /\ batch \in CommandType
    /\ sequence \in Nat
    /\ previous \in Nat
    /\ ack \in [Acks -> {"unused", "pending", "set", "error", "cancelled"}]
    /\ call \in [Clients -> [at : {"idle", "flush", "drain", "join"}, ack : Acks \cup {0}]]
    /\ recorded \in Nat
    /\ base \in Nat
    /\ upTo \in [Acks -> Nat]
    /\ promised \in SUBSET Nat

\* The items an acknowledged flush covers are still there for the next
\* reader, whatever crashed since.
PromiseKept == promised \subseteq Readable

\* Whatever an interrupted append left behind, the thread loads again.
AlwaysLoads == Loads(file)

\* A client suspended in flush() has its future answered, or the command
\* is still ahead of a writer that lives.
NoStuckFlush ==
    \A c \in Clients :
        call[c].at = "flush" /\ ack[call[c].ack] = "pending" =>
            /\ writer \in {"waiting", "appending"}
            /\ \E i \in DOMAIN queue : queue[i] = Command("flush", call[c].ack)

\* A closed recorder has written everything it was given.
ClosedIsDrained ==
    state = "CLOSED" => \A j \in (base + 1)..recorded : j \in Readable

\* What the file owes its readers: it loads, and it holds what a flush or a
\* shutdown said it holds, through failed appends, cancellations and crashes.
LogSound == PromiseKept /\ AlwaysLoads /\ ClosedIsDrained

\* The first failure is final: nothing is written and nothing else is
\* reported until the recorder is gone.
FailureIsSticky ==
    [][state = "FAILED" => /\ state' \in {"FAILED", "down"}
                           /\ UNCHANGED diskVars
                           /\ state' = "FAILED" => failure' = failure]_vars

\* flush() always comes back.
FlushEnds == \A c \in Clients : (call[c].at = "flush") ~> (call[c].at # "flush")

\* The rollout implements the durable log its sessions rely on.
Log == INSTANCE DurableLog WITH
          log <- [i \in DOMAIN Trimmed(file) |-> file[i].item]

ImplementsLog == Log!LogSpec

\* Thread/Turn/Item plan, 9.3: after a flush "the writer goes on"; a flush
\* whose caller was cancelled must not stop the recorder.
OnlyTheDiskFails == failure # "cancelled flush"
=============================================================================
