----------------------- MODULE RolloutRecorder_proofs -----------------------
(* Safety of the rollout recorder, for any number of clients, items,       *)
(* batches and futures.                                                    *)
EXTENDS RolloutRecorder, SequenceTheorems, TLAPS

\* A batch is an interval of item numbers, perhaps empty.
Interval(b) == b.lo >= 1 /\ b.hi >= b.lo - 1

\* Types alone are not inductive: rows are numbered from the bounds of the
\* batch, and only a file with a row can lack its last newline.
TypeInv ==
    /\ TypeOK
    /\ Interval(batch)
    /\ \A i \in DOMAIN queue : queue[i].kind = "items" => Interval(queue[i])
    /\ file = <<>> => newline

-----------------------------------------------------------------------------
(* Lemmas about the file.                                                  *)

\* The rows made of a batch: as many as it has items, numbered in order.
LEMMA RowsType ==
    ASSUME NEW b \in CommandType, Interval(b), sequence \in Nat, previous \in Nat
    PROVE  /\ b.hi - b.lo + 1 \in Nat
           /\ Rows(b) \in Seq(Row)
           /\ Len(Rows(b)) = b.hi - b.lo + 1
           /\ \A j \in 1..(b.hi - b.lo + 1) :
                Rows(b)[j] = [item |-> b.lo + j - 1, seq |-> sequence + j,
                              prev |-> IF j = 1 THEN previous ELSE b.lo + j - 2]
<1>1. b.lo \in Nat /\ b.hi \in Nat /\ b.hi - b.lo + 1 \in Nat /\ b.lo >= 1
  BY DEF CommandType, Interval
<1>2. ASSUME NEW j \in 1..(b.hi - b.lo + 1)
      PROVE  [item |-> b.lo + j - 1, seq |-> sequence + j,
              prev |-> IF j = 1 THEN previous ELSE b.lo + j - 2] \in Row
  <2>1. b.lo + j - 1 \in Nat /\ sequence + j \in Nat /\ (j # 1 => b.lo + j - 2 \in Nat)
    BY <1>1
  <2> QED BY <2>1 DEF Row
<1> DEFINE n == b.hi - b.lo + 1
<1>3. Rows(b) \in [1..n -> Row]
  BY <1>2 DEF Rows
<1> HIDE DEF n
<1>4. Rows(b) \in Seq(Row) /\ Len(Rows(b)) = n
  <2>1. n \in Nat
    BY <1>1 DEF n
  <2> QED BY <1>3, <2>1
<1> QED BY <1>1, <1>4 DEF Rows, n

\* Appending rows to a file with a final newline.
LEMMA WrittenType ==
    ASSUME file \in Seq(Row), newline \in BOOLEAN, file = <<>> => newline,
           NEW rows \in Seq(Row)
    PROVE  /\ Written(rows) \in Seq(Row)
           /\ Written(rows) = <<>> => rows = <<>> /\ file = <<>>
<1>1. CASE rows = <<>> \/ newline
  BY <1>1 DEF Written
<1>2. CASE ~(rows = <<>> \/ newline)
  <2>1. file # <<>> /\ Len(file) \in Nat /\ Len(file) >= 1
    BY <1>2, EmptySeq
  <2>2. SubSeq(file, 1, Len(file) - 1) \in Seq(Row)
    BY <2>1
  <2>3. <<Garbage>> \in Seq(Row) /\ Len(<<Garbage>>) = 1
    BY DEF Garbage, Row
  <2>4. Tail(rows) \in Seq(Row)
    BY <1>2
  <2>5. /\ SubSeq(file, 1, Len(file) - 1) \o <<Garbage>> \in Seq(Row)
        /\ Len(SubSeq(file, 1, Len(file) - 1) \o <<Garbage>>) >= 1
    BY <2>2, <2>3
  <2> QED BY <1>2, <2>4, <2>5 DEF Written
<1> QED BY <1>1, <1>2

\* A broken append leaves a file of rows.
LEMMA TornType ==
    ASSUME TypeInv, Torn(batch)
    PROVE  /\ file' \in Seq(Row) /\ newline' \in BOOLEAN
           /\ file' = <<>> => newline'
<1> DEFINE n == batch.hi - batch.lo + 1
<1>1. PICK k \in 0..n, tear \in Tears :
        LET whole == SubSeq(Rows(batch), 1, k)
            rows == IF tear = "clean" \/ k = n THEN whole
                    ELSE whole \o <<IF tear = "partial" THEN Garbage ELSE Rows(batch)[k + 1]>>
        IN /\ file' = Written(rows)
           /\ newline' = IF rows = <<>> THEN newline ELSE Len(rows) = k
  BY DEF Torn
<1> DEFINE whole == SubSeq(Rows(batch), 1, k)
           rows == IF tear = "clean" \/ k = n THEN whole
                   ELSE whole \o <<IF tear = "partial" THEN Garbage ELSE Rows(batch)[k + 1]>>
<1>2. /\ n \in Nat /\ Rows(batch) \in Seq(Row) /\ Len(Rows(batch)) = n
  BY RowsType DEF TypeInv, TypeOK
<1> HIDE DEF n
<1>3. whole \in Seq(Row)
  BY <1>2
<1>4. k # n => Rows(batch)[k + 1] \in Row
  BY <1>2
<1>5. Garbage \in Row
  BY DEF Garbage, Row
<1> HIDE DEF whole
<1>6. rows \in Seq(Row)
  BY <1>3, <1>4, <1>5
<1>7. file' = Written(rows) /\ newline' = IF rows = <<>> THEN newline ELSE Len(rows) = k
  BY <1>1 DEF n, whole
<1> HIDE DEF rows
<1>8. Written(rows) \in Seq(Row) /\ (Written(rows) = <<>> => rows = <<>> /\ file = <<>>)
  BY <1>6, WrittenType DEF TypeInv, TypeOK
<1> QED BY <1>7, <1>8 DEF TypeInv, TypeOK

\* What a reader sees is a sequence of rows.
LEMMA TrimmedType ==
    ASSUME NEW f \in Seq(Row)
    PROVE  /\ Trimmed(f) \in Seq(Row)
           /\ Len(Trimmed(f)) <= Len(f)
           /\ \A i \in 1..Len(Trimmed(f)) : Trimmed(f)[i] = f[i]
           /\ Trimmed(f) # <<>> => f[Len(Trimmed(f))].item \in Nat
<1>1. /\ Trimmed(f) \in Seq(Row)
      /\ Len(Trimmed(f)) <= Len(f)
      /\ \A i \in 1..Len(Trimmed(f)) : Trimmed(f)[i] = f[i]
  BY EmptySeq DEF Trimmed
<1>2. ASSUME Trimmed(f) # <<>> PROVE f[Len(Trimmed(f))].item \in Nat
  <2>1. Len(Trimmed(f)) \in 1..Len(Trimmed(f))
    BY <1>1, <1>2, EmptySeq
  <2>2. Trimmed(f)[Len(Trimmed(f))] \in Row
    BY <1>1, <2>1
  <2> QED BY <1>1, <2>1, <2>2 DEF Row
<1> QED BY <1>1, <1>2

-----------------------------------------------------------------------------
(* Types.                                                                  *)

\* Queueing a well-formed command keeps the queue well-formed.
LEMMA EnqueueType ==
    ASSUME queue \in Seq(CommandType), writer \in {"none", "waiting", "appending", "ended"},
           \A i \in DOMAIN queue : queue[i].kind = "items" => Interval(queue[i]),
           NEW q \in CommandType, q.kind = "items" => Interval(q), Enqueue(q)
    PROVE  /\ queue' \in Seq(CommandType)
           /\ writer' \in {"none", "waiting", "appending", "ended"}
           /\ \A i \in DOMAIN queue' : queue'[i].kind = "items" => Interval(queue'[i])
           /\ Len(queue') = Len(queue) + 1
           /\ \A i \in 1..Len(queue) : queue'[i] = queue[i]
           /\ queue'[Len(queue) + 1] = q
<1>1. queue' = Append(queue, q)
  BY DEF Enqueue
<1>2. queue' \in Seq(CommandType) /\ Len(queue') = Len(queue) + 1
  BY <1>1
<1>3. \A i \in 1..Len(queue) : queue'[i] = queue[i]
  BY <1>1
<1>4. queue'[Len(queue) + 1] = q
  BY <1>1
<1>5. \A i \in DOMAIN queue' : i \in 1..Len(queue) \/ i = Len(queue) + 1
  BY <1>2
<1>6. \A i \in DOMAIN queue' : queue'[i].kind = "items" => Interval(queue'[i])
  BY <1>3, <1>4, <1>5
<1> QED BY <1>2, <1>3, <1>4, <1>6 DEF Enqueue

\* The rest of the queue after its head is taken.
LEMMA TailType ==
    ASSUME queue \in Seq(CommandType), queue # <<>>, queue' = Tail(queue)
    PROVE  /\ queue' \in Seq(CommandType)
           /\ Head(queue) = queue[1] /\ Head(queue) \in CommandType
           /\ 1 \in DOMAIN queue
           /\ Len(queue') = Len(queue) - 1
           /\ \A i \in DOMAIN queue' : i + 1 \in DOMAIN queue /\ queue'[i] = queue[i + 1]
  BY EmptySeq

\* The constants the actions write are in their domains.
LEMMA WrittenValues ==
    /\ Nothing \in CommandType /\ Interval(Nothing)
    /\ Idle \in [at : {"idle", "flush", "drain", "join"}, ack : Acks \cup {0}]
    /\ \A kind \in {"flush", "shutdown"}, k \in Acks :
         Command(kind, k) \in CommandType /\ Command(kind, k).kind # "items"
    /\ <<>> \in Seq(CommandType) /\ DOMAIN <<>> = {}
BY DEF Nothing, Items, CommandType, Interval, Idle, Command

AckStates == {"unused", "pending", "set", "error", "cancelled"}
CallStates == [at : {"idle", "flush", "drain", "join"}, ack : Acks \cup {0}]

LEMMA TypeInductive == TypeInv /\ [Next]_vars => TypeInv'
<1> SUFFICES ASSUME TypeInv, [Next]_vars PROVE TypeInv'
  OBVIOUS
<1>a. /\ file \in Seq(Row) /\ newline \in BOOLEAN /\ (file = <<>> => newline)
      /\ sequence \in Nat /\ previous \in Nat
  BY DEF TypeInv, TypeOK
<1>b. /\ queue \in Seq(CommandType) /\ writer \in {"none", "waiting", "appending", "ended"}
      /\ \A i \in DOMAIN queue : queue[i].kind = "items" => Interval(queue[i])
  BY DEF TypeInv, TypeOK
<1>c. ack \in [Acks -> AckStates] /\ call \in [Clients -> CallStates] /\ upTo \in [Acks -> Nat]
  BY DEF TypeInv, TypeOK, AckStates, CallStates
<1>d. recorded \in Nat /\ base \in Nat /\ promised \in SUBSET Nat
  BY DEF TypeInv, TypeOK
<1>e. batch \in CommandType /\ Interval(batch) /\ batch.hi \in Nat
  BY DEF TypeInv, TypeOK, CommandType
<1>f. ASSUME ack' \in [Acks -> AckStates], call' \in [Clients -> CallStates],
             upTo' \in [Acks -> Nat], recorded' \in Nat, base' \in Nat, promised' \in SUBSET Nat,
             file' \in Seq(Row), newline' \in BOOLEAN, file' = <<>> => newline',
             sequence' \in Nat, previous' \in Nat,
             queue' \in Seq(CommandType),
             writer' \in {"none", "waiting", "appending", "ended"},
             \A i \in DOMAIN queue' : queue'[i].kind = "items" => Interval(queue'[i]),
             batch' \in CommandType, Interval(batch'),
             state' \in {"down", "corrupt", "OPEN", "FAILED", "CLOSING", "CLOSED"},
             failure' \in {"none", "disk", "cancelled flush"}
      PROVE  TypeInv'
  BY <1>f DEF TypeInv, TypeOK, AckStates, CallStates, Interval
<1>g. /\ state \in {"down", "corrupt", "OPEN", "FAILED", "CLOSING", "CLOSED"}
      /\ failure \in {"none", "disk", "cancelled flush"}
  BY DEF TypeInv, TypeOK
<1>1. CASE Open
  <2>1. /\ file' \in Seq(Row) /\ newline' \in BOOLEAN
        /\ file' = <<>> => newline'
        /\ sequence' \in Nat /\ previous' \in Nat
        /\ state' \in {"OPEN", "corrupt"}
    <3>1. CASE /\ state' = "OPEN" /\ file' = Trimmed(file)
               /\ newline' = (newline \/ file # Trimmed(file))
               /\ sequence' = Len(Trimmed(file))
               /\ previous' = IF Trimmed(file) = <<>> THEN 0 ELSE file[Len(Trimmed(file))].item
      <4>1. /\ Trimmed(file) \in Seq(Row)
            /\ Len(Trimmed(file)) \in Nat
            /\ Trimmed(file) # <<>> => file[Len(Trimmed(file))].item \in Nat
        BY <1>a, TrimmedType
      <4> QED BY <1>a, <3>1, <4>1
    <3>2. CASE state' = "corrupt" /\ UNCHANGED <<diskVars, sequence, previous>>
      BY <1>a, <3>2 DEF diskVars
    <3> QED BY <1>1, <3>1, <3>2 DEF Open
  <2>2. /\ UNCHANGED <<failure, writer, batch, queue, ack, call, recorded, upTo, promised>>
        /\ base' = recorded
    BY <1>1 DEF Open
  <2> QED BY <1>b, <1>c, <1>d, <1>e, <1>f, <1>g, <2>1, <2>2
<1>2. CASE Crash
  <2>1. /\ file' \in Seq(Row) /\ newline' \in BOOLEAN
        /\ file' = <<>> => newline'
    BY <1>2, <1>a, TornType DEF Crash, diskVars
  <2>2. /\ queue' = <<>> /\ batch' = Nothing /\ writer' = "none" /\ failure' = "none"
        /\ state' = "down" /\ sequence' = 0 /\ previous' = 0
        /\ UNCHANGED <<recorded, base, promised>>
    BY <1>2 DEF Crash, countVars
  <2>3. ack' \in [Acks -> AckStates] /\ upTo' \in [Acks -> Nat]
    BY <1>2 DEF Crash, AckStates
  <2>4. call' \in [Clients -> CallStates]
    BY <1>2, WrittenValues DEF Crash, CallStates
  <2>5. \A i \in DOMAIN queue' : queue'[i].kind = "items" => Interval(queue'[i])
    BY <2>2
  <2>6. batch' \in CommandType /\ Interval(batch') /\ queue' \in Seq(CommandType)
    BY <2>2, WrittenValues
  <2>7. /\ recorded' \in Nat /\ base' \in Nat /\ promised' \in SUBSET Nat
        /\ sequence' \in Nat /\ previous' \in Nat
        /\ writer' \in {"none", "waiting", "appending", "ended"}
        /\ state' \in {"down", "corrupt", "OPEN", "FAILED", "CLOSING", "CLOSED"}
        /\ failure' \in {"none", "disk", "cancelled flush"}
    BY <1>d, <2>2
  <2> QED BY <1>f, <2>1, <2>3, <2>4, <2>5, <2>6, <2>7
<1>3. ASSUME NEW n \in 1..MaxBatch, Record(n) PROVE TypeInv'
  <2>1. n \in Nat /\ n >= 1 /\ recorded' = recorded + n
    BY <1>3, RecorderAssumption DEF Record
  <2>2. /\ Items(recorded + 1, recorded + n) \in CommandType
        /\ Interval(Items(recorded + 1, recorded + n))
    BY <1>d, <2>1 DEF Items, CommandType, Interval
  <2>3. Enqueue(Items(recorded + 1, recorded + n))
    BY <1>3 DEF Record
  <2>4. /\ queue' \in Seq(CommandType)
        /\ writer' \in {"none", "waiting", "appending", "ended"}
        /\ \A i \in DOMAIN queue' : queue'[i].kind = "items" => Interval(queue'[i])
    BY <1>b, <2>2, <2>3, EnqueueType
  <2>5. UNCHANGED <<file, newline, state, failure, batch, sequence, previous, ack, call, base,
                    upTo, promised>>
    BY <1>3 DEF Record, diskVars
  <2>6. recorded' \in Nat
    BY <1>d, <2>1
  <2> QED BY <1>a, <1>c, <1>d, <1>e, <1>f, <1>g, <2>4, <2>5, <2>6
<1>4. ASSUME NEW c \in Clients, NEW k \in Acks, Flush(c, k) \/ Shutdown(c, k) PROVE TypeInv'
  <2>1. /\ queue' \in Seq(CommandType)
        /\ writer' \in {"none", "waiting", "appending", "ended"}
        /\ \A i \in DOMAIN queue' : queue'[i].kind = "items" => Interval(queue'[i])
    <3>1. CASE Enqueue(Command("flush", k)) \/ Enqueue(Command("shutdown", k))
      BY <1>b, <3>1, EnqueueType, WrittenValues
    <3>2. CASE UNCHANGED <<writer, queue>>
      BY <1>b, <3>2
    <3> QED BY <1>4, <3>1, <3>2 DEF Flush, Shutdown
  <2>2. /\ ack' \in [Acks -> AckStates]
        /\ upTo' \in [Acks -> Nat]
    BY <1>4, <1>c, <1>d DEF Flush, Shutdown, NewAck, AckStates
  <2>3. call' \in [Clients -> CallStates]
    BY <1>4, <1>c DEF Flush, Shutdown, CallStates
  <2>4. /\ UNCHANGED <<file, newline, failure, batch, sequence, previous, recorded, base, promised>>
        /\ state' \in {"OPEN", "CLOSING", "CLOSED"}
    BY <1>4 DEF Flush, Shutdown, diskVars, countVars
  <2> QED BY <1>a, <1>d, <1>e, <1>f, <1>g, <2>1, <2>2, <2>3, <2>4
<1>5. ASSUME NEW c \in Clients, ClientStep(c) PROVE TypeInv'
  <2>1. ack' \in [Acks -> AckStates]
    BY <1>5, <1>c DEF ClientStep, FlushReturns, FlushCancelled, ShutdownDrained, ShutdownReturns,
                      ShutdownRaises, AckStates
  <2>2. call' \in [Clients -> CallStates]
    BY <1>5, <1>c, WrittenValues DEF ClientStep, FlushReturns, FlushCancelled, ShutdownDrained,
                      ShutdownReturns, ShutdownRaises, CallStates
  <2>3. promised' \in SUBSET Nat
    <3>1. CASE FlushReturns(c)
      <4>1. promised' \in {promised, promised \cup (base + 1)..upTo[call[c].ack]}
        BY <3>1 DEF FlushReturns
      <4>2. ASSUME NEW i \in (base + 1)..upTo[call[c].ack] PROVE i \in Nat
        BY <1>d
      <4> QED BY <1>d, <4>1, <4>2
    <3> QED BY <1>5, <1>d, <3>1 DEF ClientStep, FlushCancelled, ShutdownDrained, ShutdownReturns,
                              ShutdownRaises
  <2>4. /\ UNCHANGED <<file, newline, failure, writer, batch, sequence, previous, queue,
                       recorded, base, upTo>>
        /\ state' \in {state, "CLOSED"}
    BY <1>5 DEF ClientStep, FlushReturns, FlushCancelled, ShutdownDrained, ShutdownReturns,
                ShutdownRaises, diskVars, writerVars, countVars
  <2> QED BY <1>a, <1>b, <1>c, <1>d, <1>e, <1>f, <1>g, <2>1, <2>2, <2>3, <2>4
<1>6. CASE TakeItems
  <2>1. queue # <<>> /\ queue' = Tail(queue) /\ batch' = Head(queue) /\ writer' = "appending"
        /\ Head(queue).kind = "items"
    BY <1>6 DEF TakeItems
  <2>2. /\ queue' \in Seq(CommandType) /\ Head(queue) = queue[1] /\ 1 \in DOMAIN queue
        /\ Head(queue) \in CommandType
        /\ \A i \in DOMAIN queue' : i + 1 \in DOMAIN queue /\ queue'[i] = queue[i + 1]
    BY <1>b, <2>1, TailType
  <2>3. /\ batch' \in CommandType /\ Interval(batch')
        /\ \A i \in DOMAIN queue' : queue'[i].kind = "items" => Interval(queue'[i])
    BY <1>b, <2>1, <2>2
  <2>4. UNCHANGED <<file, newline, state, failure, sequence, previous, ack, call, recorded, base,
                    upTo, promised>>
    BY <1>6 DEF TakeItems, diskVars, countVars
  <2> QED BY <1>a, <1>c, <1>d, <1>f, <1>g, <2>1, <2>2, <2>3, <2>4
<1>7. CASE Appended
  <2>1. /\ batch.hi - batch.lo + 1 \in Nat
        /\ Rows(batch) \in Seq(Row)
    BY <1>a, <1>e, RowsType
  <2>2. Written(Rows(batch)) \in Seq(Row)
    BY <1>a, <2>1, WrittenType
  <2>3. /\ file' \in Seq(Row) /\ newline' = TRUE /\ sequence' \in Nat /\ previous' \in Nat
        /\ batch' = Nothing /\ writer' = "waiting"
        /\ UNCHANGED <<state, failure, queue, ack, call, recorded, base, upTo, promised>>
    BY <1>7, <1>a, <1>e, <2>1, <2>2 DEF Appended, countVars
  <2> QED BY <1>b, <1>c, <1>d, <1>f, <1>g, <2>3, WrittenValues
<1>8. ASSUME NEW cause \in {"disk", "cancelled flush"}, SetFailure(cause)
      PROVE  /\ state' = "FAILED" /\ failure' = cause /\ writer' = "ended"
             /\ queue' \in Seq(CommandType)
             /\ \A i \in DOMAIN queue' : queue'[i].kind = "items" => Interval(queue'[i])
             /\ ack' \in [Acks -> AckStates]
  <2>1. queue' = <<>> /\ state' = "FAILED" /\ failure' = cause /\ writer' = "ended"
    BY <1>8 DEF SetFailure
  <2>2. ack' \in [Acks -> AckStates]
    BY <1>8, <1>c DEF SetFailure, AckStates
  <2>3. queue' \in Seq(CommandType)
    BY <2>1, WrittenValues
  <2>4. DOMAIN queue' = {}
    BY <2>1, WrittenValues
  <2>5. \A i \in DOMAIN queue' : queue'[i].kind = "items" => Interval(queue'[i])
    BY <2>4
  <2> QED BY <2>1, <2>2, <2>3, <2>5
<1>9. CASE AppendFails
  <2>1. /\ file' \in Seq(Row) /\ newline' \in BOOLEAN
        /\ file' = <<>> => newline'
    BY <1>9, TornType DEF AppendFails
  <2>2. /\ SetFailure("disk") /\ batch' = Nothing
        /\ UNCHANGED <<sequence, previous, call, recorded, base, upTo, promised>>
    BY <1>9 DEF AppendFails, countVars
  <2> QED BY <1>a, <1>c, <1>d, <1>f, <1>8, <2>1, <2>2, WrittenValues
<1>10. CASE AnswerFlush
  <2>1. UNCHANGED <<file, newline, batch, sequence, previous, call, recorded, base, upTo, promised>>
    BY <1>10 DEF AnswerFlush, diskVars, countVars
  <2>2. CASE SetFailure("cancelled flush")
    BY <1>a, <1>c, <1>d, <1>e, <1>f, <1>8, <2>1, <2>2
  <2>3. CASE ~SetFailure("cancelled flush")
    <3>1. /\ queue # <<>> /\ queue' = Tail(queue) /\ UNCHANGED <<state, failure, writer>>
          /\ ack' = [ack EXCEPT ![Head(queue).ack] = "set"]
      BY <1>10, <2>3 DEF AnswerFlush
    <3>2. ack' \in [Acks -> AckStates]
      BY <1>c, <3>1 DEF AckStates
    <3>3. /\ queue' \in Seq(CommandType)
          /\ \A i \in DOMAIN queue' : i + 1 \in DOMAIN queue /\ queue'[i] = queue[i + 1]
      BY <1>b, <3>1, TailType
    <3>4. \A i \in DOMAIN queue' : queue'[i].kind = "items" => Interval(queue'[i])
      BY <1>b, <3>3
    <3> QED BY <1>a, <1>b, <1>c, <1>d, <1>e, <1>f, <1>g, <2>1, <3>1, <3>2, <3>3, <3>4
  <2> QED BY <2>2, <2>3
<1>11. CASE AnswerShutdown
  <2>1. /\ queue # <<>> /\ queue' = Tail(queue) /\ writer' = "ended"
        /\ ack' = [ack EXCEPT ![Head(queue).ack] = "set"]
    BY <1>11 DEF AnswerShutdown
  <2>2. UNCHANGED <<file, newline, state, failure, batch, sequence, previous, call, recorded, base,
                    upTo, promised>>
    BY <1>11 DEF AnswerShutdown, diskVars, countVars
  <2>3. ack' \in [Acks -> AckStates]
    BY <1>c, <2>1 DEF AckStates
  <2>4. /\ queue' \in Seq(CommandType)
        /\ \A i \in DOMAIN queue' : i + 1 \in DOMAIN queue /\ queue'[i] = queue[i + 1]
    BY <1>b, <2>1, TailType
  <2>5. \A i \in DOMAIN queue' : queue'[i].kind = "items" => Interval(queue'[i])
    BY <1>b, <2>4
  <2> QED BY <1>a, <1>c, <1>d, <1>e, <1>f, <1>g, <2>1, <2>2, <2>3, <2>4, <2>5
<1>12. CASE UNCHANGED vars
  <2>1. UNCHANGED <<file, newline, state, failure, writer, batch, sequence, previous, queue, ack,
                    call, recorded, base, upTo, promised>>
    BY <1>12 DEF vars, diskVars, writerVars, countVars
  <2> QED BY <1>a, <1>b, <1>c, <1>d, <1>e, <1>f, <1>g, <2>1
<1> QED BY <1>1, <1>2, <1>3, <1>4, <1>5, <1>6, <1>7, <1>9, <1>10, <1>11, <1>12
        DEF Next, WriterStep

LEMMA TypeInit == Init => TypeInv
<1> SUFFICES ASSUME Init PROVE TypeInv
  OBVIOUS
<1>1. file = <<>> /\ queue = <<>> /\ file \in Seq(Row) /\ queue \in Seq(CommandType)
  BY DEF Init
<1>2. Nothing \in CommandType /\ Interval(Nothing)
  BY DEF Nothing, Items, CommandType, Interval
<1>3. call \in [Clients -> [at : {"idle", "flush", "drain", "join"}, ack : Acks \cup {0}]]
  BY DEF Init, Idle
<1> QED BY <1>1, <1>2, <1>3 DEF Init, TypeInv, TypeOK

\* Every state of the recorder is in the domain TypeOK gives.
THEOREM TypeCorrect == Spec => []TypeOK
<1>1. TypeInv => TypeOK
  BY DEF TypeInv
<1> QED BY <1>1, TypeInit, TypeInductive, PTL DEF Spec

-----------------------------------------------------------------------------
(* The life of a recorder: who may be doing what.                          *)

\* The writer works for an open recorder only, and a future in use is never
\* handed out again.
Control ==
    /\ state \in {"down", "corrupt"} =>
         queue = <<>> /\ call = [c \in Clients |-> Idle] /\ ack = [k \in Acks |-> "unused"]
    /\ writer \in {"waiting", "appending"} => state \in {"OPEN", "CLOSING"}
    /\ writer = "ended" => state \in {"FAILED", "CLOSING", "CLOSED"}
    /\ writer # "appending" => batch = Nothing
    /\ \A p \in DOMAIN queue : queue[p].kind # "items" =>
         queue[p].ack \in Acks /\ ack[queue[p].ack] # "unused"

\* Nothing but a shutdown is accepted behind a shutdown, so a writer that
\* ended leaves nothing else behind.
Ordered ==
    /\ \A p \in DOMAIN queue : queue[p].kind = "shutdown" => state \in {"CLOSING", "CLOSED"}
    /\ \A p, q \in DOMAIN queue : p < q /\ queue[p].kind = "shutdown" => queue[q].kind = "shutdown"
    /\ writer = "ended" => \A p \in DOMAIN queue : queue[p].kind = "shutdown"
    /\ writer = "none" => DOMAIN queue = {}

\* The future of a shutdown is set by the end of the writer, after which
\* nothing can fail any more.
Closing ==
    \A c \in Clients :
        /\ call[c].at = "drain" =>
             /\ call[c].ack \in Acks /\ ack[call[c].ack] # "unused"
             /\ \A p \in DOMAIN queue : queue[p].ack = call[c].ack => queue[p].kind # "flush"
        /\ call[c].at = "join" \/ (call[c].at = "drain" /\ ack[call[c].ack] = "set") =>
             writer = "ended" /\ state # "FAILED"

FlushInv ==
    /\ \A c \in Clients : call[c].at = "flush" => call[c].ack \in Acks /\ ack[call[c].ack] # "unused"
    /\ NoStuckFlush

LifeInv == TypeInv /\ Control /\ Ordered /\ Closing /\ FlushInv

\* What each kind of step leaves alone or does to the queue.
LEMMA EnqueueFacts ==
    ASSUME TypeInv, NEW q \in CommandType, q.kind = "items" => Interval(q), Enqueue(q)
    PROVE  /\ Len(queue) \in Nat /\ Len(queue') = Len(queue) + 1
           /\ DOMAIN queue = 1..Len(queue) /\ DOMAIN queue' = 1..(Len(queue) + 1)
           /\ \A i \in DOMAIN queue : queue'[i] = queue[i]
           /\ queue'[Len(queue) + 1] = q
           /\ writer' = IF writer = "none" THEN "waiting" ELSE writer
<1>1. queue \in Seq(CommandType) /\ queue' = Append(queue, q)
  BY DEF Enqueue, TypeInv, TypeOK
<1> QED BY <1>1 DEF Enqueue

LEMMA TailFacts ==
    ASSUME TypeInv, queue # <<>>, queue' = Tail(queue)
    PROVE  /\ Head(queue) = queue[1] /\ 1 \in DOMAIN queue
           /\ \A i \in DOMAIN queue' : i \in Nat /\ i + 1 \in DOMAIN queue /\ queue'[i] = queue[i + 1]
           /\ \A i \in DOMAIN queue : i \in Nat /\ i >= 1 /\ (i # 1 => i - 1 \in DOMAIN queue')
<1>0. queue \in Seq(CommandType)
  BY DEF TypeInv, TypeOK
<1>1. Len(queue) \in Nat /\ Len(queue) >= 1
  BY <1>0, EmptySeq
<1>2. /\ Head(queue) = queue[1]
      /\ DOMAIN queue = 1..Len(queue) /\ DOMAIN queue' = 1..(Len(queue) - 1)
      /\ \A i \in 1..(Len(queue) - 1) : queue'[i] = queue[i + 1]
  BY <1>0, <1>1
<1> QED BY <1>1, <1>2

LEMMA LifeInductive == LifeInv /\ [Next]_vars => (Control /\ Ordered /\ Closing /\ FlushInv)'
<1> SUFFICES ASSUME LifeInv, [Next]_vars PROVE (Control /\ Ordered /\ Closing /\ FlushInv)'
  OBVIOUS
<1> DEFINE Goal == (Control /\ Ordered /\ Closing /\ FlushInv)'
<1>a. /\ TypeInv /\ Control /\ Ordered /\ Closing /\ FlushInv
      /\ ack \in [Acks -> AckStates] /\ call \in [Clients -> CallStates] /\ queue \in Seq(CommandType)
  BY DEF LifeInv, TypeInv, TypeOK, AckStates, CallStates
<1>b. /\ \A c \in Clients : Idle.at = "idle" /\ Idle.ack = 0
      /\ \A k \in Acks : k # 0 /\ Command("flush", k).kind = "flush" /\ Command("flush", k).ack = k
      /\ \A k \in Acks : k # 0 /\ Command("shutdown", k).kind = "shutdown" /\ Command("shutdown", k).ack = k
      /\ Nothing.kind = "items"
  BY DEF Idle, Command, Nothing, Items, Acks
<1>1. CASE Open
  BY <1>a, <1>1 DEF Open, Control, Ordered, Closing, FlushInv, NoStuckFlush
<1>2. CASE Crash
  <2>1. /\ queue' = <<>> /\ batch' = Nothing /\ writer' = "none" /\ state' = "down"
        /\ ack' = [k \in Acks |-> "unused"]
        /\ call' = [c \in Clients |-> Idle]
        /\ DOMAIN queue' = {}
    BY <1>2, WrittenValues DEF Crash
  <2> QED BY <2>1, <1>b DEF Control, Ordered, Closing, FlushInv, NoStuckFlush
<1>3. ASSUME NEW n \in 1..MaxBatch, Record(n) PROVE Goal
  <2> DEFINE q == Items(recorded + 1, recorded + n)
  <2>n. n \in Nat /\ n >= 1
    BY <1>3, RecorderAssumption
  <2>0. recorded \in Nat /\ n \in Nat /\ n >= 1
    BY <1>a, <2>n DEF TypeInv, TypeOK
  <2>1. q \in CommandType /\ Interval(q) /\ q.kind = "items" /\ q.ack = 0
    BY <2>0 DEF Items, CommandType, Interval
  <2>2. Enqueue(q) /\ state = "OPEN" /\ UNCHANGED <<state, batch, ack, call>>
    BY <1>3 DEF Record
  <2> HIDE DEF q
  <2>3. /\ Len(queue) \in Nat /\ Len(queue') = Len(queue) + 1
        /\ DOMAIN queue = 1..Len(queue) /\ DOMAIN queue' = 1..(Len(queue) + 1)
        /\ \A i \in DOMAIN queue : queue'[i] = queue[i]
        /\ queue'[Len(queue) + 1] = q
        /\ writer' = IF writer = "none" THEN "waiting" ELSE writer
    BY <1>a, <2>1, <2>2, EnqueueFacts
  <2>4. \A i \in DOMAIN queue' : i \in DOMAIN queue \/ i = Len(queue) + 1
    BY <2>3
  <2>5. Control'
    BY <1>a, <2>1, <2>2, <2>3, <2>4 DEF Control
  <2>w. writer' \in {"waiting", "appending"}
    BY <1>a, <2>2, <2>3 DEF Control, TypeInv, TypeOK
  <2>6. Ordered'
    BY <1>a, <1>b, <2>1, <2>2, <2>3, <2>4, <2>w DEF Ordered
  <2>7. Closing'
    BY <1>a, <2>1, <2>2, <2>3, <2>4 DEF Closing, Control
  <2>8. FlushInv'
    BY <1>a, <2>1, <2>2, <2>3, <2>4 DEF FlushInv, NoStuckFlush, Control
  <2> QED BY <2>5, <2>6, <2>7, <2>8
<1>4. ASSUME NEW c \in Clients, NEW k \in Acks, Flush(c, k) PROVE Goal
  <2> DEFINE q == Command("flush", k)
  <2>1. q \in CommandType /\ q.kind = "flush" /\ q.ack = k
    BY <1>b, WrittenValues
  <2>2. /\ Enqueue(q) /\ state = "OPEN" /\ UNCHANGED <<state, batch>> /\ call[c] = Idle
        /\ ack[k] = "unused" /\ ack' = [ack EXCEPT ![k] = "pending"]
        /\ call' = [call EXCEPT ![c] = [at |-> "flush", ack |-> k]]
    BY <1>4 DEF Flush, NewAck
  <2>3. /\ Len(queue) \in Nat /\ Len(queue') = Len(queue) + 1
        /\ DOMAIN queue = 1..Len(queue) /\ DOMAIN queue' = 1..(Len(queue) + 1)
        /\ \A i \in DOMAIN queue : queue'[i] = queue[i]
        /\ queue'[Len(queue) + 1] = q
        /\ writer' = IF writer = "none" THEN "waiting" ELSE writer
    BY <1>a, <2>1, <2>2, EnqueueFacts
  <2>4. /\ \A i \in DOMAIN queue' : i \in DOMAIN queue \/ i = Len(queue) + 1
        /\ Len(queue) + 1 \in DOMAIN queue'
        /\ \A i \in DOMAIN queue : i \in DOMAIN queue'
    BY <2>3
  <2>5. /\ \A d \in Clients : call'[d] = IF d = c THEN [at |-> "flush", ack |-> k] ELSE call[d]
        /\ \A j \in Acks : ack'[j] = IF j = k THEN "pending" ELSE ack[j]
    BY <1>a, <2>2
  <2>w. writer' \in {"waiting", "appending"}
    BY <1>a, <2>2, <2>3 DEF Control, TypeInv, TypeOK
  <2>x. q = Command("flush", k)
    OBVIOUS
  <2> HIDE DEF q
  <2>6. Control'
    BY <1>a, <2>1, <2>2, <2>3, <2>4, <2>5 DEF Control
  <2>7. Ordered'
    BY <1>a, <2>1, <2>2, <2>3, <2>4, <2>w DEF Ordered
  <2>8. Closing'
    BY <1>a, <2>1, <2>2, <2>3, <2>4, <2>5 DEF Closing, Control
  <2>9. FlushInv'
    BY <1>a, <2>1, <2>2, <2>3, <2>4, <2>5, <2>w, <2>x DEF FlushInv, NoStuckFlush
  <2> QED BY <2>6, <2>7, <2>8, <2>9
<1>5. ASSUME NEW c \in Clients, NEW k \in Acks, Shutdown(c, k) PROVE Goal
  <2>1. CASE /\ writer = "none" /\ state' = "CLOSED" /\ UNCHANGED <<writer, queue, ack, call, upTo>>
    <3>1. UNCHANGED batch /\ state \in {"OPEN", "CLOSING"}
      BY <1>5 DEF Shutdown
    <3> QED BY <1>a, <2>1, <3>1 DEF Control, Ordered, Closing, FlushInv, NoStuckFlush
  <2>2. CASE writer # "none"
    <3> DEFINE q == Command("shutdown", k)
    <3>1. q \in CommandType /\ q.kind = "shutdown" /\ q.ack = k
      BY <1>b, WrittenValues
    <3>2. /\ Enqueue(q) /\ state' = "CLOSING" /\ UNCHANGED batch /\ call[c] = Idle
          /\ ack[k] = "unused" /\ ack' = [ack EXCEPT ![k] = "pending"]
          /\ call' = [call EXCEPT ![c] = [at |-> "drain", ack |-> k]]
          /\ state \in {"OPEN", "CLOSING"}
      BY <1>5, <2>2 DEF Shutdown, NewAck
    <3>3. /\ Len(queue) \in Nat /\ Len(queue') = Len(queue) + 1
          /\ DOMAIN queue = 1..Len(queue) /\ DOMAIN queue' = 1..(Len(queue) + 1)
          /\ \A i \in DOMAIN queue : queue'[i] = queue[i]
          /\ queue'[Len(queue) + 1] = q
          /\ writer' = IF writer = "none" THEN "waiting" ELSE writer
      BY <1>a, <3>1, <3>2, EnqueueFacts
    <3>4. /\ \A i \in DOMAIN queue' : i \in DOMAIN queue \/ i = Len(queue) + 1
          /\ \A i \in DOMAIN queue : i \in DOMAIN queue'
      BY <3>3
    <3>5. /\ \A d \in Clients : call'[d] = IF d = c THEN [at |-> "drain", ack |-> k] ELSE call[d]
          /\ \A j \in Acks : ack'[j] = IF j = k THEN "pending" ELSE ack[j]
      BY <1>a, <3>2
    <3> HIDE DEF q
    <3>6. Control'
      BY <1>a, <2>2, <3>1, <3>2, <3>3, <3>4, <3>5 DEF Control
    <3>7. Ordered'
      BY <1>a, <3>1, <3>2, <3>3, <3>4 DEF Ordered
    <3>8. Closing'
      BY <1>a, <2>2, <3>1, <3>2, <3>3, <3>4, <3>5 DEF Closing, Control
    <3>9. FlushInv'
      BY <1>a, <2>2, <3>1, <3>2, <3>3, <3>4, <3>5 DEF FlushInv, NoStuckFlush
    <3> QED BY <3>6, <3>7, <3>8, <3>9
  <2> QED BY <1>5, <2>1, <2>2 DEF Shutdown
<1>6. ASSUME NEW c \in Clients, FlushReturns(c) \/ ShutdownDrained(c) \/ ShutdownRaises(c) PROVE Goal
  <2>1. /\ UNCHANGED <<state, writer, queue, batch, ack>>
        /\ \A d \in Clients : d # c => call'[d] = call[d]
        /\ \/ call'[c].at = "idle"
           \/ call[c].at = "drain" /\ ack[call[c].ack] = "set" /\ call'[c].at = "join"
        /\ state \notin {"down", "corrupt"}
    <3>1. call[c].at # "idle"
      BY <1>6 DEF FlushReturns, ShutdownDrained, ShutdownRaises
    <3>2. state \notin {"down", "corrupt"}
      BY <1>a, <1>b, <3>1 DEF Control
    <3>3. CASE FlushReturns(c)
      BY <1>a, <1>b, <3>2, <3>3 DEF FlushReturns, writerVars
    <3>4. CASE ShutdownDrained(c)
      BY <1>a, <1>b, <3>2, <3>4 DEF ShutdownDrained, writerVars, CallStates
    <3>5. CASE ShutdownRaises(c)
      BY <1>a, <1>b, <3>2, <3>5 DEF ShutdownRaises, writerVars
    <3> QED BY <1>6, <3>3, <3>4, <3>5
  <2>2. Control'
    BY <1>a, <2>1 DEF Control
  <2>3. Ordered'
    BY <1>a, <2>1 DEF Ordered
  <2>4. Closing'
    BY <1>a, <2>1 DEF Closing
  <2>5. FlushInv'
    BY <1>a, <2>1 DEF FlushInv, NoStuckFlush
  <2> QED BY <2>2, <2>3, <2>4, <2>5
<1>7. ASSUME NEW c \in Clients, FlushCancelled(c) PROVE Goal
  <2>1. /\ UNCHANGED <<state, writer, queue, batch>>
        /\ \A d \in Clients : call'[d] = IF d = c THEN Idle ELSE call[d]
        /\ \A j \in Acks : ack'[j] = IF j = call[c].ack /\ ack[j] = "pending" THEN "cancelled" ELSE ack[j]
        /\ call[c].at = "flush"
    BY <1>a, <1>7 DEF FlushCancelled, writerVars
  <2>2. Control'
    BY <1>a, <1>b, <2>1 DEF Control
  <2>3. Ordered'
    BY <1>a, <2>1 DEF Ordered
  <2>4. Closing'
    BY <1>a, <1>b, <2>1 DEF Closing
  <2>5. FlushInv'
    BY <1>a, <1>b, <2>1 DEF FlushInv, NoStuckFlush
  <2> QED BY <2>2, <2>3, <2>4, <2>5
<1>8. ASSUME NEW c \in Clients, ShutdownReturns(c) PROVE Goal
  <2>1. /\ UNCHANGED <<writer, queue, batch, ack>> /\ state' = "CLOSED"
        /\ \A d \in Clients : call'[d] = IF d = c THEN Idle ELSE call[d]
        /\ writer = "ended" /\ call[c].at = "join"
    BY <1>a, <1>8 DEF ShutdownReturns, writerVars
  <2>2. Control'
    BY <1>a, <1>b, <2>1 DEF Control
  <2>3. Ordered'
    BY <1>a, <2>1 DEF Ordered
  <2>4. Closing'
    BY <1>a, <1>b, <2>1 DEF Closing
  <2>5. FlushInv'
    BY <1>a, <1>b, <2>1 DEF FlushInv, NoStuckFlush
  <2> QED BY <2>2, <2>3, <2>4, <2>5
<1>9. CASE Appended
  BY <1>a, <1>9 DEF Appended, Control, Ordered, Closing, FlushInv, NoStuckFlush
<1>10. CASE TakeItems \/ AnswerShutdown \/ (AnswerFlush /\ ack[Head(queue).ack] = "pending")
  <2>1. queue # <<>> /\ queue' = Tail(queue) /\ writer = "waiting" /\ UNCHANGED <<state, call>>
    BY <1>10 DEF TakeItems, AnswerShutdown, AnswerFlush, SetFailure
  <2>2. /\ Head(queue) = queue[1] /\ 1 \in DOMAIN queue
        /\ \A i \in DOMAIN queue' : i \in Nat /\ i + 1 \in DOMAIN queue /\ queue'[i] = queue[i + 1]
        /\ \A i \in DOMAIN queue : i \in Nat /\ i >= 1 /\ (i # 1 => i - 1 \in DOMAIN queue')
    BY <1>a, <2>1, TailFacts
  <2>t. \A i \in DOMAIN queue : i # 1 => i - 1 \in DOMAIN queue' /\ queue'[i - 1] = queue[i]
    BY <2>2
  <2>w. writer' \in {"waiting", "appending"} \/ (writer' = "ended" /\ queue[1].kind = "shutdown")
    BY <1>10, <2>1, <2>2 DEF TakeItems, AnswerShutdown, AnswerFlush, SetFailure
  <2>s. queue[1].kind = "shutdown" => \A p \in DOMAIN queue' : queue'[p].kind = "shutdown"
    <3>1. ASSUME queue[1].kind = "shutdown", NEW p \in DOMAIN queue'
          PROVE  queue'[p].kind = "shutdown"
      <4>1. p + 1 \in DOMAIN queue /\ 1 \in DOMAIN queue /\ queue'[p] = queue[p + 1]
        BY <2>2, <3>1
      <4>2. CASE p + 1 = 1
        BY <3>1, <4>1, <4>2
      <4>3. CASE p + 1 # 1
        <5>1. 1 < p + 1
          BY <2>2, <4>1, <4>3
        <5> QED BY <1>a, <3>1, <4>1, <5>1 DEF Ordered
      <4> QED BY <4>2, <4>3
    <3> QED BY <3>1
  <2>o. \A p, q \in DOMAIN queue' : p < q => p + 1 < q + 1
    BY <2>2
  <2>3. Ordered'
    <3>1. \A p \in DOMAIN queue' : queue'[p].kind = "shutdown" => state' \in {"CLOSING", "CLOSED"}
      BY <1>a, <2>1, <2>2 DEF Ordered
    <3>2. ASSUME NEW p \in DOMAIN queue', NEW q \in DOMAIN queue', p < q, queue'[p].kind = "shutdown"
          PROVE  queue'[q].kind = "shutdown"
      BY <1>a, <2>2, <2>o, <3>2 DEF Ordered
    <3> QED BY <2>w, <2>s, <3>1, <3>2 DEF Ordered
  <2>4. CASE TakeItems
    <3>1. queue[1].kind = "items" /\ writer' = "appending" /\ UNCHANGED ack
      BY <2>2, <2>4 DEF TakeItems
    <3>2. Control'
      BY <1>a, <2>1, <2>2, <3>1 DEF Control
    <3>3. Closing'
      BY <1>a, <2>1, <2>2, <3>1 DEF Closing
    <3>4. FlushInv'
      BY <1>a, <1>b, <2>1, <2>2, <2>t, <3>1 DEF FlushInv, NoStuckFlush
    <3> QED BY <2>3, <3>2, <3>3, <3>4
  <2>5. CASE AnswerShutdown
    <3>1. /\ queue[1].kind = "shutdown" /\ writer' = "ended" /\ UNCHANGED batch
          /\ queue[1].ack \in Acks
          /\ \A j \in Acks : ack'[j] = IF j = queue[1].ack THEN "set" ELSE ack[j]
      BY <1>a, <2>2, <2>5 DEF AnswerShutdown, Control
    <3>2. state \in {"CLOSING", "CLOSED"}
      BY <1>a, <2>2, <3>1 DEF Ordered
    <3>3. Control'
      BY <1>a, <2>1, <2>2, <3>1, <3>2 DEF Control
    <3>4. Closing'
      BY <1>a, <2>1, <2>2, <3>1, <3>2 DEF Closing
    <3>5. \A i \in DOMAIN queue : queue[i].kind # "flush"
      BY <1>a, <2>2, <3>1 DEF Ordered
    <3>6. ASSUME NEW c \in Clients, call'[c].at = "flush"
          PROVE  call'[c].ack \in Acks /\ ack'[call'[c].ack] \notin {"unused", "pending"}
      <4>1. call[c] = call'[c] /\ call[c].ack \in Acks /\ ack[call[c].ack] # "unused"
        BY <1>a, <2>1, <3>6 DEF FlushInv
      <4>2. ASSUME ack[call[c].ack] = "pending" PROVE FALSE
        <5>1. PICK i \in DOMAIN queue : queue[i] = Command("flush", call[c].ack)
          BY <1>a, <3>6, <4>1, <4>2 DEF FlushInv, NoStuckFlush
        <5> QED BY <3>5, <5>1 DEF Command
      <4> QED BY <3>1, <4>1, <4>2
    <3>7. FlushInv'
      BY <3>6 DEF FlushInv, NoStuckFlush
    <3> QED BY <2>3, <3>3, <3>4, <3>7
  <2>6. CASE AnswerFlush /\ ack[Head(queue).ack] = "pending"
    <3>1. /\ queue[1].kind = "flush" /\ UNCHANGED <<batch, writer>>
          /\ queue[1].ack \in Acks
          /\ \A j \in Acks : ack'[j] = IF j = queue[1].ack THEN "set" ELSE ack[j]
      BY <1>a, <2>2, <2>6 DEF AnswerFlush, Control
    <3>2. Control'
      BY <1>a, <2>1, <2>2, <3>1 DEF Control
    <3>3. Closing'
      BY <1>a, <2>1, <2>2, <3>1 DEF Closing
    <3>4. ASSUME NEW c \in Clients, call'[c].at = "flush"
          PROVE  call'[c].ack \in Acks /\ ack'[call'[c].ack] # "unused"
      BY <1>a, <2>1, <3>1, <3>4 DEF FlushInv
    <3>5. ASSUME NEW c \in Clients, call'[c].at = "flush", ack'[call'[c].ack] = "pending"
          PROVE  \E i \in DOMAIN queue' : queue'[i] = Command("flush", call'[c].ack)
      <4>1. /\ call[c].at = "flush" /\ call[c].ack = call'[c].ack /\ call[c].ack \in Acks
            /\ ack[call[c].ack] = "pending" /\ call[c].ack # queue[1].ack
        BY <1>a, <2>1, <3>1, <3>5 DEF FlushInv
      <4>2. PICK i \in DOMAIN queue : queue[i] = Command("flush", call[c].ack)
        BY <1>a, <4>1 DEF FlushInv, NoStuckFlush
      <4>3. i # 1
        BY <1>b, <4>1, <4>2
      <4> QED BY <2>t, <4>1, <4>2, <4>3
    <3>6. FlushInv'
      BY <2>1, <3>1, <3>4, <3>5 DEF FlushInv, NoStuckFlush
    <3> QED BY <2>3, <3>2, <3>3, <3>6
  <2> QED BY <1>10, <2>4, <2>5, <2>6
<1>11. ASSUME NEW cause \in {"disk", "cancelled flush"}, SetFailure(cause), UNCHANGED call,
              writer \in {"waiting", "appending"}, batch' = Nothing
       PROVE  Goal
  <2>1. /\ queue' = <<>> /\ DOMAIN queue' = {} /\ state' = "FAILED" /\ writer' = "ended"
        /\ \A k \in Acks : ack'[k] = IF ack[k] = "pending" /\ \E i \in DOMAIN queue : queue[i].ack = k
                                     THEN "error" ELSE ack[k]
    BY <1>11, WrittenValues DEF SetFailure
  <2>2. Control'
    BY <1>11, <2>1 DEF Control
  <2>3. Ordered'
    BY <2>1 DEF Ordered
  <2>4. Closing'
    BY <1>a, <1>11, <2>1 DEF Closing
  <2>5. ASSUME NEW c \in Clients, call'[c].at = "flush"
        PROVE  call'[c].ack \in Acks /\ ack'[call'[c].ack] \notin {"unused", "pending"}
    <3>1. call[c].at = "flush" /\ call[c].ack = call'[c].ack
      BY <1>11, <2>5
    <3>2. call[c].ack \in Acks /\ ack[call[c].ack] # "unused"
      BY <1>a, <3>1 DEF FlushInv
    <3>3. ack[call[c].ack] = "pending" =>
            \E i \in DOMAIN queue : queue[i] = Command("flush", call[c].ack)
      BY <1>a, <3>1 DEF FlushInv, NoStuckFlush
    <3>4. ASSUME ack[call[c].ack] = "pending"
          PROVE  \E i \in DOMAIN queue : queue[i].ack = call[c].ack
      <4>1. PICK i \in DOMAIN queue : queue[i] = Command("flush", call[c].ack)
        BY <3>3, <3>4
      <4>2. Command("flush", call[c].ack).ack = call[c].ack
        BY DEF Command
      <4>3. queue[i].ack = call[c].ack
        BY <4>1, <4>2
      <4> QED BY <4>3
    <3> QED BY <2>1, <3>1, <3>2, <3>4
  <2>6. FlushInv'
    BY <2>5 DEF FlushInv, NoStuckFlush
  <2> QED BY <2>2, <2>3, <2>4, <2>6
<1>12. CASE AppendFails
  BY <1>11, <1>12 DEF AppendFails, countVars
<1>13. CASE AnswerFlush /\ ack[Head(queue).ack] # "pending"
  <2>1. writer = "waiting" /\ UNCHANGED <<batch, call>> /\ SetFailure("cancelled flush")
    BY <1>13 DEF AnswerFlush, countVars
  <2>2. batch' = Nothing
    BY <1>a, <2>1 DEF Control
  <2> QED BY <1>11, <2>1, <2>2
<1>14. CASE UNCHANGED vars
  <2>1. UNCHANGED <<state, writer, queue, batch, ack, call>>
    BY <1>14 DEF vars, writerVars
  <2> QED BY <1>a, <2>1 DEF Control, Ordered, Closing, FlushInv, NoStuckFlush
<1> QED BY <1>1, <1>2, <1>3, <1>4, <1>5, <1>6, <1>7, <1>8, <1>9, <1>10, <1>12, <1>13, <1>14
        DEF Next, WriterStep, ClientStep

LEMMA LifeInit == Init => LifeInv
<1> SUFFICES ASSUME Init PROVE LifeInv
  OBVIOUS
<1>1. TypeInv
  BY TypeInit
<1>2. /\ queue = <<>> /\ DOMAIN queue = {} /\ writer = "none" /\ state = "down" /\ batch = Nothing
      /\ \A c \in Clients : call[c] = Idle /\ call[c].at = "idle"
  BY WrittenValues DEF Init, Idle
<1>3. ack = [k \in Acks |-> "unused"] /\ call = [c \in Clients |-> Idle]
  BY DEF Init
<1> QED BY <1>1, <1>2, <1>3 DEF LifeInv, Control, Ordered, Closing, FlushInv, NoStuckFlush

\* Any number of steps keeps the life cycle of the recorder.
LEMMA LifeCorrect == Spec => []LifeInv
<1>1. LifeInv /\ [Next]_vars => LifeInv'
  BY LifeInductive, TypeInductive DEF LifeInv
<1> QED BY <1>1, LifeInit, PTL DEF Spec

\* A client suspended in flush() has its future answered, or its command is
\* still ahead of a writer that lives.
THEOREM FlushAnswered == Spec => []NoStuckFlush
<1>1. LifeInv => NoStuckFlush
  BY DEF LifeInv, FlushInv
<1> QED BY <1>1, LifeCorrect, PTL

\* After the first failure nothing is written and nothing else is reported,
\* and shutting the recorder down does not hide it.
THEOREM FailureFinal == Spec => FailureIsSticky
<1> DEFINE Sticks == state = "FAILED" => /\ state' \in {"FAILED", "down"}
                                         /\ UNCHANGED diskVars
                                         /\ state' = "FAILED" => failure' = failure
<1>1. ASSUME LifeInv, Next, state = "FAILED" PROVE Sticks
  <2>1. writer \notin {"waiting", "appending"}
    BY <1>1 DEF LifeInv, Control
  <2>2. \A c \in Clients : call[c].at # "join"
    BY <1>1 DEF LifeInv, Closing
  <2>3. ~WriterStep /\ ~Open /\ \A c \in Clients : ~ShutdownReturns(c)
    BY <1>1, <2>1, <2>2 DEF WriterStep, TakeItems, Appended, AppendFails, AnswerFlush, AnswerShutdown,
                            Open, ShutdownReturns
  <2>4. /\ \A n \in 1..MaxBatch : ~Record(n)
        /\ \A c \in Clients, k \in Acks : ~Flush(c, k) /\ ~Shutdown(c, k)
    BY <1>1 DEF Record, Flush, Shutdown
  <2>5. CASE Crash
    BY <1>1, <2>1, <2>5 DEF Crash
  <2>6. ASSUME NEW c \in Clients,
               FlushReturns(c) \/ FlushCancelled(c) \/ ShutdownDrained(c) \/ ShutdownRaises(c)
        PROVE  Sticks
    BY <1>1, <2>6 DEF FlushReturns, FlushCancelled, ShutdownDrained, ShutdownRaises
  <2> QED BY <1>1, <2>3, <2>4, <2>5, <2>6 DEF Next, ClientStep
<1>2. ASSUME UNCHANGED vars, state = "FAILED" PROVE Sticks
  BY <1>2 DEF vars
<1>3. LifeInv /\ [Next]_vars => [Sticks]_vars
  BY <1>1, <1>2
<1> QED BY <1>3, LifeCorrect, PTL DEF Spec, FailureIsSticky

-----------------------------------------------------------------------------
(* The file.                                                               *)

\* A file in which every row is the successor of the one before.
Chain(f) == \A i \in DOMAIN f : f[i] # Garbage /\ Follows(f, i)

\* Loading a chain changes nothing.
LEMMA ChainLoads ==
    ASSUME NEW f \in Seq(Row), Chain(f)
    PROVE  Trimmed(f) = f /\ Loads(f)
<1>1. f # <<>> => Len(f) \in DOMAIN f
  BY EmptySeq
<1>2. Trimmed(f) = f
  BY <1>1 DEF Trimmed, Chain
<1> QED BY <1>2 DEF Loads, Chain

\* A garbled last row is cut off.
LEMMA GarbageTrimmed ==
    ASSUME NEW f \in Seq(Row), Chain(f)
    PROVE  /\ Trimmed(f \o <<Garbage>>) = f
           /\ Loads(f \o <<Garbage>>)
           /\ f \o <<Garbage>> # f
<1> DEFINE g == f \o <<Garbage>>
<1>1. Garbage \in Row
  BY DEF Garbage, Row
<1>2. /\ g \in Seq(Row) /\ Len(f) \in Nat /\ Len(g) = Len(f) + 1 /\ g[Len(g)] = Garbage
      /\ \A i \in 1..Len(f) : g[i] = f[i]
      /\ DOMAIN f = 1..Len(f)
  BY <1>1
<1>3. g # <<>> /\ g # f
  <2> HIDE DEF g
  <2> QED BY <1>2
<1>4. SubSeq(g, 1, Len(g) - 1) = f
  BY <1>1, <1>2
<1> HIDE DEF g
<1>5. Trimmed(g) = f
  BY <1>2, <1>3, <1>4 DEF Trimmed
<1>6. \A i \in DOMAIN f : i \in Nat /\ i >= 1 /\ i <= Len(f) /\ (i # 1 => i - 1 \in 1..Len(f))
  BY <1>2
<1>7. \A i \in DOMAIN f : Follows(g, i)
  BY <1>2, <1>6 DEF Chain, Follows
<1>8. Loads(g)
  BY <1>2, <1>5, <1>7 DEF Loads, Chain
<1> QED BY <1>3, <1>5, <1>8 DEF g

\* What loads is, after loading, a chain.
LEMMA LoadsChain ==
    ASSUME NEW f \in Seq(Row), Loads(f)
    PROVE  Chain(Trimmed(f)) /\ Trimmed(Trimmed(f)) = Trimmed(f)
<1> DEFINE t == Trimmed(f)
<1>1. t \in Seq(Row) /\ Len(t) <= Len(f) /\ \A i \in 1..Len(t) : t[i] = f[i]
  BY TrimmedType
<1>2. DOMAIN t = 1..Len(t)
  BY <1>1
<1>3. \A i \in DOMAIN t : i \in Nat /\ (i # 1 => i - 1 \in 1..Len(t))
  BY <1>1, <1>2
<1>4. \A i \in DOMAIN t : f[i] # Garbage /\ Follows(f, i)
  BY DEF Loads
<1> HIDE DEF t
<1>5. Chain(t)
  BY <1>1, <1>2, <1>3, <1>4 DEF Chain, Follows
<1> QED BY <1>1, <1>5, ChainLoads DEF t

Last == IF file = <<>> THEN 0 ELSE file[Len(file)].item

\* What a concatenation holds.
LEMMA Joined ==
    ASSUME NEW S, NEW a \in Seq(S), NEW b \in Seq(S)
    PROVE  /\ a \o b \in Seq(S) /\ Len(a \o b) = Len(a) + Len(b)
           /\ DOMAIN (a \o b) = 1..(Len(a) + Len(b)) /\ DOMAIN a = 1..Len(a)
           /\ \A i \in 1..Len(a) : (a \o b)[i] = a[i]
           /\ \A i \in 1..Len(b) : (a \o b)[Len(a) + i] = b[i]
<1>1. a \o b \in Seq(S) /\ Len(a \o b) = Len(a) + Len(b)
  OBVIOUS
<1>2. DOMAIN (a \o b) = 1..(Len(a) + Len(b)) /\ DOMAIN a = 1..Len(a)
  OBVIOUS
<1>3. \A i \in 1..Len(a) : (a \o b)[i] = a[i]
  OBVIOUS
<1>4. \A i \in 1..Len(b) : (a \o b)[Len(a) + i] = b[i]
  OBVIOUS
<1> QED BY <1>1, <1>2, <1>3, <1>4

\* Appending rows of the batch to a chain whose end the counters describe
\* gives a longer chain.
LEMMA Grow ==
    ASSUME file \in Seq(Row), Chain(file), sequence = Len(file), previous = Last,
           batch \in CommandType, Interval(batch), previous \in Nat,
           NEW k \in 0..(batch.hi - batch.lo + 1)
    PROVE  LET g == file \o SubSeq(Rows(batch), 1, k)
           IN /\ SubSeq(Rows(batch), 1, k) \in Seq(Row)
              /\ Len(SubSeq(Rows(batch), 1, k)) = k
              /\ g \in Seq(Row) /\ Chain(g)
              /\ Len(g) = Len(file) + k
              /\ \A i \in 1..Len(file) : g[i] = file[i]
              /\ \A j \in 1..k : g[Len(file) + j].item = batch.lo + j - 1
<1> DEFINE n == batch.hi - batch.lo + 1
           w == SubSeq(Rows(batch), 1, k)
           g == file \o w
<1>0. Len(file) \in Nat /\ sequence \in Nat /\ batch.lo \in Nat /\ batch.lo >= 1
  BY DEF CommandType, Interval
<1>1. /\ n \in Nat /\ Rows(batch) \in Seq(Row) /\ Len(Rows(batch)) = n
      /\ \A j \in 1..n : Rows(batch)[j] = [item |-> batch.lo + j - 1, seq |-> sequence + j,
                                           prev |-> IF j = 1 THEN previous ELSE batch.lo + j - 2]
  BY <1>0, RowsType
<1>2. k \in Nat /\ k <= n
  BY <1>1
<1>3. /\ w \in Seq(Row) /\ Len(w) = k
      /\ \A j \in 1..k : w[j] = Rows(batch)[j]
  BY <1>1, <1>2
<1>a. w \in Seq(Row) /\ Len(w) = k
  BY <1>3
<1> HIDE DEF w, n
<1>b. /\ g \in Seq(Row) /\ Len(g) = Len(file) + Len(w)
      /\ DOMAIN g = 1..(Len(file) + Len(w)) /\ DOMAIN file = 1..Len(file)
      /\ \A i \in 1..Len(file) : g[i] = file[i]
      /\ \A i \in 1..Len(w) : g[Len(file) + i] = w[i]
  <2>1. w \in Seq(Row)
    BY <1>a
  <2> QED BY <2>1, Joined
<1> HIDE DEF g
<1>4. /\ g \in Seq(Row) /\ Len(g) = Len(file) + k
      /\ \A i \in 1..Len(file) : g[i] = file[i]
      /\ \A j \in 1..k : g[Len(file) + j] = w[j]
      /\ DOMAIN g = 1..(Len(file) + k) /\ DOMAIN file = 1..Len(file)
  BY <1>a, <1>b
<1> DEFINE at(j) == g[Len(file) + j]
<1>5. ASSUME NEW j \in 1..k
      PROVE  /\ at(j).item = batch.lo + j - 1
             /\ at(j).seq = Len(file) + j
             /\ at(j).prev = IF j = 1 THEN previous ELSE batch.lo + j - 2
  <2>1. at(j) = w[j] /\ w[j] = Rows(batch)[j]
    BY <1>3, <1>4
  <2>2. j \in 1..n
    BY <1>1, <1>2, <1>5
  <2>3. Rows(batch)[j] = [item |-> batch.lo + j - 1, seq |-> sequence + j,
                          prev |-> IF j = 1 THEN previous ELSE batch.lo + j - 2]
    BY <1>1, <2>2
  <2> HIDE DEF at
  <2> QED BY <2>1, <2>3
<1>6. ASSUME NEW i \in 1..Len(file) PROVE g[i] # Garbage /\ Follows(g, i)
  <2>1. i \in DOMAIN file /\ i \in Nat /\ (i # 1 => i - 1 \in 1..Len(file))
    BY <1>0, <1>4, <1>6
  <2>2. file[i] # Garbage /\ Follows(file, i)
    BY <2>1 DEF Chain
  <2>3. g[i] = file[i] /\ (i # 1 => g[i - 1] = file[i - 1])
    BY <1>4, <2>1
  <2> QED BY <2>2, <2>3 DEF Follows
<1>7. ASSUME NEW j \in 1..k PROVE at(j) # Garbage /\ Follows(g, Len(file) + j)
  <2>1. j \in Nat /\ j >= 1 /\ (j # 1 => j - 1 \in 1..k)
    BY <1>2
  <2>2. at(j).item = batch.lo + j - 1 /\ at(j).seq = Len(file) + j
    BY <1>5
  <2>3. at(j) # Garbage
    <3> HIDE DEF at
    <3> QED BY <1>0, <2>1, <2>2 DEF Garbage
  <2>4. CASE j # 1
    <3>1. at(j - 1).item = batch.lo + (j - 1) - 1
      <4>1. j - 1 \in 1..k
        BY <2>1, <2>4
      <4> HIDE DEF at
      <4> QED BY <1>5, <4>1
    <3>2. at(j).prev = batch.lo + j - 2
      BY <1>5, <2>4
    <3>3. /\ Len(file) + j # 1 /\ Len(file) + (j - 1) = (Len(file) + j) - 1
          /\ batch.lo + (j - 1) - 1 = batch.lo + j - 2
      BY <1>0, <2>1, <2>4
    <3> QED BY <2>2, <2>3, <3>1, <3>2, <3>3 DEF Follows
  <2>5. CASE j = 1 /\ file = <<>>
    <3>1. Len(file) = 0 /\ at(j).prev = 0
      BY <1>5, <2>5 DEF Last
    <3> QED BY <2>2, <2>3, <2>5, <3>1 DEF Follows
  <2>6. CASE j = 1 /\ file # <<>>
    <3>1. Len(file) \in 1..Len(file) /\ Len(file) + 1 # 1 /\ (Len(file) + 1) - 1 = Len(file)
      BY <1>0, <2>6, EmptySeq
    <3>2. at(j).prev = file[Len(file)].item
      BY <1>5, <2>6 DEF Last
    <3>3. g[Len(file)] = file[Len(file)]
      BY <1>4, <3>1
    <3> QED BY <2>2, <2>3, <2>6, <3>1, <3>2, <3>3 DEF Follows
  <2> QED BY <2>4, <2>5, <2>6
<1>8. \A i \in DOMAIN g : i \in 1..Len(file) \/ \E j \in 1..k : i = Len(file) + j
  <2>1. ASSUME NEW i \in DOMAIN g, i \notin 1..Len(file) PROVE i - Len(file) \in 1..k
    BY <1>0, <1>2, <1>4, <2>1
  <2>2. \A i \in DOMAIN g : i = Len(file) + (i - Len(file))
    BY <1>0, <1>4
  <2> QED BY <2>1, <2>2
<1>9. Chain(g)
  BY <1>6, <1>7, <1>8 DEF Chain
<1>10. ASSUME NEW j \in 1..k PROVE g[Len(file) + j].item = batch.lo + j - 1
  BY <1>5
<1> QED BY <1>3, <1>4, <1>9, <1>10 DEF g, w

-----------------------------------------------------------------------------
(* Durability, when an interrupted append never ends exactly between a row *)
(* and its newline.                                                        *)

Running == {"OPEN", "CLOSING", "CLOSED"}

\* The file always loads; only a garbled last row lacks its newline, and
\* while a recorder runs there is none and its counters describe the file.
Disk ==
    /\ Loads(file)
    /\ newline \/ Trimmed(file) # file
    /\ state \in Running =>
         Chain(file) /\ Trimmed(file) = file /\ newline /\ sequence = Len(file) /\ previous = Last

Span(b) == b.lo..b.hi

\* Item j is written, being written, or waiting before position p.
Ahead(j, p) ==
    \/ j \in Readable
    \/ j \in Span(batch)
    \/ \E i \in DOMAIN queue : i < p /\ queue[i].kind = "items" /\ j \in Span(queue[i])

Known(j) ==
    \/ j \in Readable
    \/ j \in Span(batch)
    \/ \E i \in DOMAIN queue : queue[i].kind = "items" /\ j \in Span(queue[i])

\* Nobody records an empty batch.
Filled ==
    /\ \A p \in DOMAIN queue : queue[p].kind = "items" => queue[p].lo <= queue[p].hi
    /\ writer = "appending" => batch.lo <= batch.hi

\* No item is lost between its record() and a flush behind it.
Durable ==
    /\ promised \subseteq Readable
    /\ \A k \in Acks : ack[k] = "set" => \A j \in (base + 1)..upTo[k] : j \in Readable
    /\ \A p \in DOMAIN queue : queue[p].kind # "items" =>
         \A j \in (base + 1)..upTo[queue[p].ack] : Ahead(j, p)
    /\ state \in Running => \A j \in (base + 1)..recorded : Known(j)

\* An append that breaks off, but not at a newline, leaves a file that loads
\* and holds all the rows it held before.
LEMMA TornKeeps ==
    ASSUME TypeInv, Disk, state \in Running, Torn(batch), "newline" \notin Tears
    PROVE  /\ Loads(file)' /\ (newline \/ Trimmed(file) # file)'
           /\ \A j \in Readable : j \in Readable'
           /\ \E k \in 0..(batch.hi - batch.lo + 1) :
                Trimmed(file') = file \o SubSeq(Rows(batch), 1, k)
<1> DEFINE n == batch.hi - batch.lo + 1
<1>1. PICK k \in 0..n, tear \in Tears :
        LET whole == SubSeq(Rows(batch), 1, k)
            rows == IF tear = "clean" \/ k = n THEN whole
                    ELSE whole \o <<IF tear = "partial" THEN Garbage ELSE Rows(batch)[k + 1]>>
        IN /\ file' = Written(rows)
           /\ newline' = IF rows = <<>> THEN newline ELSE Len(rows) = k
  BY DEF Torn
<1>2. tear \in {"clean", "partial"}
  BY RecorderAssumption
<1>3. /\ file \in Seq(Row) /\ Chain(file) /\ Trimmed(file) = file /\ newline
      /\ sequence = Len(file) /\ previous = Last
      /\ batch \in CommandType /\ Interval(batch) /\ previous \in Nat
  BY DEF TypeInv, TypeOK, Disk
<1> DEFINE whole == SubSeq(Rows(batch), 1, k)
           g == file \o whole
<1>4. /\ whole \in Seq(Row) /\ Len(whole) = k
      /\ g \in Seq(Row) /\ Chain(g) /\ Len(g) = Len(file) + k
      /\ \A i \in 1..Len(file) : g[i] = file[i]
  BY <1>3, Grow
<1>5. /\ DOMAIN file = 1..Len(file) /\ DOMAIN g = 1..Len(g) /\ k \in Nat /\ Len(file) \in Nat
      /\ \A i \in DOMAIN file : i \in DOMAIN g /\ g[i] = file[i]
  BY <1>3, <1>4
<1>6. /\ file' = g \/ file' = g \o <<Garbage>>
      /\ file' = g => newline'
  <2>1. CASE tear = "clean" \/ k = n
    <3>1. file' = Written(whole) /\ newline' = IF whole = <<>> THEN newline ELSE Len(whole) = k
      BY <1>1, <2>1
    <3> QED BY <1>3, <1>4, <3>1 DEF Written
  <2>2. CASE ~(tear = "clean" \/ k = n)
    <3>1. file' = Written(whole \o <<Garbage>>)
      BY <1>1, <1>2, <2>2
    <3>2. Written(whole \o <<Garbage>>) = file \o (whole \o <<Garbage>>)
      BY <1>3 DEF Written
    <3>3. Garbage \in Row
      BY DEF Garbage, Row
    <3>4. file \o (whole \o <<Garbage>>) = g \o <<Garbage>>
      BY <1>3, <1>4, <3>3
    <3>5. g \o <<Garbage>> # g
      BY <1>4, GarbageTrimmed
    <3> QED BY <3>1, <3>2, <3>4, <3>5
  <2> QED BY <2>1, <2>2
<1> HIDE DEF g
<1>7. Trimmed(file') = g /\ Loads(file') /\ (newline' \/ Trimmed(file') # file')
  BY <1>4, <1>6, ChainLoads, GarbageTrimmed
<1>8. \A j \in Readable : j \in Readable'
  BY <1>3, <1>5, <1>7 DEF Readable
<1>9. Trimmed(file') = file \o SubSeq(Rows(batch), 1, k)
  BY <1>7 DEF g
<1>10. \E m \in 0..(batch.hi - batch.lo + 1) : Trimmed(file') = file \o SubSeq(Rows(batch), 1, m)
  BY <1>9
<1>11. Loads(file)' /\ (newline \/ Trimmed(file) # file)'
  BY <1>7 DEF Loads, Trimmed, Garbage, Follows
<1> QED BY <1>8, <1>10, <1>11

\* A completed append makes the batch readable.
LEMMA AppendedKeeps ==
    ASSUME TypeInv, Disk, state \in Running, Appended, batch.lo <= batch.hi
    PROVE  /\ Loads(file)' /\ Chain(file)' /\ (Trimmed(file) = file)' /\ newline'
           /\ (sequence = Len(file))' /\ (previous = Last)'
           /\ \A j \in Readable : j \in Readable'
           /\ \A j \in Span(batch) : j \in Readable'
           /\ \E k \in 0..(batch.hi - batch.lo + 1) :
                Trimmed(file') = file \o SubSeq(Rows(batch), 1, k)
<1> DEFINE n == batch.hi - batch.lo + 1
           g == file \o SubSeq(Rows(batch), 1, n)
<1>1. /\ file \in Seq(Row) /\ Chain(file) /\ Trimmed(file) = file /\ newline
      /\ sequence = Len(file) /\ previous = Last
      /\ batch \in CommandType /\ Interval(batch) /\ previous \in Nat /\ sequence \in Nat
  BY DEF TypeInv, TypeOK, Disk
<1>2. batch.lo \in Nat /\ batch.hi \in Nat /\ n \in Nat /\ n >= 1 /\ n \in 0..n
  BY <1>1 DEF CommandType
<1>3. Rows(batch) \in Seq(Row) /\ Len(Rows(batch)) = n
  BY <1>1, RowsType
<1>4. SubSeq(Rows(batch), 1, n) = Rows(batch)
  <2> DEFINE r == Rows(batch)
  <2>1. r \in Seq(Row) /\ Len(r) = n
    BY <1>3
  <2> HIDE DEF r, n
  <2>2. SubSeq(r, 1, n) = r
    BY <2>1, <1>2
  <2> QED BY <2>2 DEF r
<1>5. /\ g \in Seq(Row) /\ Chain(g) /\ Len(g) = Len(file) + n
      /\ \A i \in 1..Len(file) : g[i] = file[i]
      /\ \A j \in 1..n : g[Len(file) + j].item = batch.lo + j - 1
  BY <1>1, <1>2, Grow
<1>6. file' = g
  BY <1>1, <1>4 DEF Appended, Written
<1>7. newline' /\ sequence' = sequence + n /\ previous' = batch.hi
  BY DEF Appended
<1> HIDE DEF g
<1>8. Loads(g) /\ Trimmed(g) = g
  BY <1>5, ChainLoads
<1>9. Len(file) \in Nat /\ DOMAIN file = 1..Len(file) /\ DOMAIN g = 1..(Len(file) + n)
  BY <1>1, <1>2, <1>5
<1>10. g # <<>> /\ g[Len(g)].item = batch.hi
  <2>1. n \in 1..n /\ batch.lo + n - 1 = batch.hi
    BY <1>2
  <2>2. g[Len(file) + n].item = batch.hi
    BY <1>5, <2>1
  <2>3. g # <<>>
    BY <1>2, <1>5, <1>9
  <2> QED BY <1>5, <2>2, <2>3
<1>11. Readable = {file[i].item : i \in DOMAIN file} /\ Readable' = {g[i].item : i \in DOMAIN g}
  BY <1>1, <1>6, <1>8 DEF Readable
<1>12. \A i \in DOMAIN file : i \in DOMAIN g /\ g[i] = file[i]
  BY <1>2, <1>5, <1>9
<1>13. \A j \in Readable : j \in Readable'
  BY <1>11, <1>12
<1>14. ASSUME NEW j \in Span(batch) PROVE j \in Readable'
  <2>1. j \in Int /\ j >= batch.lo /\ j <= batch.hi
    BY <1>2, <1>14 DEF Span
  <2> DEFINE m == j - batch.lo + 1
  <2>2. m \in 1..n /\ batch.lo + m - 1 = j
    BY <1>2, <2>1
  <2>3. Len(file) + m \in DOMAIN g
    BY <1>2, <1>9, <2>2
  <2> HIDE DEF m
  <2>4. g[Len(file) + m].item = j
    BY <1>5, <2>2
  <2> QED BY <1>11, <2>3, <2>4
<1>15. (Loads(file) /\ Chain(file) /\ Trimmed(file) = file)'
  BY <1>5, <1>6, <1>8
<1>16. (sequence = Len(file) /\ previous = Last)'
  BY <1>1, <1>5, <1>6, <1>7, <1>10 DEF Last
<1>17. \E k \in 0..(batch.hi - batch.lo + 1) : Trimmed(file') = file \o SubSeq(Rows(batch), 1, k)
  BY <1>2, <1>6, <1>8 DEF g
<1> QED BY <1>7, <1>13, <1>14, <1>15, <1>16, <1>17

\* A loaded file is a chain, with the same items.
LEMMA OpenKeeps ==
    ASSUME TypeInv, Disk, Open
    PROVE  /\ state = "down" /\ state' = "OPEN"
           /\ Loads(file)' /\ Chain(file)' /\ (Trimmed(file) = file)' /\ newline'
           /\ (sequence = Len(file))' /\ (previous = Last)'
           /\ Readable' = Readable
<1>1. Loads(file) /\ file \in Seq(Row)
  BY DEF Disk, TypeInv, TypeOK
<1>2. /\ state = "down" /\ state' = "OPEN" /\ file' = Trimmed(file)
      /\ newline' = (newline \/ file # Trimmed(file))
      /\ sequence' = Len(Trimmed(file))
      /\ previous' = IF Trimmed(file) = <<>> THEN 0 ELSE file[Len(Trimmed(file))].item
  BY <1>1 DEF Open
<1> DEFINE t == Trimmed(file)
<1>3. /\ Chain(t) /\ Trimmed(t) = t /\ t \in Seq(Row)
      /\ \A i \in 1..Len(t) : t[i] = file[i]
  BY <1>1, LoadsChain, TrimmedType
<1>4. t # <<>> => Len(t) \in 1..Len(t)
  BY <1>3, EmptySeq
<1> HIDE DEF t
<1>5. previous' = IF t = <<>> THEN 0 ELSE t[Len(t)].item
  BY <1>2, <1>3, <1>4 DEF t
<1>6. Loads(t)
  BY <1>3, ChainLoads
<1>7. (Loads(file) /\ Chain(file) /\ Trimmed(file) = file)'
  BY <1>2, <1>3, <1>6 DEF t
<1>8. newline'
  BY <1>2 DEF Disk
<1>9. (sequence = Len(file) /\ previous = Last)'
  BY <1>2, <1>5 DEF Last, t
<1>10. Readable' = Readable
  BY <1>2, <1>3 DEF Readable, t
<1> QED BY <1>2, <1>7, <1>8, <1>9, <1>10

DurableInv == LifeInv /\ Filled /\ Disk /\ Durable

LEMMA DurableInductive ==
    ASSUME "newline" \notin Tears, DurableInv, [Next]_vars
    PROVE  (Filled /\ Disk /\ Durable)'
<1> DEFINE Goal == (Filled /\ Disk /\ Durable)'
<1>a. /\ TypeInv /\ LifeInv /\ Control /\ Ordered /\ Closing /\ Filled /\ Disk /\ Durable
      /\ ack \in [Acks -> AckStates] /\ call \in [Clients -> CallStates] /\ upTo \in [Acks -> Nat]
      /\ queue \in Seq(CommandType) /\ recorded \in Nat /\ base \in Nat
  BY DEF DurableInv, LifeInv, TypeInv, TypeOK, AckStates, CallStates
<1>b. /\ Len(queue) \in Nat /\ DOMAIN queue = 1..Len(queue)
      /\ \A i \in DOMAIN queue : i \in Nat /\ i < Len(queue) + 1
  BY <1>a
<1>c. /\ \A j : j \notin Span(Nothing)
      /\ DOMAIN <<>> = {} /\ \A p \in DOMAIN <<>> : FALSE
  BY WrittenValues DEF Nothing, Items, Span
\* Steps that leave the file and the counters alone.
<1>d. ASSUME UNCHANGED <<file, newline, sequence, previous>>, state' \in Running => state \in Running
      PROVE  Disk' /\ Readable' = Readable
  <2>1. Readable' = Readable
    BY <1>d DEF Readable
  <2> QED BY <1>a, <1>d, <2>1 DEF Disk, Last, Loads, Chain, Follows, Trimmed
\* Steps that empty the queue.
<1>e. ASSUME queue' = <<>>, \A j \in Readable : j \in Readable', state' \notin Running,
             UNCHANGED <<promised, base>>,
             \A k \in Acks : ack'[k] = "set" => ack[k] = "set" /\ upTo'[k] = upTo[k],
             writer' # "appending"
      PROVE  Filled' /\ Durable'
  <2>1. DOMAIN queue' = {}
    BY <1>c, <1>e
  <2> QED BY <1>a, <1>e, <2>1 DEF Filled, Durable
<1>1. CASE Open
  <2>1. /\ state = "down" /\ queue = <<>> /\ \A k \in Acks : ack[k] = "unused"
        /\ writer # "appending"
    BY <1>a, <1>1, OpenKeeps DEF Control
  <2>2. /\ UNCHANGED <<ack, queue, writer, upTo, promised, recorded>> /\ base' = recorded
    BY <1>1 DEF Open
  <2>3. Disk' /\ Readable' = Readable
    BY <1>a, <1>1, OpenKeeps DEF Disk
  <2>4. DOMAIN queue' = {}
    BY <1>c, <2>1, <2>2
  <2>5. \A j \in (base' + 1)..recorded' : FALSE
    BY <1>a, <2>2
  <2>6. \A k \in Acks : ack'[k] # "set"
    BY <2>1, <2>2
  <2>7. Durable'
    BY <1>a, <2>2, <2>3, <2>4, <2>5, <2>6 DEF Durable
  <2>8. Filled'
    BY <2>1, <2>2, <2>4 DEF Filled
  <2> QED BY <2>3, <2>7, <2>8
<1>2. CASE Crash
  <2>1. /\ queue' = <<>> /\ state' = "down" /\ UNCHANGED <<promised, base>>
        /\ \A k \in Acks : ack'[k] # "set"
        /\ writer' # "appending"
    BY <1>2 DEF Crash, countVars
  <2>2. Loads(file)' /\ (newline \/ Trimmed(file) # file)' /\ \A j \in Readable : j \in Readable'
    <3>1. CASE writer = "appending"
      <4>1. state \in Running /\ Torn(batch)
        BY <1>a, <1>2, <3>1 DEF Control, Running, Crash
      <4> QED BY <1>a, <4>1, TornKeeps
    <3>2. CASE writer # "appending"
      <4>1. UNCHANGED diskVars
        BY <1>2, <3>2 DEF Crash
      <4>2. Readable' = Readable
        BY <4>1 DEF Readable, diskVars
      <4> QED BY <1>a, <4>1, <4>2 DEF Disk, diskVars, Loads, Trimmed, Follows
    <3> QED BY <3>1, <3>2
  <2>3. Disk'
    BY <2>1, <2>2 DEF Disk, Running
  <2>4. Filled' /\ Durable'
    BY <1>e, <2>1, <2>2 DEF Running
  <2> QED BY <2>3, <2>4
\* Steps that put a command at the end of the queue.
<1>3. ASSUME NEW q \in CommandType, q.kind = "items" => Interval(q) /\ q.lo <= q.hi, Enqueue(q),
             UNCHANGED <<file, newline, sequence, previous, batch, base, promised>>,
             state \in Running
      PROVE  /\ Filled' /\ Disk' /\ Readable' = Readable
             /\ \A p \in DOMAIN queue' : p \in DOMAIN queue \/ p = Len(queue) + 1
             /\ \A p \in DOMAIN queue : p \in DOMAIN queue' /\ queue'[p] = queue[p]
             /\ Len(queue) + 1 \in DOMAIN queue' /\ queue'[Len(queue) + 1] = q
             /\ Len(queue') = Len(queue) + 1
             /\ \A j, p : Ahead(j, p) => Ahead(j, p)'
             /\ \A j : Known(j) => Known(j)'
             /\ \A j, p : p = Len(queue) + 1 /\ Known(j) => Ahead(j, p)'
  <2>1. /\ Len(queue') = Len(queue) + 1
        /\ DOMAIN queue' = 1..(Len(queue) + 1)
        /\ \A i \in DOMAIN queue : queue'[i] = queue[i]
        /\ queue'[Len(queue) + 1] = q
        /\ writer' = IF writer = "none" THEN "waiting" ELSE writer
    BY <1>a, <1>3, EnqueueFacts
  <2>2. /\ \A p \in DOMAIN queue' : p \in DOMAIN queue \/ p = Len(queue) + 1
        /\ \A p \in DOMAIN queue : p \in DOMAIN queue' /\ queue'[p] = queue[p]
        /\ Len(queue) + 1 \in DOMAIN queue'
    BY <1>b, <2>1
  <2>3. Disk' /\ Readable' = Readable
    BY <1>3, <1>d
  <2>4. Filled'
    BY <1>a, <1>3, <2>1, <2>2 DEF Filled
  <2>5. ASSUME NEW j, NEW p, Ahead(j, p) PROVE Ahead(j, p)'
    BY <1>3, <2>2, <2>3, <2>5 DEF Ahead
  <2>6. ASSUME NEW j, Known(j) PROVE Known(j)'
    BY <1>3, <2>2, <2>3, <2>6 DEF Known
  <2>7. ASSUME NEW j, NEW p, p = Len(queue) + 1, Known(j) PROVE Ahead(j, p)'
    BY <1>b, <1>3, <2>2, <2>3, <2>7 DEF Known, Ahead
  <2> QED BY <2>1, <2>2, <2>3, <2>4, <2>5, <2>6, <2>7
<1>4. ASSUME NEW n \in 1..MaxBatch, Record(n) PROVE Goal
  <2> DEFINE q == Items(recorded + 1, recorded + n)
  <2>n. n \in Nat /\ n >= 1
    BY <1>4, RecorderAssumption
  <2>1. /\ q \in CommandType /\ q.kind = "items" /\ Interval(q) /\ q.lo <= q.hi
        /\ Span(q) = (recorded + 1)..(recorded + n)
    BY <1>a, <2>n DEF Items, CommandType, Interval, Span
  <2>2. /\ Enqueue(q) /\ state = "OPEN" /\ recorded' = recorded + n
        /\ UNCHANGED <<file, newline, sequence, previous, batch, base, promised, ack, upTo, state>>
    BY <1>4 DEF Record, diskVars
  <2> HIDE DEF q
  <2>3. /\ Filled' /\ Disk' /\ Readable' = Readable
        /\ \A p \in DOMAIN queue' : p \in DOMAIN queue \/ p = Len(queue) + 1
        /\ \A p \in DOMAIN queue : p \in DOMAIN queue' /\ queue'[p] = queue[p]
        /\ Len(queue) + 1 \in DOMAIN queue' /\ queue'[Len(queue) + 1] = q
        /\ Len(queue') = Len(queue) + 1
        /\ \A j, p : Ahead(j, p) => Ahead(j, p)'
        /\ \A j : Known(j) => Known(j)'
        /\ \A j, p : p = Len(queue) + 1 /\ Known(j) => Ahead(j, p)'
    BY <1>3, <2>1, <2>2 DEF Running
  <2>4. ASSUME NEW j \in (base' + 1)..recorded' PROVE Known(j)'
    <3>1. j \in (base + 1)..recorded \/ j \in (recorded + 1)..(recorded + n)
      BY <1>a, <2>n, <2>2, <2>4
    <3>2. CASE j \in (base + 1)..recorded
      BY <1>a, <2>2, <2>3, <3>2 DEF Durable, Running
    <3>3. CASE j \in (recorded + 1)..(recorded + n)
      BY <2>1, <2>3, <3>3 DEF Known
    <3> QED BY <3>1, <3>2, <3>3
  <2>6. ASSUME NEW p \in DOMAIN queue', queue'[p].kind # "items",
               NEW j \in (base' + 1)..upTo'[queue'[p].ack]
        PROVE  Ahead(j, p)'
    <3>1. p \in DOMAIN queue /\ queue'[p] = queue[p]
      BY <2>1, <2>3, <2>6
    <3> QED BY <1>a, <2>2, <2>3, <2>6, <3>1 DEF Durable
  <2>5. Durable'
    BY <1>a, <2>2, <2>3, <2>4, <2>6 DEF Durable
  <2> QED BY <2>3, <2>5
<1>5. ASSUME NEW k \in Acks, NEW kind \in {"flush", "shutdown"}, Enqueue(Command(kind, k)),
             ack[k] = "unused", ack' = [ack EXCEPT ![k] = "pending"],
             upTo' = [upTo EXCEPT ![k] = recorded],
             UNCHANGED <<file, newline, sequence, previous, batch, base, promised, recorded>>,
             state \in Running, state' \in Running
      PROVE  Goal
  <2> DEFINE q == Command(kind, k)
  <2>1. q \in CommandType /\ q.kind # "items" /\ q.ack = k
    BY WrittenValues DEF Command
  <2>2. Enqueue(q)
    BY <1>5
  <2> HIDE DEF q
  <2>3. /\ Filled' /\ Disk' /\ Readable' = Readable
        /\ \A p \in DOMAIN queue' : p \in DOMAIN queue \/ p = Len(queue) + 1
        /\ \A p \in DOMAIN queue : p \in DOMAIN queue' /\ queue'[p] = queue[p]
        /\ Len(queue) + 1 \in DOMAIN queue' /\ queue'[Len(queue) + 1] = q
        /\ Len(queue') = Len(queue) + 1
        /\ \A j, p : Ahead(j, p) => Ahead(j, p)'
        /\ \A j : Known(j) => Known(j)'
        /\ \A j, p : p = Len(queue) + 1 /\ Known(j) => Ahead(j, p)'
    BY <1>3, <1>5, <2>1, <2>2
  <2>4. /\ \A i \in Acks : ack'[i] = IF i = k THEN "pending" ELSE ack[i]
        /\ \A i \in Acks : upTo'[i] = IF i = k THEN recorded ELSE upTo[i]
    BY <1>a, <1>5
  <2>5. \A j \in (base + 1)..recorded : Known(j)
    BY <1>a, <1>5 DEF Durable
  <2>6. ASSUME NEW p \in DOMAIN queue', queue'[p].kind # "items",
               NEW j \in (base' + 1)..upTo'[queue'[p].ack]
        PROVE  Ahead(j, p)'
    <3>1. CASE p = Len(queue) + 1
      <4>1. j \in (base + 1)..recorded
        BY <1>5, <2>1, <2>3, <2>4, <2>6, <3>1
      <4> QED BY <2>3, <2>5, <3>1, <4>1
    <3>2. CASE p \in DOMAIN queue
      <4>1. queue'[p] = queue[p] /\ queue[p].ack \in Acks /\ queue[p].ack # k
        BY <1>a, <1>5, <2>3, <2>6, <3>2 DEF Control
      <4>2. j \in (base + 1)..upTo[queue[p].ack]
        BY <1>5, <2>4, <2>6, <4>1
      <4>3. Ahead(j, p)
        BY <1>a, <2>6, <3>2, <4>1, <4>2 DEF Durable
      <4> QED BY <2>3, <4>3
    <3> QED BY <2>3, <2>6, <3>1, <3>2
  <2>7. ASSUME NEW j \in (base' + 1)..recorded' PROVE Known(j)'
    BY <1>5, <2>3, <2>5, <2>7
  <2>8. Durable'
    BY <1>a, <1>5, <2>3, <2>4, <2>6, <2>7 DEF Durable
  <2> QED BY <2>3, <2>8
<1>6. ASSUME NEW c \in Clients, NEW k \in Acks, Flush(c, k) PROVE Goal
  BY <1>5, <1>6 DEF Flush, NewAck, diskVars, countVars, Running
\* Steps that leave the queue and the batch alone.
<1>7. ASSUME UNCHANGED <<file, newline, sequence, previous, queue, batch, base, recorded>>,
             state' \in Running => state \in Running, writer' = "appending" => writer = "appending",
             \A k \in Acks : ack'[k] = "set" => ack[k] = "set",
             UNCHANGED upTo,
             promised' \subseteq Readable
      PROVE  Goal
  <2>1. Disk' /\ Readable' = Readable
    BY <1>7, <1>d
  <2>2. \A j, p : Ahead(j, p) => Ahead(j, p)'
    BY <1>7, <2>1 DEF Ahead
  <2>k. \A j : Known(j) => Known(j)'
    BY <1>7, <2>1 DEF Known
  <2>3. Filled'
    BY <1>a, <1>7 DEF Filled
  <2>4. Durable'
    BY <1>a, <1>7, <2>1, <2>2, <2>k DEF Durable
  <2> QED BY <2>1, <2>3, <2>4
<1>p. promised \subseteq Readable
  BY <1>a DEF Durable
<1>8. ASSUME NEW c \in Clients, NEW k \in Acks, Shutdown(c, k) PROVE Goal
  <2>1. CASE /\ writer = "none" /\ state' = "CLOSED" /\ UNCHANGED <<writer, queue, ack, call, upTo>>
    BY <1>7, <1>8, <1>p, <2>1 DEF Shutdown, diskVars, countVars, Running
  <2>2. CASE ~(/\ writer = "none" /\ state' = "CLOSED" /\ UNCHANGED <<writer, queue, ack, call, upTo>>)
    BY <1>5, <1>8, <2>2 DEF Shutdown, NewAck, diskVars, countVars, Running
  <2> QED BY <2>1, <2>2
<1>9. ASSUME NEW c \in Clients, ClientStep(c) PROVE Goal
  <2>0. call[c] = Idle => call[c].at = "idle"
    BY DEF Idle
  <2>1. CASE FlushReturns(c)
    <3>1. call[c].ack \in Acks
      BY <1>a, <2>1 DEF FlushReturns, LifeInv, FlushInv
    <3>2. promised' \subseteq Readable
      BY <1>a, <1>p, <2>1, <3>1 DEF FlushReturns, Durable
    <3> QED BY <1>7, <2>1, <3>2 DEF FlushReturns, diskVars, writerVars, countVars
  <2>2. CASE FlushCancelled(c)
    <3>1. \A k \in Acks : ack'[k] = "set" => ack[k] = "set"
      BY <1>a, <2>2 DEF FlushCancelled
    <3> QED BY <1>7, <1>p, <2>2, <3>1 DEF FlushCancelled, diskVars, writerVars, countVars
  <2>3. CASE ShutdownDrained(c) \/ ShutdownRaises(c)
    BY <1>7, <1>p, <2>3 DEF ShutdownDrained, ShutdownRaises, diskVars, writerVars, countVars
  <2>4. CASE ShutdownReturns(c)
    <3>1. call[c].at = "join" /\ writer = "ended"
      BY <2>4 DEF ShutdownReturns
    <3>2. state # "FAILED"
      BY <1>a, <3>1 DEF Closing
    <3>3. state \in Running
      BY <1>a, <3>1, <3>2 DEF Control, Running
    <3> QED BY <1>7, <1>p, <2>4, <3>3 DEF ShutdownReturns, diskVars, writerVars, countVars
  <2> QED BY <1>9, <2>1, <2>2, <2>3, <2>4 DEF ClientStep
\* Steps that take the head of the queue.
<1>10. ASSUME queue # <<>>, queue' = Tail(queue), writer = "waiting",
              UNCHANGED <<file, newline, sequence, previous, base, recorded, promised, upTo, state>>,
              \/ queue[1].kind = "items" /\ batch' = queue[1] /\ UNCHANGED ack
              \/ /\ queue[1].kind # "items" /\ UNCHANGED batch /\ writer' # "appending"
                 /\ ack' = [ack EXCEPT ![queue[1].ack] = "set"]
       PROVE  Goal
  <2>1. /\ 1 \in DOMAIN queue
        /\ \A i \in DOMAIN queue' : i \in Nat /\ i + 1 \in DOMAIN queue /\ queue'[i] = queue[i + 1]
        /\ \A i \in DOMAIN queue : i \in Nat /\ i >= 1 /\ (i # 1 => i - 1 \in DOMAIN queue')
    BY <1>a, <1>10, TailFacts
  <2>3. Disk' /\ Readable' = Readable
    BY <1>10, <1>d
  <2>4. \A i \in DOMAIN queue : i # 1 => queue'[i - 1] = queue[i]
    BY <2>1
  <2>5. batch = Nothing /\ state \in Running
    BY <1>a, <1>10 DEF Control, Running
  <2>6. Filled'
    BY <1>a, <1>10, <2>1 DEF Filled
  <2>7. ASSUME NEW j, NEW p \in Nat, Ahead(j, p + 1) PROVE Ahead(j, p)'
    <3>1. CASE j \in Readable
      BY <2>3, <3>1 DEF Ahead
    <3>2. CASE j \notin Readable
      <4>1. PICK i \in DOMAIN queue : i < p + 1 /\ queue[i].kind = "items" /\ j \in Span(queue[i])
        BY <1>c, <2>5, <2>7, <3>2 DEF Ahead
      <4>2. CASE i = 1
        BY <1>10, <4>1, <4>2 DEF Ahead
      <4>3. CASE i # 1
        <5>1. i - 1 \in DOMAIN queue' /\ queue'[i - 1] = queue[i] /\ i - 1 < p
          BY <2>1, <2>4, <4>1, <4>3
        <5> QED BY <4>1, <5>1 DEF Ahead
      <4> QED BY <4>2, <4>3
    <3> QED BY <3>1, <3>2
  <2>8. ASSUME NEW p \in DOMAIN queue', queue'[p].kind # "items",
               NEW j \in (base' + 1)..upTo'[queue'[p].ack]
        PROVE  Ahead(j, p)'
    <3>1. p \in Nat /\ p + 1 \in DOMAIN queue /\ queue'[p] = queue[p + 1]
      BY <2>1, <2>8
    <3>2. Ahead(j, p + 1)
      BY <1>a, <1>10, <2>8, <3>1 DEF Durable
    <3> QED BY <2>7, <3>1, <3>2
  <2>9. ASSUME NEW j \in (base' + 1)..recorded' PROVE Known(j)'
    <3>1. Known(j)
      BY <1>a, <1>10, <2>5, <2>9 DEF Durable
    <3>2. CASE j \in Readable
      BY <2>3, <3>2 DEF Known
    <3>3. CASE j \notin Readable
      <4>1. PICK i \in DOMAIN queue : queue[i].kind = "items" /\ j \in Span(queue[i])
        BY <1>c, <2>5, <3>1, <3>3 DEF Known
      <4>2. CASE i = 1
        BY <1>10, <4>1, <4>2 DEF Known
      <4>3. CASE i # 1
        BY <2>1, <2>4, <4>1, <4>3 DEF Known
      <4> QED BY <4>2, <4>3
    <3> QED BY <3>2, <3>3
  <2>11. ASSUME NEW k \in Acks, ack'[k] = "set", NEW j \in (base' + 1)..upTo'[k] PROVE j \in Readable'
    <3>1. CASE ack[k] = "set"
      BY <1>a, <1>10, <2>3, <2>11, <3>1 DEF Durable
    <3>2. CASE ack[k] # "set"
      <4>1. queue[1].kind # "items" /\ queue[1].ack = k
        BY <1>a, <1>10, <2>11, <3>2
      <4>2. Ahead(j, 1)
        BY <1>a, <1>10, <2>1, <2>11, <4>1 DEF Durable
      <4>3. \A i \in DOMAIN queue : ~(i < 1)
        BY <2>1
      <4> QED BY <1>c, <2>3, <2>5, <4>2, <4>3 DEF Ahead
    <3> QED BY <3>1, <3>2
  <2>12. promised' \subseteq Readable'
    BY <1>10, <1>p, <2>3
  <2>10. Durable'
    BY <2>8, <2>9, <2>11, <2>12 DEF Durable
  <2> QED BY <2>3, <2>6, <2>10
<1>h. queue # <<>> => Head(queue) = queue[1]
  BY <1>a
<1>11. CASE TakeItems
  BY <1>10, <1>11, <1>h DEF TakeItems, diskVars, countVars
<1>12. CASE AnswerShutdown
  BY <1>10, <1>12, <1>h DEF AnswerShutdown, diskVars, countVars
<1>13. CASE Appended
  <2>1. /\ writer = "appending" /\ UNCHANGED <<queue, ack, base, recorded, upTo, promised, state>>
        /\ batch' = Nothing /\ writer' = "waiting"
    BY <1>13 DEF Appended, countVars
  <2>2. state \in Running /\ batch.lo <= batch.hi
    BY <1>a, <2>1 DEF Control, Running, Filled
  <2>3. /\ Loads(file)' /\ Chain(file)' /\ (Trimmed(file) = file)' /\ newline'
        /\ (sequence = Len(file))' /\ (previous = Last)'
        /\ \A j \in Readable : j \in Readable'
        /\ \A j \in Span(batch) : j \in Readable'
    BY <1>a, <1>13, <2>2, AppendedKeeps
  <2>4. Disk'
    BY <2>3 DEF Disk
  <2>5. \A j, p : Ahead(j, p) => Ahead(j, p)'
    BY <2>1, <2>3 DEF Ahead
  <2>k. \A j : Known(j) => Known(j)'
    BY <2>1, <2>3 DEF Known
  <2>6. Filled'
    BY <1>a, <2>1 DEF Filled
  <2>7. Durable'
    BY <1>a, <2>1, <2>3, <2>5, <2>k DEF Durable
  <2> QED BY <2>4, <2>6, <2>7
<1>14. ASSUME NEW cause, SetFailure(cause), UNCHANGED <<base, upTo, promised>>,
              Loads(file)' /\ (newline \/ Trimmed(file) # file)', \A j \in Readable : j \in Readable'
       PROVE  Goal
  <2>1. /\ queue' = <<>> /\ state' = "FAILED" /\ writer' = "ended"
        /\ \A k \in Acks : ack'[k] = "set" => ack[k] = "set"
    BY <1>14 DEF SetFailure
  <2>2. Filled' /\ Durable'
    BY <1>e, <1>14, <2>1 DEF Running
  <2>3. Disk'
    BY <1>14, <2>1 DEF Disk, Running
  <2> QED BY <2>2, <2>3
<1>15. CASE AppendFails
  <2>1. state \in Running /\ Torn(batch) /\ SetFailure("disk") /\ UNCHANGED <<base, upTo, promised>>
    BY <1>a, <1>15 DEF AppendFails, Control, Running, countVars
  <2>2. Loads(file)' /\ (newline \/ Trimmed(file) # file)' /\ \A j \in Readable : j \in Readable'
    BY <1>a, <2>1, TornKeeps
  <2> QED BY <1>14, <2>1, <2>2
<1>16. CASE AnswerFlush
  <2>1. CASE SetFailure("cancelled flush")
    <3>1. UNCHANGED <<file, newline, base, upTo, promised>>
      BY <1>16 DEF AnswerFlush, diskVars, countVars
    <3>2. Readable' = Readable
      BY <3>1 DEF Readable
    <3>3. Loads(file)' /\ (newline \/ Trimmed(file) # file)'
      BY <1>a, <3>1 DEF Disk, Loads, Trimmed, Follows
    <3> QED BY <1>14, <2>1, <3>1, <3>2, <3>3
  <2>2. CASE ~SetFailure("cancelled flush")
    BY <1>10, <1>16, <1>h, <2>2 DEF AnswerFlush, diskVars, countVars
  <2> QED BY <2>1, <2>2
<1>17. CASE UNCHANGED vars
  BY <1>7, <1>17, <1>p DEF vars, diskVars, writerVars, countVars
<1> QED BY <1>1, <1>2, <1>4, <1>6, <1>8, <1>9, <1>11, <1>12, <1>13, <1>15, <1>16, <1>17
        DEF Next, WriterStep

LEMMA DurableCorrect ==
    ASSUME "newline" \notin Tears
    PROVE  Spec => []DurableInv
<1>1. Init => DurableInv
  <2> SUFFICES ASSUME Init PROVE DurableInv
    OBVIOUS
  <2>1. LifeInv
    BY LifeInit
  <2>2. /\ file = <<>> /\ newline /\ queue = <<>> /\ DOMAIN queue = {} /\ DOMAIN file = {}
        /\ state = "down" /\ promised = {} /\ writer = "none"
        /\ \A k \in Acks : ack[k] = "unused"
    BY WrittenValues DEF Init
  <2>3. Loads(file)
    BY <2>2 DEF Loads, Trimmed
  <2> QED BY <2>1, <2>2, <2>3 DEF DurableInv, Filled, Disk, Durable, Running
<1>2. DurableInv /\ [Next]_vars => DurableInv'
  <2>1. LifeInv /\ [Next]_vars => LifeInv'
    BY LifeInductive, TypeInductive DEF LifeInv
  <2> QED BY <2>1, DurableInductive DEF DurableInv
<1> QED BY <1>1, <1>2, PTL DEF Spec

\* Unless an append is broken off exactly between a row and its newline,
\* the items of every acknowledged flush are readable ever after.
THEOREM DurabilityCorrect ==
    ASSUME "newline" \notin Tears
    PROVE  Spec => []PromiseKept
<1>1. DurableInv => PromiseKept
  BY DEF DurableInv, Durable, PromiseKept
<1> QED BY <1>1, DurableCorrect, PTL

\* Under the same assumption the next recorder can always load the file.
THEOREM LoadingCorrect ==
    ASSUME "newline" \notin Tears
    PROVE  Spec => []AlwaysLoads
<1>1. DurableInv => AlwaysLoads
  BY DEF DurableInv, Disk, AlwaysLoads
<1> QED BY <1>1, DurableCorrect, PTL

\* A closed recorder has written everything it was given.
THEOREM ClosingCorrect ==
    ASSUME "newline" \notin Tears
    PROVE  Spec => []ClosedIsDrained
<1>1. DurableInv => ClosedIsDrained
  <2> SUFFICES ASSUME DurableInv, state = "CLOSED", NEW j \in (base + 1)..recorded
               PROVE  j \in Readable
    BY DEF ClosedIsDrained
  <2>1. Control /\ Ordered /\ Durable /\ writer \in {"none", "waiting", "appending", "ended"}
    BY DEF DurableInv, LifeInv, TypeInv, TypeOK
  <2>2. writer \in {"none", "ended"}
    BY <2>1 DEF Control
  <2>3. batch = Nothing /\ \A p \in DOMAIN queue : queue[p].kind # "items"
    BY <2>1, <2>2 DEF Control, Ordered
  <2>4. j \notin Span(Nothing)
    BY DEF Span, Nothing, Items
  <2>5. Known(j)
    BY <2>1 DEF Durable, Running
  <2> QED BY <2>3, <2>4, <2>5 DEF Known
<1> QED BY <1>1, DurableCorrect, PTL

\* The three together: what recorder.py:19 says of a flush, on a file that loads.
THEOREM LogCorrect ==
    ASSUME "newline" \notin Tears
    PROVE  Spec => []LogSound
<1>1. PromiseKept /\ AlwaysLoads /\ ClosedIsDrained => LogSound
  BY DEF LogSound
<1> QED BY <1>1, DurabilityCorrect, LoadingCorrect, ClosingCorrect, PTL

-----------------------------------------------------------------------------
(* The rollout as a durable log.                                           *)

Rising(f) == \A i, j \in DOMAIN f : i < j => f[i].item < f[j].item

\* Items are numbered as they are recorded, and what is written, being written
\* and queued follows one another in that order.
OrderInv ==
    /\ Rising(Trimmed(file))
    /\ \A x \in Readable : x \in Nat /\ x <= recorded
    /\ batch.hi <= recorded
    /\ writer = "appending" => \A x \in Readable : x < batch.lo
    /\ \A p \in DOMAIN queue : queue[p].kind = "items" =>
         /\ queue[p].hi <= recorded /\ batch.hi < queue[p].lo
         /\ \A x \in Readable : x < queue[p].lo
    /\ \A p, q \in DOMAIN queue :
         p < q /\ queue[p].kind = "items" /\ queue[q].kind = "items" => queue[p].hi < queue[q].lo

\* What a broken or a completed append adds to the file a reader sees.
Added ==
    \E k \in 0..(batch.hi - batch.lo + 1) :
        Trimmed(file') = Trimmed(file) \o SubSeq(Rows(batch), 1, k)

LEMMA TornAdds ==
    ASSUME TypeInv, Disk, state \in Running, Torn(batch), "newline" \notin Tears
    PROVE  Added
<1>1. Trimmed(file) = file
  BY DEF Disk
<1> QED BY <1>1, TornKeeps DEF Added

LEMMA AppendedAdds ==
    ASSUME TypeInv, Disk, state \in Running, Appended, batch.lo <= batch.hi
    PROVE  Added
<1>1. Trimmed(file) = file
  BY DEF Disk
<1> QED BY <1>1, AppendedKeeps DEF Added

\* The added rows are behind the others and hold items of the batch.
LEMMA AddedRises ==
    ASSUME TypeInv, Disk, state \in Running, Added, Rising(Trimmed(file)),
           \A x \in Readable : x \in Nat /\ x < batch.lo
    PROVE  /\ Rising(Trimmed(file'))
           /\ Trimmed(file') \in Seq(Row)
           /\ Len(Trimmed(file)) <= Len(Trimmed(file'))
           /\ \A i \in 1..Len(Trimmed(file)) : Trimmed(file')[i] = Trimmed(file)[i]
           /\ \A x \in Readable' : x \in Readable \/ x \in Span(batch)
<1>1. /\ file \in Seq(Row) /\ Chain(file) /\ Trimmed(file) = file
      /\ sequence = Len(file) /\ previous = Last
      /\ batch \in CommandType /\ Interval(batch) /\ previous \in Nat
  BY DEF TypeInv, TypeOK, Disk
<1>2. PICK k \in 0..(batch.hi - batch.lo + 1) :
         Trimmed(file') = Trimmed(file) \o SubSeq(Rows(batch), 1, k)
  BY DEF Added
<1> DEFINE g == Trimmed(file')
<1>3. /\ g \in Seq(Row) /\ Len(g) = Len(file) + k
      /\ \A i \in 1..Len(file) : g[i] = file[i]
      /\ \A j \in 1..k : g[Len(file) + j].item = batch.lo + j - 1
  <2>1. g = file \o SubSeq(Rows(batch), 1, k)
    BY <1>1, <1>2
  <2> HIDE DEF g
  <2> QED BY <1>1, <2>1, Grow
<1>4. /\ batch.lo \in Nat /\ batch.hi \in Nat /\ k \in Nat /\ k <= batch.hi - batch.lo + 1
      /\ Len(file) \in Nat /\ DOMAIN file = 1..Len(file)
  BY <1>1 DEF CommandType, Interval
<1>5. DOMAIN g = 1..(Len(file) + k)
  <2> HIDE DEF g
  <2> QED BY <1>3, <1>4
<1> HIDE DEF g
<1>6. /\ \A i \in 1..Len(file) : file[i].item \in Nat /\ file[i].item < batch.lo
      /\ \A i, j \in 1..Len(file) : i < j => file[i].item < file[j].item
  BY <1>1, <1>4 DEF Readable, Rising
<1>7. ASSUME NEW i \in DOMAIN g, i > Len(file)
      PROVE  g[i].item = batch.lo + (i - Len(file)) - 1 /\ g[i].item \in Span(batch)
  <2>1. i \in Nat /\ i - Len(file) \in 1..k /\ Len(file) + (i - Len(file)) = i
    BY <1>4, <1>5, <1>7
  <2>2. g[i].item = batch.lo + (i - Len(file)) - 1
    BY <1>3, <2>1
  <2> QED BY <1>4, <2>1, <2>2 DEF Span
<1>8. ASSUME NEW i \in DOMAIN g, NEW j \in DOMAIN g, i < j PROVE g[i].item < g[j].item
  <2>1. i \in Nat /\ j \in Nat /\ i >= 1 /\ j >= 1
    BY <1>4, <1>5
  <2>2. CASE j <= Len(file)
    <3>1. i \in 1..Len(file) /\ j \in 1..Len(file)
      BY <1>4, <1>8, <2>1, <2>2
    <3> QED BY <1>3, <1>6, <1>8, <3>1
  <2>3. CASE i <= Len(file) /\ j > Len(file)
    <3>1. i \in 1..Len(file)
      BY <1>4, <2>1, <2>3
    <3>2. g[j].item = batch.lo + (j - Len(file)) - 1
      BY <1>7, <2>3
    <3>3. g[i].item \in Nat /\ g[i].item < batch.lo
      BY <1>3, <1>6, <3>1
    <3> QED BY <1>4, <2>1, <2>3, <3>2, <3>3
  <2>4. CASE i > Len(file)
    <3>1. /\ g[i].item = batch.lo + (i - Len(file)) - 1
          /\ g[j].item = batch.lo + (j - Len(file)) - 1
      BY <1>4, <1>7, <1>8, <2>1, <2>4
    <3> QED BY <1>4, <1>8, <2>1, <3>1
  <2> QED BY <1>4, <2>1, <2>2, <2>3, <2>4
<1>9. Rising(g)
  BY <1>8 DEF Rising
<1>10. Readable = {file[i].item : i \in DOMAIN file} /\ Readable' = {g[i].item : i \in DOMAIN g}
  BY <1>1 DEF Readable, g
<1>11. ASSUME NEW i \in DOMAIN g PROVE g[i].item \in Readable \/ g[i].item \in Span(batch)
  <2>1. CASE i > Len(file)
    BY <1>7, <2>1
  <2>2. CASE ~(i > Len(file))
    <3>1. i \in 1..Len(file)
      BY <1>4, <1>5, <2>2
    <3> QED BY <1>3, <1>4, <1>10, <3>1
  <2> QED BY <2>1, <2>2
<1>12. \A x \in Readable' : x \in Readable \/ x \in Span(batch)
  BY <1>10, <1>11
<1>13. Len(Trimmed(file)) <= Len(g) /\ \A i \in 1..Len(Trimmed(file)) : g[i] = Trimmed(file)[i]
  BY <1>1, <1>3, <1>4
<1> QED BY <1>3, <1>9, <1>12, <1>13 DEF g

\* Steps that leave the file, the batch and the queue as they are.
LEMMA OrderKept ==
    ASSUME OrderInv, UNCHANGED <<file, batch, queue, recorded>>,
           writer' = writer \/ writer' # "appending"
    PROVE  OrderInv'
<1>1. Readable' = Readable
  BY DEF Readable
<1> QED BY <1>1 DEF OrderInv, Rising, Trimmed

\* A command at the end of the queue that holds newer items, or none.
LEMMA OrderQueued ==
    ASSUME TypeInv, OrderInv, UNCHANGED <<file, batch>>, recorded' \in Nat, recorded <= recorded',
           NEW q \in CommandType, Enqueue(q),
           q.kind = "items" => Interval(q) /\ q.lo = recorded + 1 /\ q.hi = recorded'
    PROVE  OrderInv'
<1>1. Readable' = Readable
  BY DEF Readable
<1>2. /\ Len(queue) \in Nat /\ DOMAIN queue = 1..Len(queue) /\ DOMAIN queue' = 1..(Len(queue) + 1)
      /\ \A i \in DOMAIN queue : queue'[i] = queue[i]
      /\ queue'[Len(queue) + 1] = q
      /\ writer' = IF writer = "none" THEN "waiting" ELSE writer
  BY EnqueueFacts
<1>3. /\ recorded \in Nat /\ batch.hi \in Nat
      /\ \A p \in DOMAIN queue : queue[p].lo \in Nat /\ queue[p].hi \in Nat
  <2>1. queue \in Seq(CommandType) /\ batch \in CommandType /\ recorded \in Nat
    BY DEF TypeInv, TypeOK
  <2>2. \A p \in DOMAIN queue : queue[p] \in CommandType
    BY <2>1
  <2> QED BY <2>1, <2>2 DEF CommandType
<1>4. Rising(Trimmed(file))'
  BY DEF OrderInv, Rising, Trimmed
<1>5. \A x \in Readable : x \in Nat /\ x <= recorded /\ x <= recorded'
  BY <1>3 DEF OrderInv
<1>6. batch'.hi <= recorded' /\ (writer' = "appending" => \A x \in Readable : x < batch'.lo)
  BY <1>2, <1>3 DEF OrderInv
<1>7. \A p \in DOMAIN queue' : p \in DOMAIN queue \/ p = Len(queue) + 1
  BY <1>2
<1>8. ASSUME NEW p \in DOMAIN queue', queue'[p].kind = "items"
      PROVE  /\ queue'[p].hi <= recorded' /\ batch'.hi < queue'[p].lo
             /\ \A x \in Readable : x < queue'[p].lo
  <2>1. CASE p \in DOMAIN queue
    BY <1>2, <1>3, <1>8, <2>1 DEF OrderInv
  <2>2. CASE p = Len(queue) + 1
    BY <1>2, <1>3, <1>5, <1>8, <2>2 DEF OrderInv
  <2> QED BY <1>7, <2>1, <2>2
<1>9. ASSUME NEW p \in DOMAIN queue', NEW r \in DOMAIN queue', p < r,
             queue'[p].kind = "items", queue'[r].kind = "items"
      PROVE  queue'[p].hi < queue'[r].lo
  <2>1. p \in DOMAIN queue
    BY <1>2, <1>9
  <2>2. CASE r \in DOMAIN queue
    BY <1>2, <1>9, <2>1, <2>2 DEF OrderInv
  <2>3. CASE r = Len(queue) + 1
    BY <1>2, <1>3, <1>9, <2>1, <2>3 DEF OrderInv
  <2> QED BY <1>7, <2>2, <2>3
<1> QED BY <1>1, <1>4, <1>5, <1>6, <1>8, <1>9 DEF OrderInv

\* A step that empties the queue after the batch was appended, whole or in
\* part, or that left the file to its readers as it was.
LEMMA OrderEmptied ==
    ASSUME TypeInv, Disk, OrderInv, UNCHANGED recorded, batch' = Nothing, queue' = <<>>,
           writer' # "appending",
           \/ Trimmed(file') = Trimmed(file)
           \/ state \in Running /\ Added /\ writer = "appending"
    PROVE  OrderInv'
<1>1. /\ recorded \in Nat /\ batch.hi \in Nat /\ batch.lo \in Nat /\ Nothing.hi = 0
      /\ DOMAIN queue' = {}
  BY WrittenValues DEF TypeInv, TypeOK, CommandType, Nothing, Items
<1>2. Rising(Trimmed(file')) /\ \A x \in Readable' : x \in Nat /\ x <= recorded
  <2>1. CASE Trimmed(file') = Trimmed(file)
    BY <2>1 DEF OrderInv, Readable
  <2>2. CASE state \in Running /\ Added /\ writer = "appending"
    <3>1. /\ Rising(Trimmed(file'))
          /\ \A x \in Readable' : x \in Readable \/ x \in Span(batch)
      BY <2>2, AddedRises DEF OrderInv
    <3>2. \A x \in Span(batch) : x \in Nat /\ x <= recorded
      BY <1>1 DEF OrderInv, Span
    <3> QED BY <3>1, <3>2 DEF OrderInv
  <2> QED BY <2>1, <2>2
<1>3. Rising(Trimmed(file))'
  BY <1>2
<1> QED BY <1>1, <1>2, <1>3 DEF OrderInv

LEMMA OrderStep ==
    ASSUME "newline" \notin Tears, DurableInv, OrderInv, [Next]_vars
    PROVE  OrderInv'
<1>a. /\ TypeInv /\ Control /\ Ordered /\ Filled /\ Disk
      /\ queue \in Seq(CommandType) /\ recorded \in Nat /\ batch.hi \in Nat /\ batch.lo \in Nat
  BY DEF DurableInv, LifeInv, TypeInv, TypeOK, CommandType
<1>b. writer = "appending" => state \in Running /\ batch.lo <= batch.hi
  BY <1>a DEF Control, Running, Filled
<1>1. CASE Open
  <2>1. /\ state = "down" /\ queue = <<>> /\ batch = Nothing /\ writer # "appending"
    BY <1>a, <1>1, OpenKeeps DEF Control
  <2>2. Trimmed(file') = Trimmed(file)
    <3>1. Loads(file) /\ file' = Trimmed(file) /\ file \in Seq(Row)
      BY <1>a, <1>1 DEF Open, Disk, TypeInv, TypeOK
    <3> QED BY <3>1, LoadsChain
  <2> QED BY <1>a, <1>1, <2>1, <2>2, OrderEmptied DEF Open
<1>2. CASE Crash
  <2>1. CASE writer = "appending"
    BY <1>a, <1>b, <1>2, <2>1, TornAdds, OrderEmptied DEF Crash, countVars
  <2>2. CASE writer # "appending"
    <3>1. Trimmed(file') = Trimmed(file)
      BY <1>2, <2>2 DEF Crash, diskVars
    <3> QED BY <1>a, <1>2, <3>1, OrderEmptied DEF Crash, countVars
  <2> QED BY <2>1, <2>2
<1>3. ASSUME NEW n \in 1..MaxBatch, Record(n) PROVE OrderInv'
  <2>1. n \in Nat /\ n >= 1 /\ recorded' = recorded + n
    BY <1>3, RecorderAssumption DEF Record
  <2> DEFINE q == Items(recorded + 1, recorded + n)
  <2>2. q \in CommandType /\ Interval(q) /\ q.lo = recorded + 1 /\ q.hi = recorded'
    BY <1>a, <2>1 DEF Items, CommandType, Interval
  <2>3. Enqueue(q) /\ UNCHANGED <<file, batch>>
    BY <1>3 DEF Record, diskVars
  <2> HIDE DEF q
  <2> QED BY <1>a, <2>1, <2>2, <2>3, OrderQueued
<1>4. ASSUME NEW c \in Clients, NEW k \in Acks, Flush(c, k) PROVE OrderInv'
  <2>1. Command("flush", k) \in CommandType /\ Command("flush", k).kind # "items"
    BY WrittenValues
  <2>2. Enqueue(Command("flush", k)) /\ UNCHANGED <<file, batch, recorded>>
    BY <1>4 DEF Flush, diskVars, countVars
  <2> QED BY <1>a, <2>1, <2>2, OrderQueued
<1>5. ASSUME NEW c \in Clients, NEW k \in Acks, Shutdown(c, k) PROVE OrderInv'
  <2>1. Command("shutdown", k) \in CommandType /\ Command("shutdown", k).kind # "items"
    BY WrittenValues
  <2>2. /\ UNCHANGED <<file, batch, recorded>>
        /\ UNCHANGED <<writer, queue>> \/ Enqueue(Command("shutdown", k))
    BY <1>5 DEF Shutdown, diskVars, countVars
  <2> QED BY <1>a, <2>1, <2>2, OrderQueued, OrderKept
<1>6. ASSUME NEW c \in Clients, ClientStep(c) PROVE OrderInv'
  BY <1>6, OrderKept DEF ClientStep, FlushReturns, FlushCancelled, ShutdownDrained, ShutdownReturns,
     ShutdownRaises, diskVars, writerVars, countVars
\* Steps that take the head of the queue.
<1>t. ASSUME queue # <<>>, queue' = Tail(queue)
      PROVE  /\ \A p \in DOMAIN queue' : p + 1 \in DOMAIN queue /\ queue'[p] = queue[p + 1] /\ 1 < p + 1
             /\ \A p, r \in DOMAIN queue' : p < r => p + 1 < r + 1
             /\ Head(queue) = queue[1] /\ 1 \in DOMAIN queue
  <2>1. /\ Head(queue) = queue[1] /\ 1 \in DOMAIN queue
        /\ \A i \in DOMAIN queue' : i \in Nat /\ i + 1 \in DOMAIN queue /\ queue'[i] = queue[i + 1]
    BY <1>a, <1>t, TailFacts
  <2>2. \A i \in DOMAIN queue' : i >= 1
    BY <1>a, <1>t
  <2> QED BY <2>1, <2>2
<1>7. CASE TakeItems
  <2>1. /\ queue # <<>> /\ queue' = Tail(queue) /\ batch' = Head(queue) /\ Head(queue).kind = "items"
        /\ UNCHANGED <<file, recorded>>
    BY <1>7 DEF TakeItems, diskVars, countVars
  <2>2. Readable' = Readable
    BY <2>1 DEF Readable
  <2>3. Rising(Trimmed(file))'
    BY <2>1 DEF OrderInv
  <2> QED BY <1>t, <2>1, <2>2, <2>3 DEF OrderInv
<1>8. CASE Appended
  <2>1. /\ state \in Running /\ Added /\ writer = "appending" /\ writer' = "waiting"
        /\ UNCHANGED <<queue, recorded>> /\ batch' = Nothing
    BY <1>a, <1>b, <1>8, AppendedAdds DEF Appended, countVars
  <2>2. /\ Rising(Trimmed(file'))
        /\ \A x \in Readable' : x \in Readable \/ x \in Span(batch)
    BY <1>a, <2>1, AddedRises DEF OrderInv
  <2>3. \A x \in Readable' : x \in Nat /\ x <= recorded /\ (x \in Readable \/ x <= batch.hi)
    BY <1>a, <2>2 DEF OrderInv, Span
  <2>4. \A p \in DOMAIN queue : queue[p].lo \in Nat
    <3>1. \A p \in DOMAIN queue : queue[p] \in CommandType
      BY <1>a
    <3> QED BY <3>1 DEF CommandType
  <2>5. \A p \in DOMAIN queue : queue[p].kind = "items" => \A x \in Readable' : x < queue[p].lo
    BY <1>a, <2>3, <2>4 DEF OrderInv
  <2>6. Nothing.hi = 0 /\ \A p \in DOMAIN queue : queue[p].kind = "items" => queue[p].lo >= 1
    BY <1>a DEF Nothing, Items, TypeInv, Interval
  <2>7. Rising(Trimmed(file))'
    BY <2>2
  <2> QED BY <1>a, <2>1, <2>3, <2>4, <2>5, <2>6, <2>7 DEF OrderInv
<1>9. CASE AppendFails
  BY <1>a, <1>b, <1>9, TornAdds, OrderEmptied DEF AppendFails, SetFailure, countVars
<1>10. ASSUME queue # <<>>, queue' = Tail(queue), UNCHANGED <<file, batch, recorded>>,
              writer' = writer \/ writer' # "appending"
       PROVE  OrderInv'
  <2>1. Readable' = Readable
    BY <1>10 DEF Readable
  <2>2. Rising(Trimmed(file))'
    BY <1>10 DEF OrderInv
  <2> QED BY <1>t, <1>10, <2>1, <2>2 DEF OrderInv
<1>11. CASE AnswerFlush
  <2>1. CASE SetFailure("cancelled flush")
    <3>1. batch = Nothing /\ UNCHANGED <<file, batch, recorded>> /\ queue' = <<>> /\ writer' = "ended"
      BY <1>a, <1>11, <2>1 DEF AnswerFlush, SetFailure, Control, diskVars, countVars
    <3>2. Trimmed(file') = Trimmed(file)
      BY <3>1
    <3> QED BY <1>a, <3>1, <3>2, OrderEmptied
  <2>2. CASE ~SetFailure("cancelled flush")
    BY <1>10, <1>11, <2>2 DEF AnswerFlush, diskVars, countVars
  <2> QED BY <2>1, <2>2
<1>12. CASE AnswerShutdown
  BY <1>10, <1>12 DEF AnswerShutdown, diskVars, countVars
<1>13. CASE UNCHANGED vars
  BY <1>13, OrderKept DEF vars, diskVars, writerVars, countVars
<1> QED BY <1>1, <1>2, <1>3, <1>4, <1>5, <1>6, <1>7, <1>8, <1>9, <1>11, <1>12, <1>13
        DEF Next, WriterStep

\* The log a reader of the file gets.
Shown(f) == [i \in DOMAIN Trimmed(f) |-> f[i].item]

LEMMA ShownType ==
    ASSUME NEW f \in Seq(Row)
    PROVE  /\ Shown(f) \in Seq(Nat) /\ Len(Shown(f)) = Len(Trimmed(f))
           /\ DOMAIN Shown(f) = DOMAIN Trimmed(f)
           /\ Len(Trimmed(f)) \in Nat /\ DOMAIN Trimmed(f) = 1..Len(Trimmed(f))
           /\ \A i \in DOMAIN Trimmed(f) : Shown(f)[i] = Trimmed(f)[i].item
<1> DEFINE t == Trimmed(f)
<1>1. t \in Seq(Row) /\ \A i \in 1..Len(t) : t[i] = f[i]
  BY TrimmedType
<1>2. Shown(f) = [i \in DOMAIN t |-> f[i].item]
  BY DEF Shown
<1> HIDE DEF t
<1>3. Len(t) \in Nat /\ DOMAIN t = 1..Len(t)
  BY <1>1
<1>4. \A i \in DOMAIN t : f[i].item = t[i].item /\ f[i].item \in Nat
  <2>1. \A i \in DOMAIN t : t[i] \in Row /\ t[i] = f[i]
    BY <1>1, <1>3
  <2>2. \A r \in Row : r.item \in Nat
    BY DEF Row
  <2> QED BY <2>1, <2>2
<1>5. Shown(f) \in [1..Len(t) -> Nat]
  BY <1>4, <1>2, <1>3
<1>6. Shown(f) \in Seq(Nat) /\ Len(Shown(f)) = Len(t)
  BY <1>3, <1>5
<1> QED BY <1>4, <1>2, <1>3, <1>6 DEF t

\* Every step of the recorder lengthens the log in order, acknowledges what is
\* in it, or does nothing a reader or a client of flush() can see.
LEMMA LogStep ==
    ASSUME "newline" \notin Tears, DurableInv, OrderInv, [Next]_vars
    PROVE  LET s == Shown(file)
               t == Shown(file')
           IN \/ /\ Len(t) >= Len(s)
                 /\ \A i \in DOMAIN s : t[i] = s[i]
                 /\ \A i, j \in DOMAIN t : i < j => t[i] < t[j]
                 /\ promised' = promised
              \/ /\ promised \subseteq promised'
                 /\ promised' \subseteq {s[i] : i \in DOMAIN s}
                 /\ t = s
<1> DEFINE s == Shown(file)
           t == Shown(file')
           Longer == /\ Len(t) >= Len(s)
                     /\ \A i \in DOMAIN s : t[i] = s[i]
                     /\ \A i, j \in DOMAIN t : i < j => t[i] < t[j]
                     /\ promised' = promised
           Given == /\ promised \subseteq promised'
                    /\ promised' \subseteq {s[i] : i \in DOMAIN s}
                    /\ t = s
<1>a. /\ TypeInv /\ Control /\ FlushInv /\ Filled /\ Disk /\ Durable
      /\ file \in Seq(Row) /\ batch.lo \in Nat /\ batch.hi \in Nat
  BY DEF DurableInv, LifeInv, TypeInv, TypeOK, CommandType
<1>b. writer = "appending" => state \in Running /\ batch.lo <= batch.hi
  BY <1>a DEF Control, Running, Filled
<1>c. file' \in Seq(Row)
  BY <1>a, TypeInductive DEF TypeInv, TypeOK
<1>s. /\ Len(s) = Len(Trimmed(file)) /\ DOMAIN s = 1..Len(s) /\ Len(s) \in Nat
      /\ DOMAIN Trimmed(file) = DOMAIN s
      /\ \A i \in DOMAIN s : s[i] = Trimmed(file)[i].item
  BY <1>a, ShownType
<1>t. /\ Len(t) = Len(Trimmed(file')) /\ DOMAIN t = 1..Len(t) /\ Len(t) \in Nat
      /\ DOMAIN Trimmed(file') = DOMAIN t
      /\ \A i \in DOMAIN t : t[i] = Trimmed(file')[i].item
  BY <1>c, ShownType
<1> HIDE DEF s, t
<1>1. Readable = {s[i] : i \in DOMAIN s}
  BY <1>s DEF Readable
<1>2. ASSUME Trimmed(file') = Trimmed(file), promised' = promised
      PROVE  Longer
  BY <1>s, <1>t, <1>2 DEF OrderInv, Rising
<1>3. ASSUME state \in Running, Added, writer = "appending", promised' = promised
      PROVE  Longer
  <2>1. /\ Rising(Trimmed(file')) /\ Len(Trimmed(file)) <= Len(Trimmed(file'))
        /\ \A i \in 1..Len(Trimmed(file)) : Trimmed(file')[i] = Trimmed(file)[i]
    BY <1>a, <1>3, AddedRises DEF OrderInv
  <2>2. \A i \in DOMAIN s : i \in DOMAIN t /\ t[i] = s[i]
    BY <1>s, <1>t, <2>1
  <2> QED BY <1>s, <1>t, <1>3, <2>1, <2>2 DEF Rising
<1>4. ASSUME Open PROVE Longer
  <2>1. Loads(file) /\ file' = Trimmed(file) /\ promised' = promised
    BY <1>a, <1>4 DEF Open, Disk
  <2> QED BY <1>a, <1>2, <2>1, LoadsChain DEF s, t
<1>5. ASSUME Crash \/ AppendFails PROVE Longer
  <2>1. CASE writer = "appending"
    BY <1>a, <1>b, <1>3, <1>5, <2>1, TornAdds DEF Crash, AppendFails, s, t
  <2>2. CASE writer # "appending"
    <3>1. Trimmed(file') = Trimmed(file) /\ promised' = promised
      BY <1>5, <2>2 DEF Crash, AppendFails, diskVars
    <3> QED BY <1>2, <3>1 DEF s, t
  <2> QED BY <2>1, <2>2
<1>6. ASSUME Appended PROVE Longer
  BY <1>a, <1>b, <1>3, <1>6, AppendedAdds DEF Appended, s, t
<1>7. ASSUME NEW c \in Clients, FlushReturns(c) PROVE Given
  <2>1. file' = file /\ call[c].ack \in Acks
    BY <1>a, <1>7 DEF FlushReturns, FlushInv, diskVars
  <2>2. t = s
    BY <2>1 DEF s, t
  <2>3. /\ promised \subseteq Readable
        /\ ack[call[c].ack] = "set" => (base + 1)..upTo[call[c].ack] \subseteq Readable
    BY <1>a, <2>1 DEF Durable
  <2> QED BY <1>1, <1>7, <2>2, <2>3 DEF FlushReturns
<1>8. ASSUME UNCHANGED <<file, promised>> PROVE Longer
  <2>1. Trimmed(file') = Trimmed(file)
    BY <1>8
  <2> QED BY <1>2, <1>8, <2>1
<1>9. ASSUME NEW c \in Clients, ClientStep(c) PROVE Longer \/ Given
  <2>1. CASE FlushReturns(c)
    BY <1>7, <2>1
  <2>2. CASE ~FlushReturns(c)
    <3>1. UNCHANGED <<file, promised>>
      BY <1>9, <2>2 DEF ClientStep, FlushCancelled, ShutdownDrained, ShutdownReturns, ShutdownRaises, diskVars
    <3> QED BY <1>8, <3>1
  <2> QED BY <2>1, <2>2
<1>10. ASSUME \/ \E n \in 1..MaxBatch : Record(n)
              \/ \E c \in Clients, k \in Acks : Flush(c, k) \/ Shutdown(c, k)
              \/ TakeItems \/ AnswerFlush \/ AnswerShutdown \/ UNCHANGED vars
       PROVE  Longer
  <2>1. UNCHANGED <<file, promised>>
    BY <1>10 DEF Record, Flush, Shutdown, TakeItems, AnswerFlush, AnswerShutdown, vars, diskVars
  <2> QED BY <1>8, <2>1
<1>11. Longer \/ Given
  BY <1>4, <1>5, <1>6, <1>9, <1>10 DEF Next, WriterStep
<1> QED BY <1>11 DEF s, t

\* Unless an append is broken off exactly between a row and its newline, the
\* recorder is a durable log: whatever is batched, torn, repaired or answered,
\* readers see items appended in the order of record(), and flush() answers
\* for nothing that is not there.
THEOREM LogImplemented ==
    ASSUME "newline" \notin Tears
    PROVE  Spec => ImplementsLog
<1>1. Init => Log!LogInit /\ OrderInv
  <2> SUFFICES ASSUME Init PROVE Log!LogInit /\ OrderInv
    OBVIOUS
  <2>1. /\ file = <<>> /\ Trimmed(file) = <<>> /\ promised = {} /\ recorded = 0 /\ batch = Nothing
        /\ writer = "none" /\ queue = <<>> /\ DOMAIN <<>> = {} /\ Nothing.hi = 0
    BY WrittenValues DEF Init, Trimmed, Nothing, Items
  <2>2. Readable = {} /\ [i \in DOMAIN Trimmed(file) |-> file[i].item] = <<>>
    BY <2>1 DEF Readable
  <2> QED BY <2>1, <2>2 DEF Log!LogInit, OrderInv, Rising
<1>2. DurableInv /\ OrderInv /\ [Next]_vars => OrderInv'
  BY OrderStep
<1>3. DurableInv /\ OrderInv /\ [Next]_vars => [Log!Extend \/ Log!Promise]_Log!logVars
  <2> SUFFICES ASSUME DurableInv, OrderInv, [Next]_vars
               PROVE  Log!Extend \/ Log!Promise
    OBVIOUS
  <2> QED BY LogStep DEF Log!Extend, Log!Promise, Log!Entries, Shown
<1> QED BY <1>1, <1>2, <1>3, DurableCorrect, PTL DEF Spec, ImplementsLog, Log!LogSpec
=============================================================================
