--------------------------- MODULE TraceMemory_proofs ---------------------------
(***************************************************************************)
(* Proofs about the two stores a resumed process reads back, MemoryStore   *)
(* and TraceLog, each for any values of its constants.  The two share no   *)
(* variable, and no theorem is about both.                                 *)
(*                                                                         *)
(* MemoryStore: Inv says what the tables hold (RowsInv, TablesInv), that a *)
(* kept row and its payload tell the same (KeptInv), the two properties of *)
(* the tables, and, for the readers, that what was gone when a search      *)
(* began stays gone and that nothing of it is among the hits (ReadInv).    *)
(*                                                                         *)
(* TraceLog: TraceInv says that the file and the buffer behind it are one  *)
(* ordered sequence below the sink's number (LinesInv), when something may *)
(* wait in the buffer (SinkInv), that the view is drawn from the file in   *)
(* its order (ViewInv), and where the response the turn holds is in both   *)
(* (ReplyInv).                                                             *)
(***************************************************************************)
EXTENDS MemoryStore, TraceLog, FiniteSetTheorems, SequenceTheorems, TLAPS

Hashes == {Hash(c) : c \in Contents}
Texts == Contents \cup {Deleted}
Payload == [content : Texts, items : SUBSET Items, kind : Kinds, status : Statuses]
RowType == [key : Keys, hash : Hashes, content : Texts, invalidated : BOOLEAN,
            deleted : BOOLEAN, payload : Payload]
AskedType == [step : {"idle"}]
             \cup [step : {"again", "found"}, q : Queries, project : Projects, agent : Agents]

RowsInv == Stored \subseteq Ids /\ rows \in [Stored -> RowType]

TablesInv ==
    /\ sources \subseteq Stored \X Items
    /\ index \subseteq Stored \X Contents
    /\ ~Fts => index = {}

KeptInv ==
    \A i \in Stored :
        /\ Kept(i) => rows[i].content \in Contents /\ rows[i].payload.content = rows[i].content
        /\ ~rows[i].invalidated => rows[i].payload.status # "stale"

\* DeletedOrBacked, row by row.
SourcesOf(i) == {s[2] : s \in {x \in sources : x[1] = i}}
BackedRow(i) ==
    /\ rows[i].payload.kind = "user_explicit" \/ \E s \in sources : s[1] = i
    /\ SourcesOf(i) = rows[i].payload.items
    /\ Fts => <<i, rows[i].content>> \in index
DeletedRow(i) ==
    /\ rows[i].content = Deleted /\ rows[i].payload.content = Deleted /\ rows[i].payload.items = {}
    /\ \A x \in sources \cup index : x[1] # i
    /\ <<i, rows[i].hash>> \in tombstones
BackedInv == \A i \in Stored : (Kept(i) => BackedRow(i)) /\ (~Kept(i) => DeletedRow(i))

\* A payload that may be shown to somebody for whom these ids are gone.
Showable(h, old) == h.id \notin old /\ h.payload.content # Deleted /\ h.payload.status # "stale"

ReadTypes ==
    /\ asked \in [Procs -> AskedType]
    /\ DOMAIN hits = Procs /\ DOMAIN offered = Procs /\ DOMAIN gone = Procs
    /\ hits = [p \in Procs |-> hits[p]]
    /\ offered = [p \in Procs |-> offered[p]]
    /\ gone = [p \in Procs |-> gone[p]]

GoneInv == \A p \in Procs : \A i \in gone[p] : i \in Stored /\ ~Active(i)
IdleInv == \A p \in Procs : asked[p].step = "idle" => hits[p] = {}
ShownInv == \A p \in Procs : \A h \in hits[p] \cup offered[p] : Showable(h, gone[p])

TableInv == RowsInv /\ TablesInv /\ KeptInv /\ OneKeptRecord /\ BackedInv
ReadInv == ReadTypes /\ GoneInv /\ IdleInv /\ ShownInv
Inv == TableInv /\ ReadInv

-----------------------------------------------------------------------------
(* Initially.                                                              *)

LEMMA InvInit == MemoryAssumption /\ Init => Inv
<1> SUFFICES ASSUME MemoryAssumption, Init PROVE Inv
    OBVIOUS
<1>1. Stored = {} /\ rows \in [Stored -> RowType]
    BY DEF Init, Stored
<1>2. TableInv
    BY <1>1 DEF Init, TableInv, RowsInv, TablesInv, KeptInv, OneKeptRecord, BackedInv
<1>3. ReadTypes
    BY DEF Init, ReadTypes, AskedType, NotAsked
<1>4. GoneInv /\ IdleInv /\ ShownInv
    BY DEF Init, GoneInv, IdleInv, ShownInv
<1> QED BY <1>2, <1>3, <1>4 DEF Inv, ReadInv

-----------------------------------------------------------------------------
(* The tables.                                                             *)

\* What a write adds: one row under a new id, with its sources and its entry.
Adds(i, key, kind, verified, c, items) ==
    /\ i \in Ids \ Stored
    /\ rows' = [j \in Stored \cup {i} |->
                   IF j = i THEN Row(key, kind, verified, c, items) ELSE rows[j]]
    /\ sources' = sources \cup ({i} \X items)
    /\ index' = IF Fts THEN index \cup {<<i, c>>} ELSE index
    /\ tombstones' = tombstones

LEMMA WriteTables ==
    ASSUME MemoryAssumption, TableInv,
           NEW key \in Keys, NEW kind \in Kinds, NEW verified \in BOOLEAN,
           NEW c \in Contents, NEW items \in SUBSET Items,
           Write(key, kind, verified, c, items)
    PROVE  /\ TableInv'
           /\ Stored \subseteq Stored'
           /\ \A i \in Stored : rows'[i] = rows[i]
<1>1. PICK n : Adds(n, key, kind, verified, c, items)
    BY DEF Write, Adds
<1> DEFINE r == Row(key, kind, verified, c, items)
<1>2. /\ r \in RowType
      /\ r.key = key /\ r.hash = Hash(c) /\ r.content = c /\ ~r.invalidated /\ ~r.deleted
      /\ r.payload.content = c /\ r.payload.items = items /\ r.payload.kind = kind
      /\ r.payload.status # "stale"
    BY DEF Row, RowType, Payload, Texts, Hashes, Statuses
<1> HIDE DEF r
<1>3. /\ n \in Ids /\ n \notin Stored
      /\ Stored' = Stored \cup {n}
      /\ rows'[n] = r
      /\ \A i \in Stored : rows'[i] = rows[i]
      /\ rows' = [j \in Stored \cup {n} |-> IF j = n THEN r ELSE rows[j]]
    BY <1>1 DEF Adds, Stored, r
<1>4. RowsInv'
    BY <1>2, <1>3 DEF TableInv, RowsInv, Stored
<1>5. TablesInv'
    BY <1>1, <1>3 DEF TableInv, TablesInv, Adds
<1>6. KeptInv'
    BY <1>2, <1>3 DEF TableInv, KeptInv, Kept
<1>7. OneKeptRecord'
  <2>1. \A i \in Stored : Kept(i) /\ rows[i].key = key => rows[i].hash # Hash(c)
      BY DEF Write, SameColumns
  <2>2. \A i \in Stored' : Kept(i)' => i = n \/ (i \in Stored /\ Kept(i) /\ rows'[i] = rows[i])
      BY <1>3 DEF Kept
  <2>3. SUFFICES ASSUME NEW i \in Stored', NEW j \in Stored', Kept(i)', Kept(j)',
                        rows'[i].key = rows'[j].key, rows'[i].hash = rows'[j].hash
                 PROVE  i = j
      BY DEF OneKeptRecord
  <2>4. CASE i = n \/ j = n
      BY <1>2, <1>3, <2>1, <2>2, <2>3, <2>4
  <2>5. CASE i # n /\ j # n
      BY <2>2, <2>3, <2>5 DEF TableInv, OneKeptRecord
  <2> QED BY <2>4, <2>5
<1>8. BackedInv'
  <2>1. ASSUME NEW i \in Stored
        PROVE  (Kept(i)' => BackedRow(i)') /\ (~Kept(i)' => DeletedRow(i)')
    <3>1. i # n /\ rows'[i] = rows[i]
        BY <1>3
    <3>2. SourcesOf(i)' = SourcesOf(i)
        BY <1>1, <3>1 DEF SourcesOf, Adds
    <3>3. \A s \in sources : s \in sources'
        BY <1>1 DEF Adds
    <3>4. Fts => \A x \in index : x \in index'
        BY <1>1 DEF Adds
    <3>5. \A x \in sources' \cup index' : x \in sources \cup index \/ x[1] = n
        BY <1>1 DEF Adds
    <3>6. CASE Kept(i)
        BY <3>1, <3>2, <3>3, <3>4, <3>6 DEF TableInv, BackedInv, BackedRow, Kept
    <3>7. CASE ~Kept(i)
        BY <1>1, <3>1, <3>5, <3>7 DEF TableInv, BackedInv, DeletedRow, Kept, Adds
    <3> QED BY <3>6, <3>7
  <2>2. BackedRow(n)'
    <3>1. \A x \in sources : x[1] # n
        BY <1>3 DEF TableInv, TablesInv
    <3>a. \A y \in items : <<n, y>> \in sources'
        BY <1>1 DEF Adds
    <3>b. \A x \in sources' : x[1] = n => \E y \in items : x = <<n, y>>
        BY <1>1, <3>1 DEF Adds
    <3>2. SourcesOf(n)' = items
      <4>1. ASSUME NEW y \in items PROVE y \in SourcesOf(n)'
        <5>1. <<n, y>> \in {x \in sources' : x[1] = n}
            BY <3>a
        <5>2. <<n, y>>[2] = y
            OBVIOUS
        <5> QED BY <5>1, <5>2 DEF SourcesOf
      <4>2. \A y \in SourcesOf(n)' : y \in items
          BY <3>b DEF SourcesOf
      <4> QED BY <4>1, <4>2
    <3>3. kind = "user_explicit" \/ \E s \in sources' : s[1] = n
      <4>1. items # {} \/ kind = "user_explicit"
          BY DEF Write, Accepts
      <4>2. \A y \in items : <<n, y>>[1] = n
          OBVIOUS
      <4> QED BY <3>a, <4>1, <4>2
    <3>4. Fts => <<n, c>> \in index'
        BY <1>1 DEF Adds
    <3> QED BY <1>2, <1>3, <3>2, <3>3, <3>4 DEF BackedRow
  <2> QED BY <1>2, <1>3, <2>1, <2>2 DEF BackedInv, Kept
<1> QED BY <1>3, <1>4, <1>5, <1>6, <1>7, <1>8 DEF TableInv

LEMMA InvalidateTables ==
    ASSUME MemoryAssumption, TableInv, NEW i \in Ids, Invalidate(i)
    PROVE  /\ TableInv'
           /\ Stored' = Stored
           /\ \A j \in Stored : ~Active(j) => ~Active(j)'
<1>1. /\ i \in Stored /\ Kept(i)
      /\ rows' = [rows EXCEPT ![i].invalidated = TRUE, ![i].payload.status = "stale"]
      /\ sources' = sources /\ index' = index /\ tombstones' = tombstones
    BY DEF Invalidate
<1>2. rows \in [Stored -> RowType] /\ rows[i] \in RowType
    BY <1>1 DEF TableInv, RowsInv
<1>3. /\ Stored' = Stored
      /\ \A j \in Stored : j # i => rows'[j] = rows[j]
      /\ rows'[i] = [rows[i] EXCEPT !.invalidated = TRUE, !.payload = [@ EXCEPT !.status = "stale"]]
      /\ rows' = [j \in Stored |-> rows'[j]]
    BY <1>1, <1>2 DEF Stored, RowType
<1>4. /\ rows'[i] \in RowType
      /\ rows'[i].key = rows[i].key /\ rows'[i].hash = rows[i].hash
      /\ rows'[i].content = rows[i].content /\ rows'[i].deleted = rows[i].deleted
      /\ rows'[i].invalidated
      /\ rows'[i].payload.content = rows[i].payload.content
      /\ rows'[i].payload.items = rows[i].payload.items
      /\ rows'[i].payload.kind = rows[i].payload.kind
  <2>1. rows[i].payload \in Payload
      BY <1>2 DEF RowType
  <2>2. /\ rows'[i].payload = [rows[i].payload EXCEPT !.status = "stale"]
        /\ rows'[i].key = rows[i].key /\ rows'[i].hash = rows[i].hash
        /\ rows'[i].content = rows[i].content /\ rows'[i].deleted = rows[i].deleted
        /\ rows'[i].invalidated
      BY <1>2, <1>3 DEF RowType
  <2>3. /\ rows'[i].payload \in Payload
        /\ rows'[i].payload.content = rows[i].payload.content
        /\ rows'[i].payload.items = rows[i].payload.items
        /\ rows'[i].payload.kind = rows[i].payload.kind
      BY <2>1, <2>2 DEF Payload, Statuses
  <2>4. [rows[i].payload EXCEPT !.status = "stale"] \in Payload
      BY <2>2, <2>3
  <2>5. rows'[i] \in RowType
      BY <1>2, <1>3, <2>4 DEF RowType
  <2> QED BY <2>2, <2>3, <2>5
<1>5. RowsInv'
    BY <1>2, <1>3, <1>4 DEF TableInv, RowsInv
<1>6. TablesInv'
    BY <1>1, <1>3 DEF TableInv, TablesInv
<1>7. KeptInv'
    BY <1>3, <1>4 DEF TableInv, KeptInv, Kept
<1>8. OneKeptRecord'
  <2>1. \A j \in Stored :
           (Kept(j)' <=> Kept(j)) /\ rows'[j].key = rows[j].key /\ rows'[j].hash = rows[j].hash
      BY <1>3, <1>4 DEF Kept
  <2> QED BY <1>3, <2>1 DEF TableInv, OneKeptRecord
<1>9. BackedInv'
  <2>1. ASSUME NEW j \in Stored
        PROVE  /\ Kept(j)' <=> Kept(j)
               /\ BackedRow(j) => BackedRow(j)'
               /\ DeletedRow(j) => DeletedRow(j)'
    <3>1. SourcesOf(j)' = SourcesOf(j)
        BY <1>1 DEF SourcesOf
    <3>2. CASE j = i
      <4>1. Kept(j) /\ Kept(j)'
          BY <1>1, <1>4, <3>2 DEF Kept
      <4>2. /\ rows'[j].content = rows[j].content /\ rows'[j].hash = rows[j].hash
            /\ rows'[j].payload.content = rows[j].payload.content
            /\ rows'[j].payload.items = rows[j].payload.items
            /\ rows'[j].payload.kind = rows[j].payload.kind
          BY <1>4, <3>2
      <4>3. sources' = sources /\ index' = index /\ tombstones' = tombstones
          BY <1>1
      <4>4. BackedRow(j) => BackedRow(j)'
          BY <3>1, <4>2, <4>3 DEF BackedRow
      <4>5. DeletedRow(j) => DeletedRow(j)'
          BY <4>2, <4>3 DEF DeletedRow
      <4> QED BY <4>1, <4>4, <4>5
    <3>3. CASE j # i
        BY <1>1, <1>3, <3>1, <3>3 DEF Kept, BackedRow, DeletedRow
    <3> QED BY <3>2, <3>3
  <2> QED BY <1>3, <2>1 DEF TableInv, BackedInv
<1>10. \A j \in Stored : ~Active(j) => ~Active(j)'
    BY <1>3, <1>4 DEF Active, Kept
<1> QED BY <1>3, <1>5, <1>6, <1>7, <1>8, <1>9, <1>10 DEF TableInv

LEMMA DeleteTables ==
    ASSUME MemoryAssumption, TableInv, NEW i \in Ids, Delete(i)
    PROVE  /\ TableInv'
           /\ Stored' = Stored
           /\ \A j \in Stored : ~Active(j) => ~Active(j)'
<1>1. /\ i \in Stored /\ Kept(i)
      /\ rows' = [rows EXCEPT ![i].deleted = TRUE, ![i].content = Deleted,
                              ![i].payload.content = Deleted, ![i].payload.items = {}]
      /\ sources' = {s \in sources : s[1] # i}
      /\ index' = IF Fts THEN {x \in index : x[1] # i} ELSE index
      /\ tombstones' = tombstones \cup {<<i, rows[i].hash>>}
    BY DEF Delete
<1>2. rows \in [Stored -> RowType] /\ rows[i] \in RowType
    BY <1>1 DEF TableInv, RowsInv
<1>3. /\ Stored' = Stored
      /\ \A j \in Stored : j # i => rows'[j] = rows[j]
      /\ rows'[i] = [rows[i] EXCEPT !.deleted = TRUE, !.content = Deleted,
                        !.payload = [@ EXCEPT !.content = Deleted, !.items = {}]]
      /\ rows' = [j \in Stored |-> rows'[j]]
    BY <1>1, <1>2 DEF Stored, RowType
<1>4. /\ rows'[i] \in RowType
      /\ rows'[i].key = rows[i].key /\ rows'[i].hash = rows[i].hash
      /\ rows'[i].content = Deleted /\ rows'[i].deleted
      /\ rows'[i].invalidated = rows[i].invalidated
      /\ rows'[i].payload.content = Deleted
      /\ rows'[i].payload.items = {}
      /\ rows'[i].payload.status = rows[i].payload.status
  <2>1. rows[i].payload \in Payload
      BY <1>2 DEF RowType
  <2>2. /\ rows'[i].payload = [rows[i].payload EXCEPT !.content = Deleted, !.items = {}]
        /\ rows'[i].key = rows[i].key /\ rows'[i].hash = rows[i].hash
        /\ rows'[i].content = Deleted /\ rows'[i].deleted
        /\ rows'[i].invalidated = rows[i].invalidated
      BY <1>2, <1>3 DEF RowType
  <2>3. /\ rows'[i].payload \in Payload
        /\ rows'[i].payload.content = Deleted
        /\ rows'[i].payload.items = {}
        /\ rows'[i].payload.status = rows[i].payload.status
      BY <2>1, <2>2 DEF Payload, Texts
  <2>4. [rows[i].payload EXCEPT !.content = Deleted, !.items = {}] \in Payload
      BY <2>2, <2>3
  <2>5. rows'[i] \in RowType
      BY <1>2, <1>3, <2>4 DEF RowType, Texts
  <2> QED BY <2>2, <2>3, <2>5
<1>5. RowsInv'
    BY <1>2, <1>3, <1>4 DEF TableInv, RowsInv
<1>6. TablesInv'
    BY <1>1, <1>3 DEF TableInv, TablesInv
<1>7. KeptInv'
  <2>1. ASSUME NEW j \in Stored, j # i
        PROVE  /\ Kept(j)' => rows'[j].content \in Contents /\ rows'[j].payload.content = rows'[j].content
               /\ ~rows'[j].invalidated => rows'[j].payload.status # "stale"
    <3>1. rows'[j] = rows[j]
        BY <1>3, <2>1
    <3> QED BY <3>1, <2>1 DEF TableInv, KeptInv, Kept
  <2>2. ~Kept(i)' /\ (~rows'[i].invalidated => rows'[i].payload.status # "stale")
      BY <1>1, <1>4 DEF TableInv, KeptInv, Kept
  <2> QED BY <1>3, <2>1, <2>2 DEF KeptInv
<1>8. OneKeptRecord'
  <2>1. \A j \in Stored : Kept(j)' => j # i /\ Kept(j) /\ rows'[j] = rows[j]
      BY <1>3, <1>4 DEF Kept
  <2> QED BY <1>3, <2>1 DEF TableInv, OneKeptRecord
<1>9. BackedInv'
  <2>1. ASSUME NEW j \in Stored, j # i
        PROVE  /\ Kept(j)' <=> Kept(j)
               /\ BackedRow(j) => BackedRow(j)'
               /\ DeletedRow(j) => DeletedRow(j)'
    <3>1. rows'[j] = rows[j]
        BY <1>3, <2>1
    <3>2. SourcesOf(j)' = SourcesOf(j)
        BY <1>1, <2>1 DEF SourcesOf
    <3>3. (\E s \in sources : s[1] = j) => \E s \in sources' : s[1] = j
        BY <1>1, <2>1
    <3>4. <<j, rows[j].content>> \in index => <<j, rows[j].content>> \in index'
        BY <1>1, <2>1
    <3>5. \A x \in sources' \cup index' : x \in sources \cup index
        BY <1>1
    <3>6. tombstones \subseteq tombstones'
        BY <1>1
    <3>7. Kept(j)' <=> Kept(j)
        BY <3>1 DEF Kept
    <3>8. BackedRow(j) => BackedRow(j)'
        BY <3>1, <3>2, <3>3, <3>4 DEF BackedRow
    <3>9. DeletedRow(j) => DeletedRow(j)'
        BY <3>1, <3>5, <3>6 DEF DeletedRow
    <3> QED BY <3>7, <3>8, <3>9
  <2>2. ~Kept(i)' /\ DeletedRow(i)'
    <3>1. \A x \in sources' \cup index' : x[1] # i
        BY <1>1 DEF TableInv, TablesInv
    <3>2. <<i, rows'[i].hash>> \in tombstones'
        BY <1>1, <1>4
    <3> QED BY <1>4, <3>1, <3>2 DEF Kept, DeletedRow
  <2> QED BY <1>3, <2>1, <2>2 DEF TableInv, BackedInv
<1>10. \A j \in Stored : ~Active(j) => ~Active(j)'
    BY <1>3, <1>4 DEF Active, Kept
<1> QED BY <1>3, <1>5, <1>6, <1>7, <1>8, <1>9, <1>10 DEF TableInv

-----------------------------------------------------------------------------
(* The readers.                                                            *)

\* Writers leave the readers alone; what is gone stays gone.
LEMMA ReadersKept ==
    ASSUME ReadInv, UNCHANGED reading, Stored \subseteq Stored',
           \A i \in Stored : ~Active(i) => ~Active(i)'
    PROVE  ReadInv'
<1>1. asked' = asked /\ hits' = hits /\ offered' = offered /\ gone' = gone
    BY DEF reading
<1>2. ReadTypes'
    BY <1>1 DEF ReadInv, ReadTypes
<1>3. GoneInv'
    BY <1>1 DEF ReadInv, GoneInv
<1>4. ShownInv'
    BY <1>1 DEF ReadInv, ShownInv, Showable
<1>5. IdleInv'
    BY <1>1 DEF ReadInv, IdleInv
<1> QED BY <1>2, <1>3, <1>4, <1>5 DEF ReadInv

LEMMA TablesUnchanged ==
    ASSUME TableInv, UNCHANGED tables
    PROVE  TableInv' /\ Stored' = Stored /\ \A i \in Stored : Active(i)' <=> Active(i)
<1>1. rows' = rows /\ sources' = sources /\ index' = index /\ tombstones' = tombstones
    BY DEF tables
<1>2. RowsInv' /\ TablesInv' /\ KeptInv' /\ OneKeptRecord'
    BY <1>1 DEF TableInv, RowsInv, TablesInv, KeptInv, OneKeptRecord, Stored, Kept
<1>3. BackedInv'
    BY <1>1 DEF TableInv, BackedInv, BackedRow, DeletedRow, SourcesOf, Stored, Kept
<1> QED BY <1>1, <1>2, <1>3 DEF TableInv, Stored, Active, Kept

\* Whatever active rows a SELECT returns may be shown to a reader for whom
\* only inactive rows are gone.
LEMMA ActiveShowable ==
    ASSUME MemoryAssumption, TableInv, NEW s \in SUBSET {i \in Stored : Active(i)},
           NEW old, \A i \in old : ~Active(i)
    PROVE  \A h \in Payloads(s) : Showable(h, old)
<1> SUFFICES ASSUME NEW i \in s
             PROVE  Showable([id |-> i, payload |-> rows[i].payload], old)
    BY DEF Payloads
<1>1. i \in Stored /\ Active(i) /\ i \notin old
    OBVIOUS
<1>2. rows[i].payload.content # Deleted /\ rows[i].payload.status # "stale"
    BY <1>1 DEF TableInv, KeptInv, Active, MemoryAssumption
<1> QED BY <1>1, <1>2 DEF Showable

LEMMA RankedActive ==
    ASSUME NEW q, NEW project, NEW agent,
           NEW s \in Ranked(Matched(q, project, agent)) \cup Ranked(Alike(q, project, agent))
    PROVE  s \in SUBSET {i \in Stored : Active(i)}
BY DEF Ranked, Matched, Alike, InScope

\* A reader p takes up new hits or offers, and perhaps a new record of what is
\* gone; the others go on as they were.
LEMMA OneReader ==
    ASSUME ReadInv, NEW p \in Procs, NEW a \in AskedType, NEW h, NEW o, NEW g,
           asked' = [asked EXCEPT ![p] = a], hits' = [hits EXCEPT ![p] = h],
           offered' = [offered EXCEPT ![p] = o], gone' = [gone EXCEPT ![p] = g],
           rows' = rows, a.step = "idle" => h = {},
           \A i \in g : i \in Stored /\ ~Active(i),
           \A x \in h \cup o : Showable(x, g)
    PROVE  ReadInv'
<1>1. /\ hits' = [r \in Procs |-> IF r = p THEN h ELSE hits[r]]
      /\ offered' = [r \in Procs |-> IF r = p THEN o ELSE offered[r]]
      /\ gone' = [r \in Procs |-> IF r = p THEN g ELSE gone[r]]
    BY DEF ReadInv, ReadTypes
<1>2. ReadTypes'
    BY <1>1 DEF ReadInv, ReadTypes
<1>3. \A i : Active(i)' <=> Active(i)
    BY DEF Active, Kept
<1>4. Stored' = Stored
    BY DEF Stored
<1>5. GoneInv'
    BY <1>1, <1>3, <1>4 DEF ReadInv, GoneInv
<1>6. ShownInv'
  <2>1. ASSUME NEW r \in Procs, NEW x \in hits'[r] \cup offered'[r]
        PROVE  Showable(x, gone'[r])
    <3>1. CASE r = p
        BY <1>1, <2>1, <3>1
    <3>2. CASE r # p
        BY <1>1, <2>1, <3>2 DEF ReadInv, ShownInv
    <3> QED BY <3>1, <3>2
  <2> QED BY <2>1 DEF ShownInv, Showable
<1>7. IdleInv'
  <2>1. asked' = [r \in Procs |-> IF r = p THEN a ELSE asked[r]]
      BY DEF ReadInv, ReadTypes
  <2> QED BY <1>1, <2>1 DEF ReadInv, IdleInv
<1> QED BY <1>2, <1>5, <1>6, <1>7 DEF ReadInv

LEMMA SearchReaders ==
    ASSUME MemoryAssumption, Inv, NEW p \in Procs, NEW q \in Queries,
           NEW project \in Projects, NEW agent \in Agents,
           Search(p, q, project, agent)
    PROVE  ReadInv'
<1> DEFINE full == Fts /\ q.tokens # {}
           g == {i \in Stored : ~Active(i)}
<1>1. PICK s \in Ranked(IF full THEN Matched(q, project, agent) ELSE Alike(q, project, agent)) :
          /\ hits' = [hits EXCEPT ![p] = Payloads(s)]
          /\ asked' = [asked EXCEPT ![p] =
                [step |-> IF full /\ s = {} THEN "again" ELSE "found", q |-> q, project |-> project, agent |-> agent]]
    BY DEF Search
<1>2. s \in SUBSET {i \in Stored : Active(i)}
  <2>1. s \in Ranked(Matched(q, project, agent)) \cup Ranked(Alike(q, project, agent))
      OBVIOUS
  <2> QED BY <2>1, RankedActive
<1>3. /\ offered' = [offered EXCEPT ![p] = {}]
      /\ gone' = [gone EXCEPT ![p] = g]
      /\ rows' = rows
    BY DEF Search, tables
<1>4. \A x \in Payloads(s) : Showable(x, g)
    BY <1>2, ActiveShowable DEF Inv
<1>5. [step |-> IF full /\ s = {} THEN "again" ELSE "found", q |-> q, project |-> project, agent |-> agent] \in AskedType
    BY DEF AskedType
<1>6. \A i \in g : i \in Stored /\ ~Active(i)
    OBVIOUS
<1> HIDE DEF g
<1>7. \A x \in Payloads(s) \cup {} : Showable(x, g)
    BY <1>4
<1> DEFINE a == [step |-> IF full /\ s = {} THEN "again" ELSE "found", q |-> q, project |-> project, agent |-> agent]
<1>8. a \in AskedType /\ a.step # "idle" /\ asked' = [asked EXCEPT ![p] = a]
    BY <1>1, <1>5
<1> HIDE DEF a, full
<1> QED BY <1>1, <1>3, <1>6, <1>7, <1>8, OneReader DEF Inv

LEMMA FallbackReaders ==
    ASSUME MemoryAssumption, Inv, NEW p \in Procs, Fallback(p)
    PROVE  ReadInv'
<1>1. PICK s \in Ranked(Alike(asked[p].q, asked[p].project, asked[p].agent)) :
          hits' = [hits EXCEPT ![p] = Payloads(s)]
    BY DEF Fallback
<1>2. s \in SUBSET {i \in Stored : Active(i)}
    BY RankedActive
<1> DEFINE a == [asked[p] EXCEPT !.step = "found"]
<1>3. a \in AskedType /\ a.step # "idle"
  <2>1. asked[p] \in [step : {"again", "found"}, q : Queries, project : Projects, agent : Agents]
      BY DEF Fallback, Inv, ReadInv, ReadTypes, AskedType
  <2> QED BY <2>1 DEF AskedType
<1>4. /\ asked' = [asked EXCEPT ![p] = a]
      /\ offered' = [offered EXCEPT ![p] = offered[p]]
      /\ gone' = [gone EXCEPT ![p] = gone[p]]
      /\ rows' = rows
    BY DEF Fallback, tables, Inv, ReadInv, ReadTypes
<1>5. \A i \in gone[p] : i \in Stored /\ ~Active(i)
    BY DEF Inv, ReadInv, GoneInv
<1>6. \A x \in Payloads(s) : Showable(x, gone[p])
    BY <1>2, <1>5, ActiveShowable DEF Inv
<1>7. \A x \in Payloads(s) \cup offered[p] : Showable(x, gone[p])
    BY <1>6 DEF Inv, ReadInv, ShownInv
<1> HIDE DEF a
<1> QED BY <1>1, <1>3, <1>4, <1>5, <1>7, OneReader DEF Inv

LEMMA ReturnReaders ==
    ASSUME Inv, NEW p \in Procs, Return(p)
    PROVE  ReadInv'
<1>1. PICK r \in IF asked[p].agent = Null THEN {hits[p]} ELSE Rendered(hits[p]) :
          offered' = [offered EXCEPT ![p] = r]
    BY DEF Return
<1>2. r \in SUBSET hits[p]
    BY DEF Rendered
<1>3. /\ asked' = [asked EXCEPT ![p] = NotAsked]
      /\ hits' = [hits EXCEPT ![p] = {}]
      /\ gone' = [gone EXCEPT ![p] = gone[p]]
      /\ rows' = rows
    BY DEF Return, tables, Inv, ReadInv, ReadTypes
<1>4. NotAsked \in AskedType
    BY DEF NotAsked, AskedType
<1>5. \A i \in gone[p] : i \in Stored /\ ~Active(i)
    BY DEF Inv, ReadInv, GoneInv
<1>6. \A x \in {} \cup r : Showable(x, gone[p])
    BY <1>2 DEF Inv, ReadInv, ShownInv
<1> QED BY <1>1, <1>3, <1>4, <1>5, <1>6, OneReader DEF Inv

LEMMA FailReaders ==
    ASSUME Inv, NEW p \in Procs, SearchFails(p)
    PROVE  ReadInv'
<1>1. /\ asked' = [asked EXCEPT ![p] = NotAsked]
      /\ hits' = [hits EXCEPT ![p] = {}]
      /\ offered' = [offered EXCEPT ![p] = offered[p]]
      /\ gone' = [gone EXCEPT ![p] = gone[p]]
      /\ rows' = rows
    BY DEF SearchFails, tables, Inv, ReadInv, ReadTypes
<1>2. NotAsked \in AskedType
    BY DEF NotAsked, AskedType
<1>3. \A i \in gone[p] : i \in Stored /\ ~Active(i)
    BY DEF Inv, ReadInv, GoneInv
<1>4. \A x \in {} \cup offered[p] : Showable(x, gone[p])
    BY DEF Inv, ReadInv, ShownInv
<1> QED BY <1>1, <1>2, <1>3, <1>4, OneReader DEF Inv

LEMMA ListReaders ==
    ASSUME MemoryAssumption, Inv, NEW p \in Procs, NEW project \in Projects, List(p, project)
    PROVE  ReadInv'
<1> DEFINE s == {i \in Stored : InScope(i, project, Null)}
           g == {i \in Stored : ~Active(i)}
<1>1. s \in SUBSET {i \in Stored : Active(i)}
    BY DEF InScope
<1>2. \A i \in g : i \in Stored /\ ~Active(i)
    OBVIOUS
<1>3. \A x \in Payloads(s) : Showable(x, g)
    BY <1>1, <1>2, ActiveShowable DEF Inv
<1>4. /\ offered' = [offered EXCEPT ![p] = Payloads(s)]
      /\ gone' = [gone EXCEPT ![p] = g]
      /\ rows' = rows
    BY DEF List, tables
<1> HIDE DEF s, g
<1>5. hits[p] = {} /\ asked[p] \in AskedType
    BY DEF List, Inv, ReadInv, ReadTypes, IdleInv
<1>6. /\ asked' = [asked EXCEPT ![p] = asked[p]]
      /\ hits' = [hits EXCEPT ![p] = {}]
    BY <1>5 DEF List, Inv, ReadInv, ReadTypes
<1>7. \A x \in {} \cup Payloads(s) : Showable(x, g)
    BY <1>3
<1> QED BY <1>2, <1>4, <1>5, <1>6, <1>7, OneReader DEF Inv

-----------------------------------------------------------------------------
(* The theorems.                                                           *)

LEMMA WriteKeepsInv ==
    ASSUME MemoryAssumption, Inv,
           NEW key \in Keys, NEW kind \in Kinds, NEW verified \in BOOLEAN,
           NEW c \in Contents, NEW items \in SUBSET Items,
           Write(key, kind, verified, c, items)
    PROVE  Inv'
<1>1. TableInv' /\ Stored \subseteq Stored' /\ \A i \in Stored : rows'[i] = rows[i]
    BY WriteTables DEF Inv
<1>2. \A i \in Stored : ~Active(i) => ~Active(i)'
    BY <1>1 DEF Active, Kept
<1>3. UNCHANGED reading
    BY DEF Write
<1> QED BY <1>1, <1>2, <1>3, ReadersKept DEF Inv

LEMMA InvStep == MemoryAssumption /\ Inv /\ [Next]_vars => Inv'
<1> SUFFICES ASSUME MemoryAssumption, Inv, [Next]_vars PROVE Inv'
    OBVIOUS
<1>1. ASSUME NEW key \in Keys, NEW kind \in Kinds, NEW verified \in BOOLEAN, NEW c \in Contents,
             NEW items \in SUBSET Items, Write(key, kind, verified, c, items)
      PROVE  Inv'
    BY <1>1, WriteKeepsInv
<1>2. ASSUME NEW project \in Projects, NEW c \in Contents, AddExplicit(project, c)
      PROVE  Inv'
  <2> DEFINE key == [project |-> project, thread |-> Null, agent |-> Null]
  <2>1. key \in Keys
      BY DEF Projects, MemoryAssumption
  <2>2. Write(key, "user_explicit", FALSE, c, {})
      BY <1>2 DEF AddExplicit
  <2>3. "user_explicit" \in Kinds
      BY DEF MemoryAssumption
  <2>4. {} \in SUBSET Items /\ FALSE \in BOOLEAN
      OBVIOUS
  <2> HIDE DEF key
  <2>5. PICK k \in Keys : k = key
      BY <2>1
  <2>6. Write(k, "user_explicit", FALSE, c, {})
      BY <2>2, <2>5
  <2> QED BY <2>3, <2>4, <2>6, WriteKeepsInv
<1>3. ASSUME NEW i \in Ids, Invalidate(i)
      PROVE  Inv'
  <2>1. UNCHANGED reading
      BY <1>3 DEF Invalidate
  <2> QED BY <1>3, <2>1, InvalidateTables, ReadersKept DEF Inv
<1>4. ASSUME NEW i \in Ids, Delete(i)
      PROVE  Inv'
  <2>1. UNCHANGED reading
      BY <1>4 DEF Delete
  <2> QED BY <1>4, <2>1, DeleteTables, ReadersKept DEF Inv
<1>5. ASSUME NEW p \in Procs, NEW q \in Queries, NEW project \in Projects, NEW agent \in Agents,
             Search(p, q, project, agent)
      PROVE  Inv'
  <2>1. UNCHANGED tables
      BY <1>5 DEF Search
  <2> QED BY <1>5, <2>1, TablesUnchanged, SearchReaders DEF Inv
<1>6. ASSUME NEW p \in Procs, Fallback(p)
      PROVE  Inv'
  <2>1. UNCHANGED tables
      BY <1>6 DEF Fallback
  <2> QED BY <1>6, <2>1, TablesUnchanged, FallbackReaders DEF Inv
<1>7. ASSUME NEW p \in Procs, Return(p)
      PROVE  Inv'
  <2>1. UNCHANGED tables
      BY <1>7 DEF Return
  <2> QED BY <1>7, <2>1, TablesUnchanged, ReturnReaders DEF Inv
<1>10. ASSUME NEW p \in Procs, SearchFails(p)
      PROVE  Inv'
  <2>1. UNCHANGED tables
      BY <1>10 DEF SearchFails
  <2> QED BY <1>10, <2>1, TablesUnchanged, FailReaders DEF Inv
<1>8. ASSUME NEW p \in Procs, NEW project \in Projects, List(p, project)
      PROVE  Inv'
  <2>1. UNCHANGED tables
      BY <1>8 DEF List
  <2> QED BY <1>8, <2>1, TablesUnchanged, ListReaders DEF Inv
<1>9. CASE UNCHANGED vars
  <2>1. UNCHANGED tables /\ UNCHANGED reading
      BY <1>9 DEF vars
  <2>2. TableInv' /\ Stored' = Stored /\ \A i \in Stored : Active(i)' <=> Active(i)
      BY <2>1, TablesUnchanged DEF Inv
  <2> QED BY <2>1, <2>2, ReadersKept DEF Inv
<1> QED BY <1>1, <1>2, <1>3, <1>4, <1>5, <1>6, <1>7, <1>8, <1>9, <1>10 DEF Next

\* The six copies of every memory agree in every reachable state, whatever the
\* processes write, invalidate and delete (memory/store.py: write, invalidate,
\* delete).
THEOREM StoreCorrect == Spec => []StoreSound
<1>1. MemoryAssumption
    BY MemoryAssumption
<1>2. Inv => TypeOK
  <2> SUFFICES ASSUME Inv PROVE TypeOK
      OBVIOUS
  <2>1. \A i \in Stored : rows[i] \in RowType
      BY DEF Inv, TableInv, RowsInv
  <2>2. \A i \in Stored :
          /\ rows[i].key \in Keys /\ rows[i].invalidated \in BOOLEAN /\ rows[i].deleted \in BOOLEAN
          /\ rows[i].content \in Contents \cup {Deleted} /\ rows[i].payload \in Payload
      BY <2>1 DEF RowType, Texts
  <2>3. \A i \in Stored :
          /\ rows[i].payload.content \in Contents \cup {Deleted} /\ rows[i].payload.items \subseteq Items
          /\ rows[i].payload.kind \in Kinds /\ rows[i].payload.status \in Statuses
      BY <2>2 DEF Payload, Texts
  <2>4. \A p \in Procs : asked[p].step \in {"idle", "again", "found"}
      BY DEF Inv, ReadInv, ReadTypes, AskedType
  <2> QED BY <2>2, <2>3, <2>4 DEF TypeOK, Inv, TableInv, RowsInv, TablesInv
<1>3. Inv => DeletedOrBacked
    BY DEF Inv, TableInv, BackedInv, BackedRow, DeletedRow, SourcesOf, DeletedOrBacked
<1>4. Inv => StoreSound
    BY <1>2, <1>3 DEF StoreSound, Inv, TableInv
<1> QED BY <1>1, <1>4, InvInit, InvStep, PTL DEF Spec

\* No search shows what was deleted or invalidated before it began, through
\* whichever of its two SELECTs (memory/store.py: search, list).
THEOREM OffersCorrect == Spec => []OfferedWasActive
<1>1. MemoryAssumption
    BY MemoryAssumption
<1>2. Inv => OfferedWasActive
    BY DEF Inv, ReadInv, ShownInv, Showable, OfferedWasActive
<1> QED BY <1>1, <1>2, InvInit, InvStep, PTL DEF Spec

-----------------------------------------------------------------------------
(* The trace.                                                              *)

\* A line of the file; every event of the model is one.
Line == [id : Nat, n : Nat, kind : {"started", "request", "response", "reused", "finalizing",
                                    "completed", "recovered", "failed", "child"}, call : Nat]

\* What is written and what waits to be.
Lines == file \o buffer

Ordered(s) == \A i, j \in DOMAIN s : i < j => s[i].n < s[j].n /\ s[i].id < s[j].id
Counts(e, call) == e.kind = "response" /\ e.call = call
Has(s, call) == \E i \in DOMAIN s : Counts(s[i], call)
Once(s) == \A i, j \in DOMAIN s : s[j].kind = "response" /\ Counts(s[i], s[j].call) => i = j

LinesInv ==
    /\ file \in Seq(Line) /\ buffer \in Seq(Line)
    /\ ids \in Nat /\ number \in 0..ids /\ calls \in 0..MaxCalls
    /\ \A i \in DOMAIN Lines : Lines[i].id \in 1..ids /\ Lines[i].n \in 1..ids /\ Lines[i].call \in 0..calls
    /\ InTurn => \A i \in DOMAIN Lines : Lines[i].n <= number
    /\ Ordered(Lines)

SinkInv ==
    /\ ~InTurn => buffer = <<>>
    /\ torn => buffer # <<>> \/ pc = "down"
    /\ ~failed => buffer = <<>>

ViewInv ==
    /\ view \in Seq(Line)
    /\ pc = "down" => view = <<>>
    /\ \A i \in DOMAIN view : \E p \in DOMAIN file : view[i] = file[p]
    /\ Ordered(view)
    /\ pc # "down" /\ ~failed => view = file

\* Where the turn works on a response it has accounted for.
Holding ==
    \/ pc \in {"answered", "reusing", "working", "deciding", "completing"}
    \/ pc = "created" /\ resuming = "after_model"

ReplyInv ==
    /\ reply \in 0..calls /\ point.reply \in 0..calls
    /\ Once(Lines)
    /\ pc = "accounting" => reply = calls /\ ~Has(Lines, reply)
    /\ point.at \in {"after_model", "before_finalize"} => Has(file, point.reply)
    /\ Holding => Has(file, reply) /\ Has(view, reply)

TraceInv == LinesInv /\ SinkInv /\ ViewInv /\ ReplyInv

-----------------------------------------------------------------------------
(* Sequences of lines.                                                     *)

LEMMA JoinFacts ==
    ASSUME NEW s \in Seq(Line), NEW t \in Seq(Line)
    PROVE  /\ s \o t \in Seq(Line) /\ Len(s \o t) = Len(s) + Len(t)
           /\ Len(s) \in Nat /\ Len(t) \in Nat
           /\ DOMAIN s = 1..Len(s) /\ DOMAIN t = 1..Len(t) /\ DOMAIN (s \o t) = 1..Len(s \o t)
           /\ \A i \in 1..Len(s) : (s \o t)[i] = s[i]
           /\ \A i \in 1..Len(t) : (s \o t)[Len(s) + i] = t[i]
           /\ s \o <<>> = s
OBVIOUS

LEMMA JoinAgain ==
    ASSUME NEW s \in Seq(Line), NEW t \in Seq(Line), NEW u \in Seq(Line)
    PROVE  (s \o t) \o u = s \o (t \o u)
BY ConcatAssociative

LEMMA OrderedPrefix ==
    ASSUME NEW s \in Seq(Line), NEW t \in Seq(Line), Ordered(s \o t)
    PROVE  Ordered(s)
<1>1. \A i \in 1..Len(s) : i \in 1..Len(s \o t) /\ (s \o t)[i] = s[i]
    BY JoinFacts
<1> QED BY <1>1, JoinFacts DEF Ordered

LEMMA OrderedAppend ==
    ASSUME NEW s \in Seq(Line), NEW e \in Line, Ordered(s),
           \A i \in DOMAIN s : s[i].n < e.n /\ s[i].id < e.id
    PROVE  Ordered(s \o <<e>>)
<1>1. <<e>> \in Seq(Line) /\ Len(<<e>>) = 1 /\ <<e>>[1] = e
    OBVIOUS
<1>2. /\ DOMAIN (s \o <<e>>) = 1..(Len(s) + 1) /\ DOMAIN s = 1..Len(s) /\ Len(s) \in Nat
      /\ \A i \in 1..Len(s) : (s \o <<e>>)[i] = s[i]
      /\ (s \o <<e>>)[Len(s) + 1] = e
    BY <1>1, JoinFacts
<1> DEFINE u == s \o <<e>>
<1>3. SUFFICES ASSUME NEW i \in 1..(Len(s) + 1), NEW j \in 1..(Len(s) + 1), i < j
               PROVE  u[i].n < u[j].n /\ u[i].id < u[j].id
    BY <1>2 DEF Ordered
<1> HIDE DEF u
<1>4. i \in 1..Len(s) /\ u[i] = s[i]
    BY <1>2, <1>3 DEF u
<1>5. CASE j = Len(s) + 1
    BY <1>2, <1>4, <1>5 DEF u
<1>6. CASE j \in 1..Len(s)
    BY <1>2, <1>3, <1>4, <1>6 DEF u, Ordered
<1> QED BY <1>2, <1>5, <1>6

\* An element of a concatenation is of one of the two.
LEMMA JoinElements ==
    ASSUME NEW s \in Seq(Line), NEW t \in Seq(Line), NEW i \in DOMAIN (s \o t)
    PROVE  \/ i \in DOMAIN s /\ (s \o t)[i] = s[i]
           \/ \E k \in DOMAIN t : i = Len(s) + k /\ (s \o t)[i] = t[k]
<1>1. CASE i <= Len(s)
    BY <1>1, JoinFacts
<1>2. CASE i > Len(s)
  <2>1. i - Len(s) \in 1..Len(t) /\ i = Len(s) + (i - Len(s))
      BY <1>2, JoinFacts
  <2> QED BY <2>1, JoinFacts
<1> QED BY <1>1, <1>2, JoinFacts

LEMMA HasJoin ==
    ASSUME NEW s \in Seq(Line), NEW t \in Seq(Line), NEW call
    PROVE  Has(s \o t, call) <=> Has(s, call) \/ Has(t, call)
<1>1. ASSUME Has(s \o t, call) PROVE Has(s, call) \/ Has(t, call)
  <2>1. PICK i \in DOMAIN (s \o t) : Counts((s \o t)[i], call)
      BY <1>1 DEF Has
  <2> QED BY <2>1, JoinElements DEF Has
<1>2. ASSUME Has(s, call) PROVE Has(s \o t, call)
  <2>1. PICK i \in DOMAIN s : Counts(s[i], call)
      BY <1>2 DEF Has
  <2>2. i \in DOMAIN (s \o t) /\ (s \o t)[i] = s[i]
      BY JoinFacts
  <2> QED BY <2>1, <2>2 DEF Has
<1>3. ASSUME Has(t, call) PROVE Has(s \o t, call)
  <2>1. PICK i \in DOMAIN t : Counts(t[i], call)
      BY <1>3 DEF Has
  <2>2. Len(s) + i \in DOMAIN (s \o t) /\ (s \o t)[Len(s) + i] = t[i]
      BY JoinFacts
  <2> QED BY <2>1, <2>2 DEF Has
<1> QED BY <1>1, <1>2, <1>3

LEMMA HasOne ==
    ASSUME NEW e \in Line, NEW call
    PROVE  Has(<<e>>, call) <=> Counts(e, call)
<1>1. DOMAIN <<e>> = {1} /\ <<e>>[1] = e
    OBVIOUS
<1> QED BY <1>1 DEF Has

LEMMA OncePrefix ==
    ASSUME NEW s \in Seq(Line), NEW t \in Seq(Line), Once(s \o t)
    PROVE  Once(s)
<1>1. \A i \in DOMAIN s : i \in DOMAIN (s \o t) /\ (s \o t)[i] = s[i]
    BY JoinFacts
<1> QED BY <1>1 DEF Once

LEMMA OnceAppend ==
    ASSUME NEW s \in Seq(Line), NEW e \in Line, Once(s), e.kind = "response" => ~Has(s, e.call)
    PROVE  Once(s \o <<e>>)
<1>1. <<e>> \in Seq(Line) /\ DOMAIN <<e>> = {1} /\ <<e>>[1] = e
    OBVIOUS
<1>2. SUFFICES ASSUME NEW i \in DOMAIN (s \o <<e>>), NEW j \in DOMAIN (s \o <<e>>), NEW call,
                      Counts((s \o <<e>>)[i], call), Counts((s \o <<e>>)[j], call)
               PROVE  i = j
    BY DEF Once, Counts
<1>3. \A k \in DOMAIN (s \o <<e>>) :
          \/ k \in DOMAIN s /\ (s \o <<e>>)[k] = s[k]
          \/ k = Len(s) + 1 /\ (s \o <<e>>)[k] = e
    BY <1>1, JoinElements
<1>4. CASE i \in DOMAIN s /\ (s \o <<e>>)[i] = s[i]
  <2>1. Has(s, call)
      BY <1>2, <1>4 DEF Has
  <2>2. ~Counts(e, call)
      BY <2>1 DEF Counts
  <2>3. j \in DOMAIN s /\ (s \o <<e>>)[j] = s[j]
      BY <1>2, <1>3, <2>2
  <2> QED BY <1>2, <1>4, <2>3 DEF Once, Counts
<1>5. CASE i = Len(s) + 1 /\ (s \o <<e>>)[i] = e
  <2>1. ~Has(s, call)
      BY <1>2, <1>5 DEF Counts
  <2>2. j = Len(s) + 1
      BY <1>2, <1>3, <2>1 DEF Has
  <2> QED BY <1>5, <2>2
<1> QED BY <1>3, <1>4, <1>5

\* The split of what a flush wrote and what it did not.
LEMMA SplitFacts ==
    ASSUME NEW s \in Seq(Line), NEW k \in 0..(Len(s) - 1)
    PROVE  /\ SubSeq(s, 1, k) \in Seq(Line) /\ SubSeq(s, k + 1, Len(s)) \in Seq(Line)
           /\ SubSeq(s, 1, k) \o SubSeq(s, k + 1, Len(s)) = s
           /\ SubSeq(s, k + 1, Len(s)) # <<>>
<1>1. Len(s) \in Nat /\ k \in Int /\ 0 <= k /\ k < Len(s) /\ \A i \in 1..Len(s) : s[i] \in Line
    OBVIOUS
<1>2. SubSeq(s, 1, k) \in Seq(Line)
    BY <1>1, SubSeqProperties
<1>3. SubSeq(s, k + 1, Len(s)) \in Seq(Line) /\ Len(SubSeq(s, k + 1, Len(s))) = Len(s) - k
    BY <1>1, SubSeqProperties
<1>4. SubSeq(s, 1, k) \o SubSeq(s, k + 1, Len(s)) = SubSeq(s, 1, Len(s))
    BY <1>1, ConcatAdjacentSubSeq
<1>5. SubSeq(s, 1, Len(s)) = s
    BY SubSeqFull
<1>6. SubSeq(s, k + 1, Len(s)) # <<>>
  <2> DEFINE r == SubSeq(s, k + 1, Len(s))
  <2>1. Len(r) = Len(s) - k
      BY <1>3
  <2> HIDE DEF r
  <2>2. Len(r) # 0
      BY <1>1, <2>1
  <2>3. r # <<>>
      BY <2>2
  <2> QED BY <2>3 DEF r
<1> QED BY <1>2, <1>3, <1>4, <1>5, <1>6

-----------------------------------------------------------------------------
(* An event.                                                               *)

EventKinds == {"started", "request", "response", "reused", "finalizing",
               "completed", "recovered", "failed", "child"}

LEMMA EventLine ==
    ASSUME LinesInv, NEW kind \in EventKinds, NEW call \in 0..calls
    PROVE  /\ Event(kind, call) \in Line
           /\ Event(kind, call).kind = kind /\ Event(kind, call).call = call
           /\ Event(kind, call).id = ids + 1 /\ Event(kind, call).n = number + 1
<1>1. call \in Nat /\ ids + 1 \in Nat /\ number + 1 \in Nat
    BY DEF LinesInv
<1> QED BY <1>1 DEF Event, Line, EventKinds

\* A refused flush leaves a prefix of the lines in the file, the rest waiting.
LEMMA FlushFacts ==
    ASSUME LinesInv, NEW t \in Seq(Line), t # <<>>, FlushStops(t)
    PROVE  /\ file' \in Seq(Line) /\ buffer' \in Seq(Line) /\ buffer' # <<>>
           /\ Lines' = file \o t
           /\ \E s \in Seq(Line) : file' = file \o s
<1>1. PICK k \in 0..(Len(t) - 1) : file' = file \o SubSeq(t, 1, k) /\ buffer' = SubSeq(t, k + 1, Len(t))
    BY DEF FlushStops
<1>2. /\ SubSeq(t, 1, k) \in Seq(Line) /\ SubSeq(t, k + 1, Len(t)) \in Seq(Line)
      /\ SubSeq(t, 1, k) \o SubSeq(t, k + 1, Len(t)) = t
      /\ SubSeq(t, k + 1, Len(t)) # <<>>
    BY SplitFacts
<1>3. file \in Seq(Line)
    BY DEF LinesInv
<1>4. file' \in Seq(Line)
    BY <1>1, <1>2, <1>3, JoinFacts
<1>5. (file \o SubSeq(t, 1, k)) \o SubSeq(t, k + 1, Len(t)) = file \o t
  <2> DEFINE a == SubSeq(t, 1, k)
             b == SubSeq(t, k + 1, Len(t))
  <2>1. a \in Seq(Line) /\ b \in Seq(Line) /\ a \o b = t
      BY <1>2
  <2> HIDE DEF a, b
  <2>2. (file \o a) \o b = file \o (a \o b)
    <3>1. file \in Seq(Line)
        BY DEF LinesInv
    <3> QED BY <2>1, <3>1, JoinAgain
  <2>3. (file \o a) \o b = file \o t
      BY <1>3, <2>1, <2>2, Zenon
  <2> QED BY <2>3 DEF a, b
<1> QED BY <1>1, <1>2, <1>4, <1>5 DEF Lines

Grows == \E s \in Seq(Line) : file' = file \o s

\* What an event does to the disk and to the view.

LEMMA WrittenFacts ==
    ASSUME LinesInv, ViewInv, NEW e \in Line, e.id = ids + 1, Written(e)
    PROVE  /\ file' \in Seq(Line) /\ buffer' = <<>> /\ torn' = FALSE /\ failed' = failed
           /\ Lines' = Lines \o <<e>>
           /\ Grows
           /\ view' = view \o <<e>>
           /\ \E p \in DOMAIN file' : file'[p] = e
           /\ buffer = <<>> => file' = file \o <<e>>
<1>1. file \in Seq(Line) /\ buffer \in Seq(Line) /\ <<e>> \in Seq(Line)
    BY DEF LinesInv
<1>2. Lines \in Seq(Line) /\ buffer \o <<e>> \in Seq(Line)
    BY <1>1, JoinFacts DEF Lines
<1>3. (file \o buffer) \o <<e>> = file \o (buffer \o <<e>>)
    BY <1>1, ConcatAssociative
<1>4. file' = Lines \o <<e>> /\ buffer' = <<>> /\ torn' = FALSE /\ failed' = failed /\ view' = Shown(e)
    BY DEF Written, Lines
<1>5. file' \in Seq(Line) /\ Lines' = Lines \o <<e>>
    BY <1>1, <1>2, <1>4, JoinFacts DEF Lines
<1>6. Grows
    BY <1>2, <1>3, <1>4 DEF Lines, Grows
<1>7. view' = view \o <<e>>
  <2>1. \A i \in DOMAIN view : view[i].id # e.id
    <3>1. TAKE i \in DOMAIN view
    <3>2. PICK p \in DOMAIN file : view[i] = file[p]
        BY DEF ViewInv
    <3>3. p \in DOMAIN Lines /\ Lines[p] = file[p]
        BY <1>1, JoinFacts DEF Lines
    <3>4. Lines[p].id \in 1..ids /\ ids \in Nat
        BY <3>3 DEF LinesInv
    <3> QED BY <3>2, <3>3, <3>4
  <2>2. view' = Append(view, e)
      BY <1>4, <2>1 DEF Shown
  <2>3. view \in Seq(Line)
      BY DEF ViewInv
  <2> QED BY <2>2, <2>3
<1>8. \E p \in DOMAIN file' : file'[p] = e
  <2>1. Len(Lines) + 1 \in DOMAIN (Lines \o <<e>>) /\ (Lines \o <<e>>)[Len(Lines) + 1] = e
      BY <1>2
  <2> QED BY <1>4, <2>1
<1>9. buffer = <<>> => file' = file \o <<e>>
    BY <1>1, <1>4, JoinFacts DEF Lines
<1> QED BY <1>4, <1>5, <1>6, <1>7, <1>8, <1>9

LEMMA UnwrittenFacts ==
    ASSUME LinesInv, SinkInv, pc # "down", NEW e \in Line, Unwritten(e)
    PROVE  /\ file' \in Seq(Line) /\ buffer' \in Seq(Line) /\ (torn' => buffer' # <<>>)
           /\ Lines' \in {Lines, Lines \o <<e>>}
           /\ Grows
           /\ failed' /\ view' = view
<1>1. file \in Seq(Line) /\ buffer \in Seq(Line) /\ <<e>> \in Seq(Line)
    BY DEF LinesInv
<1>2. buffer \o <<e>> \in Seq(Line) /\ buffer \o <<e>> # <<>> /\ Append(buffer, e) = buffer \o <<e>>
    BY <1>1
<1>3. (file \o buffer) \o <<e>> = file \o (buffer \o <<e>>)
    BY <1>1, ConcatAssociative
<1>4. failed' /\ view' = view /\ (FlushStops(Append(buffer, e)) \/ UNCHANGED disk)
    BY DEF Unwritten, Fault
<1>5. CASE FlushStops(Append(buffer, e))
  <2>1. /\ file' \in Seq(Line) /\ buffer' \in Seq(Line) /\ buffer' # <<>>
        /\ Lines' = file \o Append(buffer, e) /\ Grows
      BY <1>2, <1>5, FlushFacts DEF Grows
  <2>2. Lines' = Lines \o <<e>>
      BY <1>2, <1>3, <2>1 DEF Lines
  <2> QED BY <1>4, <2>1, <2>2
<1>6. CASE UNCHANGED disk
  <2>1. file' = file /\ buffer' = buffer /\ torn' = torn
      BY <1>6 DEF disk
  <2>2. Lines' = Lines
      BY <2>1 DEF Lines
  <2>3. Grows
    <3>1. <<>> \in Seq(Line) /\ file \o <<>> = file
        BY <1>1
    <3> QED BY <2>1, <3>1 DEF Grows
  <2> QED BY <1>1, <1>4, <2>1, <2>2, <2>3 DEF SinkInv
<1> QED BY <1>4, <1>5, <1>6

LEMMA EmitEvent ==
    ASSUME LinesInv, NEW kind \in EventKinds, NEW call \in 0..calls, NEW returned, NEW raised,
           Emit(kind, call, returned, raised)
    PROVE  \E e \in Line :
              /\ e.kind = kind /\ e.call = call /\ e.id = ids + 1 /\ e.n = number + 1
              /\ number' = number + 1 /\ ids' = ids + 1
              /\ (Written(e) /\ pc' = returned) \/ (Unwritten(e) /\ pc' = raised)
<1>1. PICK e \in {Event(kind, call)} :
          /\ number' = number + 1 /\ ids' = ids + 1
          /\ (Written(e) /\ pc' = returned) \/ (Unwritten(e) /\ pc' = raised)
    BY DEF Emit
<1>2. e \in Line /\ e.kind = kind /\ e.call = call /\ e.id = ids + 1 /\ e.n = number + 1
    BY EventLine
<1> QED BY <1>1, <1>2

\* One event, whether it is written or not, leaves the lines sound, and the
\* file and the view with what they had.
LEMMA EmitKeeps ==
    ASSUME TraceInv, InTurn, pc # "down", NEW kind \in EventKinds, NEW call \in 0..calls,
           NEW returned, NEW raised, returned # "down", raised # "down",
           Emit(kind, call, returned, raised), calls' = calls,
           kind = "response" => ~Has(Lines, call)
    PROVE  /\ LinesInv' /\ ViewInv'
           /\ torn' => buffer' # <<>>
           /\ ~failed' => buffer' = <<>>
           /\ Once(Lines)'
           /\ \A c : (Has(file, c) => Has(file', c)) /\ (Has(view, c) => Has(view', c))
           /\ kind # "response" => \A c : ~Has(Lines, c) => ~Has(Lines', c)
           /\ \/ pc' = returned /\ (kind = "response" => Has(file', call) /\ Has(view', call))
              \/ pc' = raised
<1>1. PICK e \in Line :
        /\ e.kind = kind /\ e.call = call /\ e.id = ids + 1 /\ e.n = number + 1
        /\ number' = number + 1 /\ ids' = ids + 1
        /\ (Written(e) /\ pc' = returned) \/ (Unwritten(e) /\ pc' = raised)
    BY EmitEvent DEF TraceInv
<1>2. /\ file' \in Seq(Line) /\ buffer' \in Seq(Line) /\ (torn' => buffer' # <<>>)
      /\ Lines' \in {Lines, Lines \o <<e>>}
      /\ Grows
      /\ failed' \/ (failed' = failed /\ buffer' = <<>>)
      /\ (view' = view) \/ (view' = view \o <<e>> /\ \E p \in DOMAIN file' : file'[p] = e)
      /\ ~failed' => view' = view \o <<e>> /\ (buffer = <<>> => file' = file \o <<e>>)
      /\ pc' # "down"
  <2>1. CASE Written(e) /\ pc' = returned
    <3>1. <<>> \in Seq(Line)
        OBVIOUS
    <3> QED BY <1>1, <2>1, <3>1, WrittenFacts DEF TraceInv
  <2>2. CASE Unwritten(e) /\ pc' = raised
      BY <1>1, <2>2, UnwrittenFacts DEF TraceInv
  <2> QED BY <1>1, <2>1, <2>2
<1>3. /\ file \in Seq(Line) /\ buffer \in Seq(Line) /\ view \in Seq(Line)
      /\ Lines \in Seq(Line) /\ <<e>> \in Seq(Line) /\ Lines' \in Seq(Line)
      /\ number \in Int /\ ids \in Int /\ 0 <= number /\ number <= ids
  <2>1. file \in Seq(Line) /\ buffer \in Seq(Line) /\ view \in Seq(Line) /\ <<e>> \in Seq(Line)
      BY DEF TraceInv, LinesInv, ViewInv
  <2>2. Lines \in Seq(Line) /\ Lines' \in Seq(Line)
      BY <1>2, <2>1, JoinFacts DEF Lines
  <2> QED BY <2>1, <2>2 DEF TraceInv, LinesInv
<1>4. /\ \A i \in DOMAIN Lines : /\ Lines[i].id \in 1..ids /\ Lines[i].n \in 1..ids /\ Lines[i].call \in 0..calls
                                 /\ Lines[i].n <= number
      /\ Ordered(Lines) /\ Once(Lines)
    BY DEF TraceInv, LinesInv, ReplyInv
<1>5. /\ \A i \in DOMAIN (Lines \o <<e>>) :
            LET l == (Lines \o <<e>>)[i]
            IN  l.id \in 1..(ids + 1) /\ l.n \in 1..(ids + 1) /\ l.call \in 0..calls /\ l.n <= number + 1
      /\ Ordered(Lines \o <<e>>)
      /\ Once(Lines \o <<e>>)
  <2>1. \A i \in DOMAIN (Lines \o <<e>>) :
            (\E k \in DOMAIN Lines : (Lines \o <<e>>)[i] = Lines[k]) \/ (Lines \o <<e>>)[i] = e
    <3>1. TAKE i \in DOMAIN (Lines \o <<e>>)
    <3>2. DOMAIN <<e>> = {1} /\ <<e>>[1] = e
        OBVIOUS
    <3> QED BY <1>3, <3>2, JoinElements
  <2>2. \A i \in DOMAIN (Lines \o <<e>>) :
            LET l == (Lines \o <<e>>)[i]
            IN  l.id \in 1..(ids + 1) /\ l.n \in 1..(ids + 1) /\ l.call \in 0..calls /\ l.n <= number + 1
    <3>1. TAKE i \in DOMAIN (Lines \o <<e>>)
    <3>2. CASE (Lines \o <<e>>)[i] = e
      <4>1. e.id \in 1..(ids + 1) /\ e.n \in 1..(ids + 1) /\ e.call \in 0..calls /\ e.n <= number + 1
          BY <1>1, <1>3
      <4> QED BY <3>2, <4>1
    <3>3. CASE \E k \in DOMAIN Lines : (Lines \o <<e>>)[i] = Lines[k]
      <4>1. PICK k \in DOMAIN Lines : (Lines \o <<e>>)[i] = Lines[k]
          BY <3>3
      <4>2. /\ Lines[k].id \in 1..(ids + 1) /\ Lines[k].n \in 1..(ids + 1)
            /\ Lines[k].call \in 0..calls /\ Lines[k].n <= number + 1
          BY <1>3, <1>4
      <4> QED BY <4>1, <4>2
    <3> QED BY <2>1, <3>2, <3>3
  <2>3. \A i \in DOMAIN Lines : Lines[i].n < e.n /\ Lines[i].id < e.id
      BY <1>1, <1>3, <1>4
  <2>4. e.kind = "response" => ~Has(Lines, e.call)
      BY <1>1
  <2> QED BY <1>3, <1>4, <2>2, <2>3, <2>4, OrderedAppend, OnceAppend
<1>6. LinesInv'
  <2>1. /\ ids' \in Nat /\ number' \in 0..ids' /\ calls' \in 0..MaxCalls
      BY <1>1, <1>3 DEF TraceInv, LinesInv
  <2>2. \A i \in DOMAIN Lines' : /\ Lines'[i].id \in 1..ids' /\ Lines'[i].n \in 1..ids'
                                 /\ Lines'[i].call \in 0..calls' /\ Lines'[i].n <= number'
    <3>1. CASE Lines' = Lines
      <4>1. TAKE i \in DOMAIN Lines'
      <4>2. /\ Lines[i].id \in 1..ids /\ Lines[i].n \in 1..ids /\ Lines[i].call \in 0..calls
            /\ Lines[i].n <= number
          BY <1>4, <3>1
      <4> QED BY <1>1, <1>3, <3>1, <4>2
    <3>2. CASE Lines' = Lines \o <<e>>
        BY <1>1, <1>5, <3>2
    <3> QED BY <1>2, <3>1, <3>2
  <2>3. Ordered(Lines')
      BY <1>2, <1>4, <1>5
  <2> QED BY <1>2, <2>1, <2>2, <2>3 DEF LinesInv
<1>7. Once(Lines')
    BY <1>2, <1>4, <1>5
<1>8. \A p \in DOMAIN file : p \in DOMAIN file' /\ file'[p] = file[p]
  <2>1. PICK s \in Seq(Line) : file' = file \o s
      BY <1>2 DEF Grows
  <2> QED BY <1>3, <2>1, JoinFacts
<1>9. ASSUME NEW c PROVE (Has(file, c) => Has(file', c)) /\ (Has(view, c) => Has(view', c))
  <2>1. PICK s \in Seq(Line) : file' = file \o s
      BY <1>2 DEF Grows
  <2>2. Has(file, c) => Has(file', c)
      BY <1>3, <2>1, HasJoin
  <2>3. CASE view' = view
      BY <2>2, <2>3
  <2>4. CASE view' = view \o <<e>>
      BY <1>3, <2>2, <2>4, HasJoin
  <2> QED BY <1>2, <2>3, <2>4
<1>10. ViewInv'
  <2>1. CASE view' = view
    <3>1. \A i \in DOMAIN view' : \E p \in DOMAIN file' : view'[i] = file'[p]
        BY <1>8, <2>1 DEF TraceInv, ViewInv
    <3>2. failed'
      <4>1. view # view \o <<e>>
          BY <1>3, JoinFacts
      <4> QED BY <1>2, <2>1, <4>1
    <3> QED BY <1>2, <2>1, <3>1, <3>2 DEF TraceInv, ViewInv
  <2>2. CASE view' = view \o <<e>> /\ \E p \in DOMAIN file' : file'[p] = e
    <3>1. view' \in Seq(Line)
        BY <1>3, <2>2, JoinFacts
    <3>2. \A i \in DOMAIN view' : \E p \in DOMAIN file' : view'[i] = file'[p]
      <4>1. TAKE i \in DOMAIN view'
      <4>2. DOMAIN <<e>> = {1} /\ <<e>>[1] = e
          OBVIOUS
      <4>3. (\E k \in DOMAIN view : view'[i] = view[k]) \/ view'[i] = e
          BY <1>3, <2>2, <4>2, JoinElements
      <4> QED BY <1>8, <2>2, <4>3 DEF TraceInv, ViewInv
    <3>3. Ordered(view')
      <4>1. \A i \in DOMAIN view : view[i].n < e.n /\ view[i].id < e.id
        <5>1. TAKE i \in DOMAIN view
        <5>2. PICK p \in DOMAIN file : view[i] = file[p]
            BY DEF TraceInv, ViewInv
        <5>3. p \in DOMAIN Lines /\ Lines[p] = file[p]
            BY <1>3, JoinFacts DEF Lines
        <5>4. Lines[p].n <= number /\ Lines[p].n \in Int /\ Lines[p].id \in 1..ids
            BY <1>4, <5>3
        <5> QED BY <1>1, <1>3, <5>2, <5>3, <5>4
      <4> QED BY <1>3, <2>2, <4>1, OrderedAppend DEF TraceInv, ViewInv
    <3>4. ~failed' => view' = file'
      <4>1. ASSUME ~failed' PROVE ~failed /\ buffer = <<>> /\ view = file
          BY <1>2, <4>1 DEF TraceInv, SinkInv, ViewInv
      <4> QED BY <1>2, <2>2, <4>1
    <3> QED BY <1>2, <3>1, <3>2, <3>3, <3>4 DEF ViewInv
  <2> QED BY <1>2, <2>1, <2>2
<1>11. ASSUME kind # "response", NEW c, ~Has(Lines, c) PROVE ~Has(Lines', c)
  <2>1. ~Has(<<e>>, c)
      BY <1>1, <1>11, HasOne DEF Counts
  <2>2. ~Has(Lines \o <<e>>, c)
      BY <1>3, <1>11, <2>1, HasJoin
  <2>3. CASE Lines' = Lines
      BY <1>11, <2>3
  <2>4. CASE Lines' = Lines \o <<e>>
      BY <2>2, <2>4
  <2> QED BY <1>2, <2>3, <2>4
<1>12. \/ pc' = returned /\ (kind = "response" => Has(file', call) /\ Has(view', call))
       \/ pc' = raised
  <2>1. CASE Written(e) /\ pc' = returned /\ kind = "response"
    <3>1. view' = view \o <<e>> /\ \E p \in DOMAIN file' : file'[p] = e
        BY <1>1, <2>1, WrittenFacts DEF TraceInv
    <3>2. Counts(e, call)
        BY <1>1, <2>1 DEF Counts
    <3>3. Has(<<e>>, call)
        BY <3>2, HasOne
    <3> QED BY <1>3, <2>1, <3>1, <3>2, <3>3, HasJoin DEF Has
  <2> QED BY <1>1, <2>1
<1>13. ~failed' => buffer' = <<>>
    BY <1>2
<1> QED BY <1>2, <1>6, <1>7, <1>9, <1>10, <1>11, <1>12, <1>13

-----------------------------------------------------------------------------
(* The steps.                                                              *)

\* The highest number of a file whose numbers increase.
LEMMA LastNumberFacts ==
    ASSUME LinesInv
    PROVE  LastNumber \in 0..ids /\ \A i \in DOMAIN file : file[i].n <= LastNumber
<1>1. /\ file \in Seq(Line) /\ ids \in Nat /\ Ordered(file)
      /\ \A i \in DOMAIN file : file[i].n \in 1..ids
  <2>1. file \in Seq(Line) /\ buffer \in Seq(Line) /\ Ordered(file \o buffer)
      BY DEF LinesInv, Lines
  <2>2. \A i \in DOMAIN file : i \in DOMAIN Lines /\ Lines[i] = file[i]
      BY <2>1, JoinFacts DEF Lines
  <2> QED BY <2>1, <2>2, OrderedPrefix DEF LinesInv
<1> DEFINE S == {0} \cup {e.n : e \in ToSet(file)}
<1>2. \A i \in DOMAIN file : file[i].n \in S
    BY DEF ToSet
<1>3. \A x \in S : x = 0 \/ \E i \in DOMAIN file : x = file[i].n
    BY DEF ToSet
<1>4. \A x \in S : x \in 0..ids
  <2>1. TAKE x \in S
  <2>2. CASE x = 0
      BY <1>1, <2>2
  <2>3. CASE \E i \in DOMAIN file : x = file[i].n
      BY <1>1, <2>3
  <2> QED BY <1>3, <2>2, <2>3
<1>5. \E x \in S : \A y \in S : x >= y
  <2>1. CASE file = <<>>
      BY <1>3, <2>1
  <2>2. CASE file # <<>>
    <3>1. Len(file) \in DOMAIN file /\ \A i \in DOMAIN file : i = Len(file) \/ i < Len(file)
        BY <1>1, <2>2
    <3>2. \A i \in DOMAIN file : file[i].n \in Int /\ 0 <= file[i].n /\ file[i].n <= file[Len(file)].n
        BY <1>1, <3>1 DEF Ordered
    <3>3. \A y \in S : file[Len(file)].n >= y
        BY <1>3, <3>1, <3>2
    <3>4. file[Len(file)].n \in S
        BY <1>2, <3>1
    <3> QED BY <3>3, <3>4
  <2> QED BY <2>1, <2>2
<1>6. LastNumber \in S /\ \A y \in S : LastNumber >= y
  <2> HIDE DEF S
  <2>1. Max(S) \in S /\ \A y \in S : Max(S) >= y
      BY <1>5 DEF Max
  <2>2. LastNumber = Max(S)
      BY DEF LastNumber, S
  <2> QED BY <2>1, <2>2
<1>7. \A i \in DOMAIN file : file[i].n <= LastNumber
  <2>1. TAKE i \in DOMAIN file
  <2>2. LastNumber >= file[i].n /\ LastNumber \in Int /\ file[i].n \in Int
      BY <1>1, <1>2, <1>4, <1>6
  <2> QED BY <2>2
<1> QED BY <1>4, <1>6, <1>7

\* An event of no response that leads to no new place of the response.
LEMMA PlainEvent ==
    ASSUME TraceInv, InTurn, NEW kind \in EventKinds, kind # "response", NEW call \in 0..calls,
           NEW returned, NEW raised, Emit(kind, call, returned, raised),
           {returned, raised} \cap {"down", "idle"} = {},
           UNCHANGED <<calls, reply, point>>,
           Holding' => Holding, pc' = "accounting" => pc = "accounting"
    PROVE  TraceInv'
<1>1. pc # "down" /\ returned # "down" /\ raised # "down" /\ calls' = calls
    BY DEF InTurn
<1>2. /\ LinesInv' /\ ViewInv' /\ (torn' => buffer' # <<>>) /\ (~failed' => buffer' = <<>>)
      /\ Once(Lines)'
      /\ \A c : (Has(file, c) => Has(file', c)) /\ (Has(view, c) => Has(view', c))
      /\ \A c : ~Has(Lines, c) => ~Has(Lines', c)
      /\ pc' = returned \/ pc' = raised
    BY <1>1, EmitKeeps
<1>3. InTurn'
    BY <1>2 DEF InTurn
<1>4. SinkInv'
    BY <1>2, <1>3 DEF SinkInv
<1>5. Has(file, reply) => Has(file', reply')
    BY <1>2
<1>6. Has(view, reply) => Has(view', reply')
    BY <1>2
<1>7. ~Has(Lines, reply) => ~Has(Lines', reply')
    BY <1>2
<1>8. Has(file, point.reply) => Has(file', point'.reply)
    BY <1>2
<1>9. /\ reply' \in 0..calls' /\ point'.reply \in 0..calls'
      /\ pc' = "accounting" => reply' = calls' /\ ~Has(Lines', reply')
      /\ point'.at \in {"after_model", "before_finalize"} => Has(file', point'.reply)
      /\ Holding' => Has(file', reply') /\ Has(view', reply')
    BY <1>5, <1>6, <1>7, <1>8 DEF TraceInv, ReplyInv
<1>10. ReplyInv'
    BY <1>2, <1>9 DEF ReplyInv
<1> QED BY <1>2, <1>4, <1>10 DEF TraceInv

\* What a step leaves of the invariant that touches neither disk nor view.
LEMMA DiskKept ==
    ASSUME TraceInv, UNCHANGED <<disk, view, ids, failed>>, InTurn', pc # "down",
           torn => buffer # <<>>,
           calls' \in 0..MaxCalls, calls <= calls',
           number' \in 0..ids, \A i \in DOMAIN Lines : Lines[i].n <= number'
    PROVE  LinesInv' /\ SinkInv' /\ ViewInv' /\ Lines' = Lines /\ Once(Lines)'
<1>1. file' = file /\ buffer' = buffer /\ torn' = torn /\ view' = view /\ ids' = ids /\ failed' = failed
    BY DEF disk
<1>2. Lines' = Lines
    BY <1>1 DEF Lines
<1>3. \A i \in DOMAIN Lines : Lines[i].call \in 0..calls'
  <2>1. TAKE i \in DOMAIN Lines
  <2>2. Lines[i].call \in 0..calls /\ calls \in Int /\ calls' \in Int
      BY DEF TraceInv, LinesInv
  <2> QED BY <2>2
<1>4. LinesInv'
    BY <1>1, <1>2, <1>3 DEF TraceInv, LinesInv
<1>5. SinkInv' /\ ViewInv'
    BY <1>1 DEF TraceInv, SinkInv, ViewInv, InTurn
<1>6. Once(Lines)'
    BY <1>2 DEF TraceInv, ReplyInv
<1> QED BY <1>2, <1>4, <1>5, <1>6

\* A step inside a turn that emits nothing.
LEMMA QuietStep ==
    ASSUME TraceInv, InTurn, InTurn', UNCHANGED <<disk, number, view, ids, failed>>,
           calls' \in 0..MaxCalls, calls <= calls',
           reply' \in 0..calls', point'.reply \in 0..calls',
           pc' = "accounting" => reply' = calls' /\ ~Has(Lines, reply'),
           point'.at \in {"after_model", "before_finalize"} => Has(file, point'.reply),
           Holding' => Has(file, reply') /\ Has(view, reply')
    PROVE  TraceInv'
<1>1. /\ pc # "down" /\ (torn => buffer # <<>>)
      /\ number' \in 0..ids /\ \A i \in DOMAIN Lines : Lines[i].n <= number'
    BY DEF TraceInv, LinesInv, SinkInv, InTurn
<1>2. LinesInv' /\ SinkInv' /\ ViewInv' /\ Lines' = Lines /\ Once(Lines)'
    BY <1>1, DiskKept
<1>3. file' = file /\ view' = view
    BY DEF disk
<1>4. ReplyInv'
    BY <1>2, <1>3 DEF ReplyInv
<1> QED BY <1>2, <1>4 DEF TraceInv

\* The sink of a turn that begins.
LEMMA OpensSink ==
    ASSUME TraceInv, ~InTurn, pc # "down", UNCHANGED <<disk, view, ids, calls, failed>>,
           OpenSink("created")
    PROVE  LinesInv' /\ SinkInv' /\ ViewInv' /\ Lines' = Lines /\ Once(Lines)'
<1>1. pc' = "created" /\ number' = LastNumber
    BY DEF OpenSink
<1>2. buffer = <<>> /\ (torn => buffer # <<>>)
    BY DEF TraceInv, SinkInv
<1>3. Lines = file
    BY <1>2, JoinFacts DEF TraceInv, LinesInv, Lines
<1>4. number' \in 0..ids /\ \A i \in DOMAIN Lines : Lines[i].n <= number'
    BY <1>1, <1>3, LastNumberFacts DEF TraceInv
<1>5. InTurn' /\ calls' \in 0..MaxCalls /\ calls <= calls'
    BY <1>1 DEF InTurn, TraceInv, LinesInv
<1> QED BY <1>2, <1>4, <1>5, DiskKept

\* A response that is accounted for.
LEMMA AccountStep == TraceInv /\ Account => TraceInv'
<1> SUFFICES ASSUME TraceInv, Account PROVE TraceInv'
    OBVIOUS
<1>1. /\ pc = "accounting" /\ Emit("response", reply, "answered", "failing")
      /\ point' = point /\ reply' = reply /\ resuming' = resuming /\ calls' = calls
    BY DEF Account
<1>2. /\ InTurn /\ pc # "down" /\ reply \in 0..calls /\ ~Has(Lines, reply) /\ "response" \in EventKinds
    BY <1>1 DEF InTurn, TraceInv, ReplyInv, EventKinds
<1>3. /\ LinesInv' /\ ViewInv' /\ (torn' => buffer' # <<>>) /\ (~failed' => buffer' = <<>>)
      /\ Once(Lines)'
      /\ \A c : (Has(file, c) => Has(file', c)) /\ (Has(view, c) => Has(view', c))
      /\ (pc' = "answered" /\ Has(file', reply) /\ Has(view', reply)) \/ pc' = "failing"
    BY <1>1, <1>2, EmitKeeps
<1>4. InTurn' /\ pc' # "accounting"
    BY <1>3 DEF InTurn
<1>5. SinkInv'
    BY <1>3, <1>4 DEF SinkInv
<1>6. Has(file, point.reply) => Has(file', point.reply)
    BY <1>3
<1>7. Holding' => Has(file', reply) /\ Has(view', reply)
    BY <1>3 DEF Holding
<1>8. ReplyInv'
    BY <1>1, <1>2, <1>3, <1>4, <1>6, <1>7 DEF TraceInv, ReplyInv
<1> QED BY <1>3, <1>5, <1>8 DEF TraceInv

LEMMA CloseStep == TraceInv /\ Close => TraceInv'
<1> SUFFICES ASSUME TraceInv, Close PROVE TraceInv'
    OBVIOUS
<1>1. /\ pc \in {"closing", "raising"} /\ pc' \in {"idle", "down"}
      /\ buffer' = <<>> /\ view' = IF pc' = "down" THEN <<>> ELSE view
      /\ number' = number /\ point' = point /\ reply' = reply /\ ids' = ids /\ calls' = calls
    BY DEF Close
<1>2. /\ file \in Seq(Line) /\ buffer \in Seq(Line) /\ Lines \in Seq(Line)
      /\ Ordered(Lines) /\ Once(Lines)
      /\ \A i \in DOMAIN Lines : Lines[i].id \in 1..ids /\ Lines[i].n \in 1..ids /\ Lines[i].call \in 0..calls
    BY JoinFacts DEF TraceInv, LinesInv, ReplyInv, Lines
<1>3. \E s, t \in Seq(Line) :
        /\ file' = file \o s /\ file' \o t = Lines
        /\ pc' # "down" => torn' = FALSE /\ failed' = failed /\ file' = Lines
  <2>1. CASE file' = file \o buffer /\ torn' = FALSE /\ failed' = failed
    <3>1. <<>> \in Seq(Line) /\ file' \o <<>> = Lines /\ file' = Lines
        BY <1>2, <2>1 DEF Lines
    <3> QED BY <1>2, <2>1, <3>1
  <2>2. CASE pc' = "down" /\ buffer # <<>> /\ \E k \in 0..(Len(buffer) - 1) : file' = file \o SubSeq(buffer, 1, k)
    <3>1. PICK k \in 0..(Len(buffer) - 1) : file' = file \o SubSeq(buffer, 1, k)
        BY <2>2
    <3> DEFINE s == SubSeq(buffer, 1, k)
               t == SubSeq(buffer, k + 1, Len(buffer))
    <3>2. s \in Seq(Line) /\ t \in Seq(Line) /\ s \o t = buffer
        BY <1>2, SplitFacts
    <3>3. file' = file \o s
        BY <3>1
    <3> HIDE DEF s, t
    <3>4. (file \o s) \o t = file \o (s \o t)
      <4>1. file \in Seq(Line) /\ s \in Seq(Line) /\ t \in Seq(Line)
          BY <1>2, <3>2
      <4> QED BY <4>1, JoinAgain
    <3>5. file' \o t = Lines
        BY <3>2, <3>3, <3>4 DEF Lines
    <3> QED BY <2>2, <3>2, <3>3, <3>5
  <2> QED BY <2>1, <2>2 DEF Close
<1>4. PICK s \in Seq(Line), t \in Seq(Line) :
        /\ file' = file \o s /\ file' \o t = Lines
        /\ pc' # "down" => torn' = FALSE /\ failed' = failed /\ file' = Lines
    BY <1>3
<1>5. file' \in Seq(Line) /\ buffer' \in Seq(Line) /\ Lines' = file'
  <2>1. file' \in Seq(Line)
      BY <1>2, <1>4, JoinFacts
  <2> QED BY <1>1, <2>1, JoinFacts DEF Lines
<1>6. \A i \in DOMAIN file' : i \in DOMAIN Lines /\ Lines[i] = file'[i]
    BY <1>4, <1>5, JoinFacts
<1>7. Ordered(file') /\ Once(file')
    BY <1>2, <1>4, <1>5, OrderedPrefix, OncePrefix
<1>8. ~InTurn' /\ ~Holding' /\ pc' # "accounting"
    BY <1>1 DEF InTurn, Holding
<1>9. LinesInv'
  <2>1. \A i \in DOMAIN Lines' : Lines'[i].id \in 1..ids /\ Lines'[i].n \in 1..ids /\ Lines'[i].call \in 0..calls
      BY <1>2, <1>5, <1>6
  <2> QED BY <1>1, <1>5, <1>7, <1>8, <2>1 DEF TraceInv, LinesInv
<1>10. SinkInv'
    BY <1>1, <1>4, <1>8 DEF SinkInv
<1>11. ViewInv'
  <2>1. CASE pc' = "down"
    <3>1. view' = <<>> /\ view' \in Seq(Line) /\ DOMAIN view' = {}
        BY <1>1, <2>1
    <3> QED BY <2>1, <3>1 DEF ViewInv, Ordered
  <2>2. CASE pc' # "down"
    <3>1. view' = view /\ pc # "down"
        BY <1>1, <2>2
    <3>2. \A i \in DOMAIN view' : \E p \in DOMAIN file' : view'[i] = file'[p]
      <4>1. \A p \in DOMAIN file : p \in DOMAIN file' /\ file'[p] = file[p]
          BY <1>2, <1>4, JoinFacts
      <4> QED BY <3>1, <4>1 DEF TraceInv, ViewInv
    <3>3. ~failed' => view' = file'
      <4>1. ASSUME ~failed' PROVE view = file /\ buffer = <<>>
          BY <1>4, <2>2, <3>1, <4>1 DEF TraceInv, SinkInv, ViewInv
      <4>2. ASSUME ~failed' PROVE file' = file
          BY <1>2, <1>4, <2>2, <4>1, <4>2, JoinFacts DEF Lines
      <4> QED BY <3>1, <4>1, <4>2
    <3> QED BY <2>2, <3>1, <3>2, <3>3 DEF TraceInv, ViewInv
  <2> QED BY <2>1, <2>2
<1>12. ReplyInv'
  <2>1. Has(file, point.reply) => Has(file', point'.reply)
      BY <1>1, <1>2, <1>4, HasJoin
  <2> QED BY <1>1, <1>5, <1>7, <1>8, <2>1 DEF TraceInv, ReplyInv
<1> QED BY <1>9, <1>10, <1>11, <1>12 DEF TraceInv

LEMMA CrashStep == TraceInv /\ Crash => TraceInv'
<1> SUFFICES ASSUME TraceInv, Crash PROVE TraceInv'
    OBVIOUS
<1>1. /\ pc' = "down" /\ buffer' = <<>> /\ view' = <<>>
      /\ file' = file /\ number' = number /\ ids' = ids /\ calls' = calls /\ point' = point /\ reply' = reply
    BY DEF Crash
<1>2. /\ file \in Seq(Line) /\ buffer \in Seq(Line) /\ Ordered(Lines) /\ Once(Lines)
      /\ \A i \in DOMAIN Lines : Lines[i].id \in 1..ids /\ Lines[i].n \in 1..ids /\ Lines[i].call \in 0..calls
    BY DEF TraceInv, LinesInv, ReplyInv
<1>3. <<>> \in Seq(Line) /\ Lines' = file
    BY <1>1, <1>2 DEF Lines
<1>4. Ordered(file) /\ Once(file) /\ \A i \in DOMAIN file : i \in DOMAIN Lines /\ Lines[i] = file[i]
    BY <1>2, JoinFacts, OrderedPrefix, OncePrefix DEF Lines
<1>5. ~InTurn' /\ ~Holding' /\ pc' # "accounting"
    BY <1>1 DEF InTurn, Holding
<1>6. \A i \in DOMAIN Lines' : Lines'[i].id \in 1..ids /\ Lines'[i].n \in 1..ids /\ Lines'[i].call \in 0..calls
    BY <1>2, <1>3, <1>4
<1>7. LinesInv'
    BY <1>1, <1>2, <1>3, <1>4, <1>5, <1>6 DEF TraceInv, LinesInv
<1>8. SinkInv'
    BY <1>1 DEF SinkInv
<1>9. ViewInv'
    BY <1>1, <1>3 DEF ViewInv, Ordered
<1>10. ReplyInv'
    BY <1>1, <1>3, <1>4, <1>5 DEF TraceInv, ReplyInv
<1> QED BY <1>7, <1>8, <1>9, <1>10 DEF TraceInv

\* A process that takes up the thread shows the whole file.
LEMMA ResumeStep == TraceInv /\ Resume => TraceInv'
<1> SUFFICES ASSUME TraceInv, Resume PROVE TraceInv'
    OBVIOUS
<1>1. /\ pc = "down" /\ ~torn /\ view' = file /\ ~failed'
      /\ file' = file /\ torn' = torn /\ buffer' = buffer /\ ids' = ids /\ calls' = calls /\ point' = point
    BY DEF Resume, Readable, disk
<1>2. /\ file \in Seq(Line) /\ buffer = <<>> /\ Lines = file /\ Lines' = Lines
      /\ Ordered(file) /\ Once(file)
  <2>1. file \in Seq(Line) /\ buffer = <<>>
      BY <1>1 DEF TraceInv, LinesInv, SinkInv, InTurn
  <2>2. Lines = file /\ Lines' = Lines
      BY <1>1, <2>1, JoinFacts DEF Lines
  <2> QED BY <2>1, <2>2 DEF TraceInv, LinesInv, ReplyInv
<1>3. /\ pc' \in {"created", "idle"} /\ number' \in 0..ids
      /\ pc' = "created" => \A i \in DOMAIN Lines : Lines[i].n <= number'
      /\ reply' \in 0..calls
      /\ Holding' => Has(file, reply')
  <2>1. CASE point.at \in Lasting
    <3>1. pc' = "created" /\ number' = LastNumber /\ reply' = point.reply /\ resuming' = point.at
        BY <2>1 DEF Resume, OpenSink
    <3>2. Holding' => Has(file, reply')
        BY <3>1 DEF TraceInv, ReplyInv, Holding
    <3> QED BY <1>2, <3>1, <3>2, LastNumberFacts DEF TraceInv, ReplyInv
  <2>2. CASE point.at \notin Lasting
    <3>1. pc' = "idle" /\ number' = number /\ reply' = reply
        BY <2>2 DEF Resume
    <3> QED BY <3>1 DEF TraceInv, LinesInv, ReplyInv, Holding
  <2> QED BY <2>1, <2>2
<1>4. InTurn' => pc' = "created"
    BY <1>3 DEF InTurn
<1>5. LinesInv'
    BY <1>1, <1>2, <1>3, <1>4 DEF TraceInv, LinesInv
<1>6. SinkInv'
    BY <1>1, <1>2 DEF SinkInv
<1>7. ViewInv'
  <2>1. \A i \in DOMAIN file : \E p \in DOMAIN file : file[i] = file[p]
      OBVIOUS
  <2> QED BY <1>1, <1>2, <1>3, <2>1 DEF ViewInv
<1>8. ReplyInv'
    BY <1>1, <1>2, <1>3 DEF TraceInv, ReplyInv
<1> QED BY <1>5, <1>6, <1>7, <1>8 DEF TraceInv

LEMMA StartStep == TraceInv /\ StartTurn => TraceInv'
<1> SUFFICES ASSUME TraceInv, StartTurn PROVE TraceInv'
    OBVIOUS
<1>1. /\ pc = "idle" /\ OpenSink("created") /\ reply' = 0 /\ resuming' = "none" /\ point' = point
      /\ UNCHANGED <<disk, view, ids, calls, failed>> /\ file' = file
    BY DEF StartTurn, disk
<1>2. ~InTurn /\ pc # "down" /\ pc' = "created" /\ calls' = calls /\ calls \in Nat
    BY <1>1 DEF InTurn, OpenSink, TraceInv, LinesInv
<1>3. LinesInv' /\ SinkInv' /\ ViewInv' /\ Lines' = Lines /\ Once(Lines)'
    BY <1>1, <1>2, OpensSink
<1>4. ~Holding' /\ pc' # "accounting" /\ reply' \in 0..calls'
    BY <1>1, <1>2 DEF Holding
<1>5. ReplyInv'
    BY <1>1, <1>2, <1>3, <1>4 DEF TraceInv, ReplyInv
<1> QED BY <1>3, <1>5 DEF TraceInv

LEMMA TraceStep == TraceAssumption /\ TraceInv /\ [TraceNext]_traceVars => TraceInv'
<1> SUFFICES ASSUME TraceAssumption, TraceInv, [TraceNext]_traceVars PROVE TraceInv'
    OBVIOUS
<1>0. calls \in 0..MaxCalls /\ calls \in Nat /\ reply \in 0..calls /\ point.reply \in 0..calls /\ 0 \in 0..calls
    BY DEF TraceAssumption, TraceInv, LinesInv, ReplyInv
<1>1. CASE StartTurn
    BY <1>1, StartStep
<1>2. CASE Created
  <2> DEFINE place == CASE resuming = "before_finalize" -> "recovering"
                        [] resuming = "after_model" -> "reusing"
                        [] OTHER -> "building"
  <2>1. /\ pc = "created" /\ Emit("started", 0, place, "raising") /\ UNCHANGED <<calls, reply, point>>
      BY <1>2 DEF Created
  <2>2. place \in {"recovering", "reusing", "building"} /\ (place = "reusing" => resuming = "after_model")
    <3>1. resuming = "before_finalize" \/ resuming = "after_model" \/ resuming \notin {"before_finalize", "after_model"}
        OBVIOUS
    <3>2. CASE resuming = "before_finalize"
        BY <3>2
    <3>3. CASE resuming = "after_model"
        BY <3>3
    <3>4. CASE resuming \notin {"before_finalize", "after_model"}
        BY <3>4
    <3> QED BY <3>1, <3>2, <3>3, <3>4
  <2> HIDE DEF place
  <2>3. pc' = place \/ pc' = "raising"
      BY <2>1 DEF Emit
  <2>4. (Holding' => Holding) /\ pc' # "accounting" /\ InTurn
      BY <2>1, <2>2, <2>3 DEF Holding, InTurn
  <2>5. {place, "raising"} \cap {"down", "idle"} = {} /\ "started" \in EventKinds
      BY <2>2 DEF EventKinds
  <2> QED BY <1>0, <2>1, <2>4, <2>5, PlainEvent
<1>3. CASE BeforeModel
  <2>1. /\ pc = "building" /\ pc' = "requesting" /\ point' = [at |-> "before_model", reply |-> reply]
        /\ UNCHANGED <<disk, number, view, ids, failed, reply, calls>>
      BY <1>3 DEF BeforeModel, Save
  <2> QED BY <1>0, <2>1, QuietStep DEF InTurn, Holding
<1>4. CASE Request
  <2>1. /\ pc = "requesting" /\ Emit("request", 0, "calling", "failing") /\ UNCHANGED <<calls, reply, point>>
      BY <1>4 DEF Request
  <2>2. pc' \in {"calling", "failing"} /\ "request" \in EventKinds
      BY <2>1 DEF Emit, EventKinds
  <2>3. (Holding' => Holding) /\ pc' # "accounting" /\ InTurn
      BY <2>1, <2>2 DEF Holding, InTurn
  <2> QED BY <1>0, <2>1, <2>2, <2>3, PlainEvent
<1>5. CASE ModelAnswers
  <2>1. /\ pc = "calling" /\ pc' = "accounting" /\ calls < MaxCalls /\ calls' = calls + 1 /\ reply' = calls + 1
        /\ UNCHANGED <<disk, number, view, ids, failed, point>>
      BY <1>5 DEF ModelAnswers
  <2>2. ~Has(Lines, calls + 1)
    <3>1. \A i \in DOMAIN Lines : Lines[i].call \in 0..calls
        BY DEF TraceInv, LinesInv
    <3>2. \A i \in DOMAIN Lines : Lines[i].call # calls + 1
        BY <1>0, <3>1
    <3> QED BY <3>2 DEF Has, Counts
  <2>3. calls' \in 0..MaxCalls /\ calls <= calls' /\ reply' \in 0..calls' /\ point'.reply \in 0..calls'
      BY <1>0, <2>1 DEF TraceAssumption
  <2>4. InTurn /\ InTurn' /\ ~Holding'
      BY <2>1 DEF InTurn, Holding
  <2>5. point'.at \in {"after_model", "before_finalize"} => Has(file, point'.reply)
      BY <2>1 DEF TraceInv, ReplyInv
  <2> QED BY <2>1, <2>2, <2>3, <2>4, <2>5, QuietStep
<1>6. CASE ModelFails
  <2>1. /\ pc = "calling" /\ pc' = "failing" /\ UNCHANGED <<disk, number, view, ids, failed, reply, calls, point>>
      BY <1>6 DEF ModelFails
  <2> QED BY <1>0, <2>1, QuietStep DEF InTurn, Holding, TraceInv, ReplyInv
<1>7. CASE Account
    BY <1>7, AccountStep
<1>8. CASE AfterModel
  <2>1. /\ pc = "answered" /\ pc' = "working" /\ point' = [at |-> "after_model", reply |-> reply]
        /\ UNCHANGED <<disk, number, view, ids, failed, reply, calls>>
      BY <1>8 DEF AfterModel, Save
  <2>2. Has(file, reply) /\ Has(view, reply)
      BY <2>1 DEF TraceInv, ReplyInv, Holding
  <2> QED BY <1>0, <2>1, <2>2, QuietStep DEF InTurn, Holding
<1>9. CASE Reuse
  <2>1. /\ pc = "reusing" /\ Emit("reused", reply, "working", "failing") /\ UNCHANGED <<calls, reply, point>>
      BY <1>9 DEF Reuse
  <2>2. pc' \in {"working", "failing"} /\ "reused" \in EventKinds
      BY <2>1 DEF Emit, EventKinds
  <2>3. (Holding' => Holding) /\ pc' # "accounting" /\ InTurn
      BY <2>1, <2>2 DEF Holding, InTurn
  <2> QED BY <1>0, <2>1, <2>2, <2>3, PlainEvent
<1>10. CASE NextIteration
  <2>1. /\ pc = "working" /\ pc' = "building" /\ UNCHANGED <<disk, number, view, ids, failed, reply, calls, point>>
      BY <1>10 DEF NextIteration
  <2> QED BY <1>0, <2>1, QuietStep DEF InTurn, Holding, TraceInv, ReplyInv
<1>11. CASE Finalizing
  <2>1. /\ pc = "working" /\ Emit("finalizing", 0, "deciding", "failing") /\ UNCHANGED <<calls, reply, point>>
      BY <1>11 DEF Finalizing
  <2>2. pc' \in {"deciding", "failing"} /\ "finalizing" \in EventKinds
      BY <2>1 DEF Emit, EventKinds
  <2>3. (Holding' => Holding) /\ pc' # "accounting" /\ InTurn
      BY <2>1, <2>2 DEF Holding, InTurn
  <2> QED BY <1>0, <2>1, <2>2, <2>3, PlainEvent
<1>12. CASE BeforeFinalize
  <2>1. /\ pc = "deciding" /\ pc' = "completing" /\ point' = [at |-> "before_finalize", reply |-> reply]
        /\ UNCHANGED <<disk, number, view, ids, failed, reply, calls>>
      BY <1>12 DEF BeforeFinalize, Save
  <2>2. Has(file, reply) /\ Has(view, reply)
      BY <2>1 DEF TraceInv, ReplyInv, Holding
  <2> QED BY <1>0, <2>1, <2>2, QuietStep DEF InTurn, Holding
<1>13. CASE Complete
  <2>1. \E kind \in {"completed", "recovered"} :
            Emit(kind, 0, "finishing", "failing") /\ pc \in {"completing", "recovering"}
      BY <1>13 DEF Complete
  <2>2. PICK kind \in {"completed", "recovered"} :
            Emit(kind, 0, "finishing", "failing") /\ pc \in {"completing", "recovering"}
      BY <2>1
  <2>3. pc' \in {"finishing", "failing"} /\ kind \in EventKinds /\ kind # "response"
      BY <2>2 DEF Emit, EventKinds
  <2>4. (Holding' => Holding) /\ pc' # "accounting" /\ InTurn /\ UNCHANGED <<calls, reply, point>>
      BY <1>13, <2>2, <2>3 DEF Holding, InTurn, Complete
  <2> QED BY <1>0, <2>2, <2>3, <2>4, PlainEvent
<1>14. CASE Terminal
  <2>1. /\ pc = "finishing" /\ pc' = "closing" /\ point' = [at |-> "terminal", reply |-> reply]
        /\ UNCHANGED <<disk, number, view, ids, failed, reply, calls>>
      BY <1>14 DEF Terminal, Save
  <2> QED BY <1>0, <2>1, QuietStep DEF InTurn, Holding
<1>15. CASE Fail
  <2>1. /\ pc = "failing" /\ Emit("failed", 0, "finishing", "raising") /\ UNCHANGED <<calls, reply, point>>
      BY <1>15 DEF Fail
  <2>2. pc' \in {"finishing", "raising"} /\ "failed" \in EventKinds
      BY <2>1 DEF Emit, EventKinds
  <2>3. (Holding' => Holding) /\ pc' # "accounting" /\ InTurn
      BY <2>1, <2>2 DEF Holding, InTurn
  <2> QED BY <1>0, <2>1, <2>2, <2>3, PlainEvent
<1>16. CASE Close
    BY <1>16, CloseStep
<1>17. CASE ChildEmits
  <2>1. /\ InTurn /\ Emit("child", 0, pc, pc) /\ UNCHANGED <<calls, reply, point, resuming>>
      BY <1>17 DEF ChildEmits
  <2>2. pc' = pc /\ "child" \in EventKinds /\ {pc, pc} \cap {"down", "idle"} = {}
      BY <2>1 DEF Emit, EventKinds, InTurn
  <2>3. (Holding' => Holding) /\ (pc' = "accounting" => pc = "accounting")
      BY <2>1, <2>2 DEF Holding
  <2> QED BY <1>0, <2>1, <2>2, <2>3, PlainEvent
<1>18. CASE Crash
    BY <1>18, CrashStep
<1>19. CASE Resume
    BY <1>19, ResumeStep
<1>20. CASE UNCHANGED traceVars
  <2>1. /\ UNCHANGED <<file, torn, buffer, number, pc, point, reply, resuming, view, ids, calls, failed>>
      BY <1>20 DEF traceVars, disk, turnVars
  <2>2. InTurn' = InTurn /\ Lines' = Lines /\ Holding' = Holding
      BY <2>1 DEF InTurn, Lines, Holding
  <2> QED BY <2>1, <2>2 DEF TraceInv, LinesInv, SinkInv, ViewInv, ReplyInv
<1> QED BY <1>1, <1>2, <1>3, <1>4, <1>5, <1>6, <1>7, <1>8, <1>9, <1>10, <1>11, <1>12, <1>13,
           <1>14, <1>15, <1>16, <1>17, <1>18, <1>19, <1>20 DEF TraceNext

LEMMA TraceInvariance == TraceSpec => []TraceInv
<1>1. TraceAssumption /\ TraceInit => TraceInv
  <2> SUFFICES ASSUME TraceAssumption, TraceInit PROVE TraceInv
      OBVIOUS
  <2>1. /\ file = <<>> /\ buffer = <<>> /\ view = <<>> /\ Lines = <<>>
        /\ pc = "idle" /\ ~torn /\ ~failed /\ ids = 0 /\ number = 0 /\ calls = 0 /\ reply = 0
        /\ point.reply = 0 /\ point.at = "none"
      BY DEF TraceInit, Lines, NoPoint
  <2>2. <<>> \in Seq(Line) /\ DOMAIN <<>> = {} /\ ~InTurn /\ ~Holding
      BY <2>1 DEF InTurn, Holding
  <2>3. LinesInv
      BY <2>1, <2>2 DEF LinesInv, Ordered, TraceAssumption
  <2>4. SinkInv /\ ViewInv
      BY <2>1, <2>2 DEF SinkInv, ViewInv, Ordered
  <2>5. ReplyInv
      BY <2>1, <2>2 DEF ReplyInv, Once
  <2> QED BY <2>3, <2>4, <2>5 DEF TraceInv
<1> QED BY <1>1, TraceStep, TraceAssumption, PTL DEF TraceSpec

LEMMA OrderedIncreases ==
    ASSUME NEW s, Ordered(s)
    PROVE  Increasing(s)
BY DEF Ordered, Increasing

\* For any number of turns, responses, subagents' events, failed writes and
\* crashes, the numbers of events.jsonl increase, and what is torn or waits
\* belongs to an open sink (JsonlTraceSink, run_existing, read_trace).
THEOREM FileCorrect == TraceSpec => []FileSound
<1>1. TraceInv => FileSound
  <2> SUFFICES ASSUME TraceInv PROVE FileSound
      OBVIOUS
  <2>1. file \in Seq(Line) /\ buffer \in Seq(Line) /\ Ordered(file)
      BY OrderedPrefix DEF TraceInv, LinesInv, Lines
  <2>2. \A e \in ToSet(file) \cup ToSet(buffer) : \E i \in DOMAIN Lines : e = Lines[i]
    <3>1. TAKE e \in ToSet(file) \cup ToSet(buffer)
    <3>2. CASE e \in ToSet(file)
      <4>1. PICK i \in DOMAIN file : e = file[i]
          BY <3>2 DEF ToSet
      <4>2. i \in DOMAIN Lines /\ Lines[i] = file[i]
          BY <2>1, JoinFacts DEF Lines
      <4> QED BY <4>1, <4>2
    <3>3. CASE e \in ToSet(buffer)
      <4>1. PICK i \in DOMAIN buffer : e = buffer[i]
          BY <3>3 DEF ToSet
      <4>2. Len(file) + i \in DOMAIN Lines /\ Lines[Len(file) + i] = buffer[i]
          BY <2>1, JoinFacts DEF Lines
      <4> QED BY <4>1, <4>2
    <3> QED BY <3>2, <3>3
  <2>3. \A i \in DOMAIN Lines : Lines[i].n \in 1..ids /\ Lines[i].id \in 1..ids /\ Lines[i].call \in 0..MaxCalls
    <3>1. TAKE i \in DOMAIN Lines
    <3>2. Lines[i].call \in 0..calls /\ calls \in 0..MaxCalls /\ MaxCalls \in Nat
        BY TraceAssumption DEF TraceInv, LinesInv, TraceAssumption
    <3>3. Lines[i].call \in 0..MaxCalls
        BY <3>2
    <3> QED BY <3>3 DEF TraceInv, LinesInv
  <2>4. \A e \in ToSet(file) \cup ToSet(buffer) : e.n \in 1..ids /\ e.id \in 1..ids /\ e.call \in 0..MaxCalls
      BY <2>2, <2>3
  <2>5. torn /\ InTurn => buffer # <<>>
      BY DEF TraceInv, SinkInv, InTurn
  <2>6. TraceTypeOK
      BY <2>4, <2>5 DEF TraceTypeOK, TraceInv, SinkInv, ViewInv, ReplyInv
  <2> QED BY <2>1, <2>6, OrderedIncreases DEF FileSound
<1> QED BY <1>1, TraceInvariance, PTL

\* What the command line shows, live or replayed, is in the file, each event
\* once and in the order of the numbers, and it is the whole file as long as no
\* write has failed (RuntimeEventBus.publish, CliObservability.replay).
THEOREM ViewCorrect == TraceSpec => []ViewOfFile
<1>1. TraceInv => ViewOfFile
    BY OrderedIncreases DEF TraceInv, ViewInv, ViewOfFile, ToSet
<1> QED BY <1>1, TraceInvariance, PTL

LEMMA AccountedOnce ==
    ASSUME NEW s \in Seq(Line), Once(s), NEW call
    PROVE  /\ Accounted(s, call) <= 1
           /\ Has(s, call) => Accounted(s, call) = 1
<1> DEFINE at == {i \in DOMAIN s : Counts(s[i], call)}
<1>1. Accounted(s, call) = Cardinality(at)
    BY DEF Accounted, Counts
<1>2. \A i, j \in at : i = j
    BY DEF Once, Counts
<1>3. Has(s, call) => at # {}
    BY DEF Has
<1> HIDE DEF at
<1>4. CASE at = {}
  <2>1. Cardinality({}) = 0
      BY FS_EmptySet
  <2>2. Accounted(s, call) = 0
      BY <1>1, <1>4, <2>1
  <2> QED BY <1>3, <1>4, <2>2
<1>5. CASE at # {}
  <2>1. PICK i \in at : TRUE
      BY <1>5
  <2>2. at = {i}
      BY <1>2, <2>1
  <2>3. Cardinality({i}) = 1
      BY FS_Singleton
  <2>4. Accounted(s, call) = 1
      BY <1>1, <2>2, <2>3
  <2> QED BY <2>4
<1> QED BY <1>4, <1>5

\* The tokens of a response a turn has built on are counted exactly once, in
\* the file and in the view, and of no response twice, however often the turn
\* failed, was resumed or was replayed (AgentLoop.run, CliObservability.replay).
THEOREM CountCorrect == TraceSpec => []CountedOnce
<1>1. TraceInv => CountedOnce
  <2> SUFFICES ASSUME TraceInv PROVE CountedOnce
      OBVIOUS
  <2>1. file \in Seq(Line) /\ buffer \in Seq(Line) /\ view \in Seq(Line) /\ Once(file)
      BY OncePrefix DEF TraceInv, LinesInv, ViewInv, ReplyInv, Lines
  <2>2. Once(view)
    <3>1. SUFFICES ASSUME NEW i \in DOMAIN view, NEW j \in DOMAIN view,
                          view[j].kind = "response", Counts(view[i], view[j].call)
                   PROVE  i = j
        BY DEF Once
    <3>2. PICK p \in DOMAIN file : view[i] = file[p]
        BY DEF TraceInv, ViewInv
    <3>3. PICK q \in DOMAIN file : view[j] = file[q]
        BY DEF TraceInv, ViewInv
    <3>4. p = q
        BY <2>1, <3>1, <3>2, <3>3 DEF Once
    <3>5. view[i] = view[j]
        BY <3>2, <3>3, <3>4
    <3>6. view[i] \in Line /\ i \in Int /\ j \in Int
        BY <2>1
    <3>7. view[i].id \in Nat
        BY <3>6 DEF Line
    <3>8. \A k, l \in DOMAIN view : k < l => view[k].id < view[l].id
        BY DEF TraceInv, ViewInv, Ordered
    <3> QED BY <3>5, <3>6, <3>7, <3>8
  <2>3. pc \in {"working", "deciding", "completing"} => Has(file, reply) /\ Has(view, reply)
      BY DEF TraceInv, ReplyInv, Holding
  <2> QED BY <2>1, <2>2, <2>3, AccountedOnce DEF CountedOnce
<1> QED BY <1>1, TraceInvariance, PTL

=============================================================================
