------------------------------- MODULE MemoryStore -------------------------------
(***************************************************************************)
(* Long-term memories in one SQLite file that several processes open at    *)
(* once: runs that retrieve memories for every model request, and the      *)
(* command line that adds, searches, invalidates and deletes them          *)
(* (memory/store.py, the memory command of cli.py, run_manager.py).        *)
(*                                                                         *)
(* A write is one transaction (BEGIN IMMEDIATE), so it is one step.  A     *)
(* search is not: each SELECT reads the file of its own moment.            *)
(***************************************************************************)
EXTENDS Integers, FiniteSetsExt

CONSTANTS Ids,        \* memory_id values: a uuid is never drawn twice
          Procs,      \* processes with the file open
          Contents,   \* texts a memory may have
          Hash(_),    \* their content hash: case and spaces folded
          Words(_),   \* their tokens, for the full text index
          Queries,    \* queries: the tokens, and the texts LIKE finds
          Keys,       \* [project, thread, agent] of a record; scope follows from them
          Kinds,      \* source kinds
          Items,      \* rollout items that may support a memory
          Secret,     \* texts that look like a credential
          Fts,        \* BOOLEAN: this SQLite has FTS5
          Limit,      \* max_results
          Fits,       \* records render_memories has room for
          Null, Deleted

ASSUME MemoryAssumption ==
    /\ Secret \subseteq Contents /\ Deleted \notin Contents
    /\ Fts \in BOOLEAN /\ Limit \in Nat /\ Fits \in Nat
    /\ "user_explicit" \in Kinds
    /\ \A k \in Keys : [project |-> k.project, thread |-> Null, agent |-> Null] \in Keys

VARIABLES
    rows,       \* memory_records: a function from the ids that have a row
    sources,    \* memory_sources: pairs of an id and an item
    index,      \* memory_fts: pairs of an id and a text
    tombstones, \* memory_tombstones: pairs of an id and a hash
    asked,      \* the search a process is in
    hits,       \* payloads its last SELECT returned
    offered,    \* payloads of the last search that returned, as the caller shows them
    gone        \* history: ids that were not active when the search began

tables == <<rows, sources, index, tombstones>>
reading == <<asked, hits, offered, gone>>
vars == <<tables, reading>>

\* MemoryRecord: the columns a query reads, and the payload it returns.
Row(key, kind, verified, c, items) ==
    [key |-> key, hash |-> Hash(c), content |-> c, invalidated |-> FALSE, deleted |-> FALSE,
     payload |-> [content |-> c, items |-> items, kind |-> kind,
                  status |-> IF kind = "user_explicit" THEN "user_asserted"
                             ELSE IF verified THEN "verified" ELSE "inferred"]]

NotAsked == [step |-> "idle"]

Init ==
    /\ rows = [i \in {} |-> Null]
    /\ sources = {} /\ index = {} /\ tombstones = {}
    /\ asked = [p \in Procs |-> NotAsked]
    /\ hits = [p \in Procs |-> {}]
    /\ offered = [p \in Procs |-> {}]
    /\ gone = [p \in Procs |-> {}]

Stored == DOMAIN rows
Kept(i) == ~rows[i].deleted
Active(i) == Kept(i) /\ ~rows[i].invalidated

-----------------------------------------------------------------------------
(* Writing.                                                                *)

\* Mutant: "=" where the query needs IS, so a NULL column matches nothing.
EqualColumns(a, b) == a = b /\ Null \notin {a.project, a.thread, a.agent}

SameColumns(a, b) == a = b

\* The UNIQUE constraint, which tells two NULLs apart and counts deleted rows.
Unique(key, h) ==
    Null \in {key.project, key.thread, key.agent} \/ \A i \in Stored : rows[i].key # key \/ rows[i].hash # h

\* What write() demands of a record.
Accepts(kind, verified, c, items) ==
    /\ c \notin Secret
    /\ items # {} \/ kind = "user_explicit"
    /\ ~(kind = "mcp_external" /\ verified)

\* A row that is kept already answers the call, invalidated or not.
Write(key, kind, verified, c, items) ==
    /\ Accepts(kind, verified, c, items)
    /\ \A i \in Stored : SameColumns(rows[i].key, key) => rows[i].hash # Hash(c) \/ ~Kept(i)
    /\ Unique(key, Hash(c))
    /\ \E i \in Ids \ Stored :
          /\ rows' = [j \in Stored \cup {i} |->
                         IF j = i THEN Row(key, kind, verified, c, items) ELSE rows[j]]
          /\ sources' = sources \cup ({i} \X items)
          /\ index' = IF Fts THEN index \cup {<<i, c>>} ELSE index
    /\ UNCHANGED <<tombstones, reading>>

\* create_explicit: `memory add`, always in the scope of the project.
AddExplicit(project, c) ==
    Write([project |-> project, thread |-> Null, agent |-> Null], "user_explicit", FALSE, c, {})

Invalidate(i) ==
    /\ i \in Stored /\ Kept(i)
    /\ rows' = [rows EXCEPT ![i].invalidated = TRUE, ![i].payload.status = "stale"]
    /\ UNCHANGED <<sources, index, tombstones, reading>>

\* Mutant: only the column is overwritten, as in an earlier version.
DeleteColumn(i) ==
    /\ i \in Stored /\ Kept(i)
    /\ rows' = [rows EXCEPT ![i].deleted = TRUE, ![i].content = Deleted]
    /\ sources' = {s \in sources : s[1] # i}
    /\ index' = {x \in index : x[1] # i}
    /\ tombstones' = tombstones \cup {<<i, rows[i].hash>>}
    /\ UNCHANGED reading

\* Mutant: the row is removed, as a purge would, and the index forgotten.
DeleteRow(i) ==
    /\ i \in Stored /\ Kept(i)
    /\ rows' = [j \in Stored \ {i} |-> rows[j]]
    /\ sources' = {s \in sources : s[1] # i}
    /\ tombstones' = tombstones \cup {<<i, rows[i].hash>>}
    /\ UNCHANGED <<index, reading>>

Delete(i) ==
    /\ i \in Stored /\ Kept(i)
    /\ rows' = [rows EXCEPT ![i].deleted = TRUE, ![i].content = Deleted,
                            ![i].payload.content = Deleted, ![i].payload.items = {}]
    /\ sources' = {s \in sources : s[1] # i}
    /\ index' = IF Fts THEN {x \in index : x[1] # i} ELSE index
    /\ tombstones' = tombstones \cup {<<i, rows[i].hash>>}
    /\ UNCHANGED reading

-----------------------------------------------------------------------------
(* Reading.                                                                *)

\* The agent clause: none of the command line, which passes no agent.
ForAgent(i, agent) == agent = Null \/ rows[i].key.agent \in {Null, agent}

InScope(i, project, agent) == rows[i].key.project = project /\ ForAgent(i, agent) /\ Active(i)

\* MATCH: a row of the index that shares a token with the query.
Matched(q, project, agent) ==
    {i \in Stored : InScope(i, project, agent) /\ \E x \in index : x[1] = i /\ Words(x[2]) \cap q.tokens # {}}

\* Mutant: the fallback forgets the rows that are no longer active.
AlikeEver(q, project, agent) ==
    {i \in Stored : rows[i].key.project = project /\ ForAgent(i, agent) /\ rows[i].content \in q.within}

\* LIKE on the content column.
Alike(q, project, agent) == {i \in Stored : InScope(i, project, agent) /\ rows[i].content \in q.within}

\* Rank and LIMIT: the order is left open.
Ranked(found) == {s \in SUBSET found : Cardinality(s) = IF Cardinality(found) < Limit THEN Cardinality(found) ELSE Limit}

Payloads(s) == {[id |-> i, payload |-> rows[i].payload] : i \in s}

\* The first SELECT of a search; a run passes its task and its agent.
Search(p, q, project, agent) ==
    /\ asked[p].step = "idle"
    /\ LET full == Fts /\ q.tokens # {} IN
       /\ \E s \in Ranked(IF full THEN Matched(q, project, agent) ELSE Alike(q, project, agent)) :
             /\ hits' = [hits EXCEPT ![p] = Payloads(s)]
             /\ asked' = [asked EXCEPT ![p] =
                   [step |-> IF full /\ s = {} THEN "again" ELSE "found", q |-> q, project |-> project, agent |-> agent]]
    /\ offered' = [offered EXCEPT ![p] = {}]
    /\ gone' = [gone EXCEPT ![p] = {i \in Stored : ~Active(i)}]
    /\ UNCHANGED tables

\* The index found nothing: a second SELECT.
Fallback(p) ==
    /\ asked[p].step = "again"
    /\ \E s \in Ranked(Alike(asked[p].q, asked[p].project, asked[p].agent)) : hits' = [hits EXCEPT ![p] = Payloads(s)]
    /\ asked' = [asked EXCEPT ![p].step = "found"]
    /\ UNCHANGED <<tables, offered, gone>>

\* render_memories: whole rows, in order, until one does not fit.
Rendered(s) == {r \in SUBSET s : Cardinality(r) = IF Cardinality(s) < Fits THEN Cardinality(s) ELSE Fits}

\* The search returns; a run renders what it found into the system message.
Return(p) ==
    /\ asked[p].step = "found"
    /\ \E r \in IF asked[p].agent = Null THEN {hits[p]} ELSE Rendered(hits[p]) : offered' = [offered EXCEPT ![p] = r]
    /\ asked' = [asked EXCEPT ![p] = NotAsked]
    /\ hits' = [hits EXCEPT ![p] = {}]
    /\ UNCHANGED <<tables, gone>>

\* A SELECT, or the INSERT of the retrieval event after them, fails: the search
\* raises.
SearchFails(p) ==
    /\ asked[p].step # "idle"
    /\ asked' = [asked EXCEPT ![p] = NotAsked]
    /\ hits' = [hits EXCEPT ![p] = {}]
    /\ UNCHANGED <<tables, offered, gone>>

\* `memory list`.
List(p, project) ==
    /\ asked[p].step = "idle"
    /\ offered' = [offered EXCEPT ![p] = Payloads({i \in Stored : InScope(i, project, Null)})]
    /\ gone' = [gone EXCEPT ![p] = {i \in Stored : ~Active(i)}]
    /\ UNCHANGED <<tables, asked, hits>>

Projects == {k.project : k \in Keys}
Agents == {k.agent : k \in Keys} \cup {Null}

Next ==
    \/ \E key \in Keys, kind \in Kinds, verified \in BOOLEAN, c \in Contents, items \in SUBSET Items :
          Write(key, kind, verified, c, items)
    \/ \E project \in Projects, c \in Contents : AddExplicit(project, c)
    \/ \E i \in Ids : Invalidate(i) \/ Delete(i)
    \/ \E p \in Procs :
          \/ \E q \in Queries, project \in Projects, agent \in Agents : Search(p, q, project, agent)
          \/ Fallback(p)
          \/ Return(p)
          \/ SearchFails(p)
          \/ \E project \in Projects : List(p, project)

Spec == Init /\ [][Next]_vars

-----------------------------------------------------------------------------
(* Properties.                                                             *)

Statuses == {"user_asserted", "verified", "inferred", "stale"}

\* Every table holds what its columns admit, and the sources and the index
\* name rows that exist.
TypeOK ==
    /\ Stored \subseteq Ids
    /\ \A i \in Stored :
          /\ rows[i].key \in Keys /\ rows[i].invalidated \in BOOLEAN /\ rows[i].deleted \in BOOLEAN
          /\ rows[i].content \in Contents \cup {Deleted} /\ rows[i].payload.content \in Contents \cup {Deleted}
          /\ rows[i].payload.items \subseteq Items /\ rows[i].payload.kind \in Kinds
          /\ rows[i].payload.status \in Statuses
    /\ sources \subseteq Stored \X Items
    /\ index \subseteq Stored \X Contents
    /\ \A p \in Procs : asked[p].step \in {"idle", "again", "found"}

\* One kept record for each text and place, however its spaces and case are
\* written and whoever writes it: the constraint of the table does not say
\* so, since two NULLs are distinct; the SELECT inside the transaction does.
OneKeptRecord ==
    \A i, j \in Stored : Kept(i) /\ Kept(j) /\ rows[i].key = rows[j].key /\ rows[i].hash = rows[j].hash => i = j

\* After a deletion the text and its evidence are in no table, only the hash
\* in the tombstone (store.py:148; test_phase6_recovery_hardening.py:164);
\* and a record that is kept is still backed: the user said so, or its items
\* are in the source table, invalidated or not.
DeletedOrBacked ==
    \A i \in Stored :
        IF Kept(i)
        THEN /\ rows[i].payload.kind = "user_explicit" \/ \E s \in sources : s[1] = i
             /\ {s[2] : s \in {x \in sources : x[1] = i}} = rows[i].payload.items
             /\ Fts => <<i, rows[i].content>> \in index
        ELSE /\ rows[i].content = Deleted /\ rows[i].payload.content = Deleted /\ rows[i].payload.items = {}
             /\ \A x \in sources \cup index : x[1] # i
             /\ <<i, rows[i].hash>> \in tombstones

\* The six copies of every memory agree, through any order of writes,
\* invalidations and deletions.
StoreSound == TypeOK /\ OneKeptRecord /\ DeletedOrBacked

\* What a run or the user is shown was active at some moment of the search,
\* through whichever of the two SELECTs it came: never a text deleted or a
\* memory invalidated before the search began.
OfferedWasActive ==
    \A p \in Procs : \A h \in hits[p] \cup offered[p] :
        h.id \notin gone[p] /\ h.payload.content # Deleted /\ h.payload.status # "stale"
=============================================================================
