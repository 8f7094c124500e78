------------------------ MODULE ThreadContext_proofs ------------------------
(* What a root thread keeps, for any contents, costs, windows, widths of   *)
(* responses and numbers of turns, calls and crashes.                      *)
EXTENDS ThreadContext, FiniteSetTheorems, WellFoundedInduction, TLAPS

\* What a message is about: a content, or the number of a turn or response.
Object == Items \cup Nat

\* The kinds that stand for a content of the user.
Selected == {"steer", "external", "queued", "steered", "injected"}

Msg == {m \in [kind : {"task", "text", "note", "steer", "external", "calls", "result",
                       "queued", "steered", "injected", "terminal"},
               of : Object, part : Nat] : m.kind \in Selected => m.of \in Items}

Point == {"MODEL_IN_FLIGHT", "AFTER_MODEL", "WAITING_APPROVAL",
          "TOOL_IN_FLIGHT", "AFTER_TOOL", "TERMINAL"}

SavedType == [point : Point, turn : 0..MaxTurns, messages : Seq(Msg), summary : Seq(Msg)]
RecordType == [point : {"RECORD"}, source : Seq(Msg), protected : Seq(Msg)]

TypeInv ==
    /\ pc \in {"idle", "starting", "loop", "model", "text", "tool",
               "completed", "failed", "compacting", "down", "resumed", "refused"}
    /\ turn \in 0..MaxTurns
    /\ messages \in Seq(Msg) /\ summary \in Seq(Msg) /\ log \in Seq(Msg)
    /\ todo \subseteq Object \X Nat
    /\ hashes \subseteq Items
    /\ pending \in Seq(Items) /\ mailbox \in Seq(Items)
    /\ meta \in [status : {"IDLE", "ACTIVE", "CLOSED", "RECOVERY_REQUIRED"}, turns : 0..MaxTurns]
    /\ synced \in 0..Len(log)
    /\ saved # None => saved \in SavedType
    /\ record # None => record \in RecordType

\* No content is put on record twice.
Selection == {"queued", "steered"}
SelectedOnce(s) ==
    \A i, j \in DOMAIN s :
        s[i].kind \in Selection /\ s[j].kind \in Selection /\ s[i].of = s[j].of => i = j

WaitInv ==
    /\ IsInjective(pending \o mailbox) /\ ToSet(pending \o mailbox) \subseteq hashes
    /\ pc = "down" => mailbox = <<>>
    /\ SelectedOnce(log)
    /\ Up => Known(log) \subseteq hashes

PcInv ==
    /\ pc = "tool" => todo # {}
    /\ pc \in {"starting", "model", "text"} => todo = {}
    /\ pc = "resumed" => recovered
    /\ pc = "compacting" => ~recovered

SeenInv ==
    ~recovered /\ (pc \in {"model", "text", "tool", "completed", "compacting"} \/ (pc = "loop" /\ todo # {}))
    => Contents(summary) \subseteq seen

HasCalls(msgs, r) == \E j \in DOMAIN msgs : msgs[j].kind = "calls" /\ msgs[j].of = r
Said(msgs) == \E i \in DOMAIN msgs : msgs[i].kind \in {"calls", "text"}
CallsInv ==
    /\ Answers(messages)
    /\ \A c \in todo : HasCalls(messages, c[1])
    /\ saved # None => Answers(saved.messages)
    /\ saved.point \in {"AFTER_MODEL", "WAITING_APPROVAL", "AFTER_TOOL"} => Said(saved.messages)

SettledInv ==
    /\ pc # "refused" => summary = <<>> \/ (record # None /\ summary = record.source)
    /\ record = None /\ saved # None => saved.summary = <<>>
    /\ pc \in {"completed", "compacting"} => saved.point = "TERMINAL" /\ saved.messages = messages
    /\ saved.point = "TERMINAL" =>
         \/ /\ settled = [messages |-> saved.messages, summary |-> saved.summary]
            /\ saved.summary = <<>> \/ (record # None /\ saved.summary = record.source)
         \/ record # None /\ settled = [messages |-> Compacted(saved.messages), summary |-> record.source]

Inv == TypeInv /\ WaitInv /\ PcInv /\ SeenInv /\ CallsInv /\ SettledInv

-----------------------------------------------------------------------------
LEMMA NatMin ==
    ASSUME NEW M, M \subseteq Nat, M # {}
    PROVE  \E m \in M : \A k \in M : m <= k
<1> DEFINE T == {1..n : n \in M}
<1>1. T \subseteq FiniteSubsetsOf(Nat) /\ T # {}
  <2>1. ASSUME NEW n \in M PROVE 1..n \in FiniteSubsetsOf(Nat)
    <3>1. 1 \in Int /\ n \in Int /\ 1..n \subseteq Nat
      OBVIOUS
    <3>2. IsFiniteSet(1..n)
      BY <3>1, FS_Interval
    <3> QED BY <3>1, <3>2 DEF FiniteSubsetsOf
  <2> QED BY <2>1
<1>2. \E x \in T : \A y \in T : ~(<<y, x>> \in StrictSubsetOrdering(Nat))
  <2> HIDE DEF T
  <2> QED BY <1>1, FS_StrictSubsetOrderingWellFounded, WFMin
<1>3. PICK m \in M : \A k \in M : ~(<<1..k, 1..m>> \in StrictSubsetOrdering(Nat))
  BY <1>2
<1>4. ASSUME NEW k \in M PROVE m <= k
  <2>1. SUFFICES ASSUME k < m PROVE FALSE
    BY <1>4
  <2>2. 1..k \subseteq 1..m /\ m \in 1..m /\ m \notin 1..k /\ 1..k \subseteq Nat /\ 1..m \subseteq Nat
    BY <2>1
  <2>3. <<1..k, 1..m>> \in StrictSubsetOrdering(Nat)
    BY <2>2 DEF StrictSubsetOrdering
  <2> QED BY <2>3, <1>3
<1> QED BY <1>4

\* A bounded set of numbers has a largest.
LEMMA NatMax ==
    ASSUME NEW N \in Nat, NEW M, M \subseteq 1..N, M # {}
    PROVE  \E m \in M : \A k \in M : k <= m
<1> DEFINE D == {N - k : k \in M}
<1>1. D \subseteq Nat /\ D # {}
  <2>1. ASSUME NEW k \in M PROVE N - k \in Nat
    OBVIOUS
  <2> QED BY <2>1
<1>2. PICK d \in D : \A e \in D : d <= e
  <2> HIDE DEF D
  <2> QED BY <1>1, NatMin
<1>3. PICK m \in M : d = N - m
  OBVIOUS
<1>4. \A k \in M : k <= m
  <2>1. TAKE k \in M
  <2>2. N - k \in D /\ k \in Int /\ m \in Int
    OBVIOUS
  <2>3. N - m <= N - k
    BY <1>2, <1>3, <2>2
  <2> QED BY <2>2, <2>3
<1> QED BY <1>4

\* Each rank from below is taken by one member.
LEMMA RankBelow ==
    ASSUME NEW N \in Nat, NEW A \in SUBSET (1..N)
    PROVE  /\ IsFiniteSet(A) /\ Cardinality(A) \in 0..N
           /\ \A i \in A : Cardinality({j \in A : j <= i}) \in 1..Cardinality(A)
           /\ \A i, k \in A : i < k =>
                Cardinality({j \in A : j <= i}) < Cardinality({j \in A : j <= k})
           /\ \A n \in 1..Cardinality(A) : \E i \in A : Cardinality({j \in A : j <= i}) = n
<1>0. \A j \in A : j \in Int /\ 1 <= j /\ j <= N
  OBVIOUS
<1>1. IsFiniteSet(A) /\ Cardinality(A) \in 0..N
  <2>1. IsFiniteSet(1..N) /\ Cardinality(1..N) = N
    BY FS_Interval
  <2>2. IsFiniteSet(A) /\ Cardinality(A) <= N
    BY <2>1, FS_Subset
  <2> QED BY <2>2, FS_CardinalityType
<1> DEFINE R(i) == {j \in A : j <= i}
<1>2. \A i \in Int : IsFiniteSet(R(i)) /\ Cardinality(R(i)) \in 0..Cardinality(A)
  <2>1. TAKE i \in Int
  <2>2. R(i) \in SUBSET A
    OBVIOUS
  <2>3. IsFiniteSet(R(i)) /\ Cardinality(R(i)) <= Cardinality(A)
    BY <2>2, <1>1, FS_Subset
  <2> QED BY <2>3, FS_CardinalityType
<1>3. ASSUME NEW i \in Int, NEW k \in A, i < k
      PROVE  Cardinality(R(i)) < Cardinality(R(k))
  <2>0. k \in Int /\ \A j \in A : j <= i => j <= k
    BY <1>3, <1>0
  <2>1. R(i) \in SUBSET R(k) /\ k \in R(k) /\ k \notin R(i) /\ k \in Int
    <3>1. ~(k <= i) /\ k <= k
      BY <2>0, <1>3
    <3> QED BY <2>0, <3>1, Zenon
  <2>2. IsFiniteSet(R(k)) /\ IsFiniteSet(R(i)) /\ Cardinality(R(i)) \in Int /\ Cardinality(R(k)) \in Int
    BY <2>1, <1>2
  <2>3. Cardinality(R(i)) <= Cardinality(R(k)) /\ (Cardinality(R(i)) = Cardinality(R(k)) => R(i) = R(k))
    <3> HIDE DEF R
    <3> QED BY <2>1, <2>2, FS_Subset
  <2>4. Cardinality(R(i)) # Cardinality(R(k))
    <3> HIDE DEF R
    <3> QED BY <2>1, <2>3
  <2> QED
    <3> HIDE DEF R
    <3> QED BY <2>2, <2>3, <2>4
<1>4. R(0) = {} /\ Cardinality(R(0)) = 0
  <2>1. R(0) = {}
    <3>1. \A j \in A : ~(j <= 0)
      BY <1>0
    <3> QED BY <3>1, Zenon
  <2> QED BY <2>1, FS_EmptySet
<1>5. ASSUME NEW n \in 1..Cardinality(A) PROVE \E i \in A : Cardinality(R(i)) = n
  <2> DEFINE M == {k \in 0..N : Cardinality(R(k)) >= n}
  <2>1. R(N) = A /\ N \in 0..N
    <3>1. \A j \in A : j <= N
      BY <1>0
    <3>2. R(N) = A
      BY <3>1, Zenon
    <3> QED BY <3>2
  <2>2. N \in M /\ M \subseteq Nat /\ M # {}
    <3>1. Cardinality(A) >= n
      BY <1>1
    <3>2. Cardinality(R(N)) = Cardinality(A)
      BY <2>1, Zenon
    <3>3. Cardinality(R(N)) >= n
      BY <3>1, <3>2, Zenon
    <3>4. N \in M
      BY <2>1, <3>3, Zenon
    <3>5. M \subseteq Nat
      OBVIOUS
    <3> HIDE DEF M
    <3> QED BY <3>4, <3>5
  <2>3. PICK m \in M : \A k \in M : m <= k
    <3> HIDE DEF M
    <3> QED BY <2>2, NatMin
  <2>4. m \in 1..N /\ Cardinality(R(m)) >= n /\ m - 1 \in 0..N /\ m - 1 \in Int /\ m \in Int
    <3>1. m \in 0..N /\ Cardinality(R(m)) >= n
      OBVIOUS
    <3>2. m # 0
      <4> HIDE DEF R, M
      <4> QED BY <1>4, <3>1
    <3> QED BY <3>1, <3>2
  <2>5. ~(Cardinality(R(m - 1)) >= n)
    <3>1. m - 1 \notin M
      <4> HIDE DEF M
      <4> QED BY <2>3, <2>4
    <3> QED BY <2>4, <3>1
  <2>6. IsFiniteSet(R(m - 1)) /\ Cardinality(R(m - 1)) \in Int /\ Cardinality(R(m)) \in Int
    <3> HIDE DEF R, M
    <3> QED BY <2>4, <1>2
  <2>7. R(m) = R(m - 1) \cup (IF m \in A THEN {m} ELSE {}) /\ m \notin R(m - 1)
    <3> HIDE DEF M
    <3>1. \A j \in A : j <= m <=> (j <= m - 1 \/ j = m)
      BY <2>4, <1>0
    <3>2. ~(m <= m - 1)
      BY <2>4
    <3>3. R(m) = R(m - 1) \cup {j \in A : j = m}
      BY <3>1, Zenon
    <3> QED BY <3>2, <3>3, Zenon
  <2>8. m \in A
    <3>1. SUFFICES ASSUME m \notin A PROVE FALSE
      OBVIOUS
    <3>2. R(m) = R(m - 1)
      BY <2>7, <3>1
    <3> HIDE DEF R
    <3> QED BY <3>2, <2>4, <2>5
  <2>9. R(m) = R(m - 1) \cup {m}
    <3> HIDE DEF R
    <3> QED BY <2>7, <2>8
  <2>10. Cardinality(R(m)) = Cardinality(R(m - 1)) + 1
    <3> HIDE DEF R
    <3> QED BY <2>6, <2>7, <2>9, FS_AddElement
  <2>11. Cardinality(R(m)) = n
    <3> HIDE DEF R
    <3> QED BY <2>4, <2>5, <2>6, <2>10
  <2> QED BY <2>8, <2>11
<1>6. ASSUME NEW i \in A PROVE Cardinality(R(i)) \in 1..Cardinality(A)
  <2>1. 0 \in Int /\ 0 < i /\ i \in Int
    OBVIOUS
  <2>2. Cardinality(R(0)) < Cardinality(R(i))
    <3> HIDE DEF R
    <3> QED BY <2>1, <1>3
  <2> QED
    <3> HIDE DEF R
    <3> QED BY <2>1, <2>2, <1>2, <1>4
<1>7. ASSUME NEW i \in A, NEW k \in A, i < k PROVE Cardinality(R(i)) < Cardinality(R(k))
  <2>1. i \in Int
    OBVIOUS
  <2> HIDE DEF R
  <2> QED BY <2>1, <1>3, <1>7
<1> QED BY <1>1, <1>5, <1>6, <1>7

\* The members of a set of numbers from one on.
Above(A, i) == {j \in A : j >= i}

\* Each rank from above is taken by one member: the mirror image.
LEMMA RankAbove ==
    ASSUME NEW N \in Nat, NEW A \in SUBSET (1..N), NEW n \in 1..Cardinality(A)
    PROVE  \E i \in A : Cardinality(Above(A, i)) = n
<1> DEFINE c == Cardinality(A)
<1>1. IsFiniteSet(A) /\ c \in 0..N /\ n \in 1..c
  BY RankBelow
<1>2. PICK i \in A : Cardinality({j \in A : j <= i}) = c - n + 1
  <2>1. c - n + 1 \in 1..Cardinality(A)
    BY <1>1
  <2> HIDE DEF c
  <2> QED BY <2>1, RankBelow
<1> DEFINE below == {j \in A : j < i}
           above == {j \in A : j >= i}
<1>3. i \in Int /\ \A j \in A : j \in Int
  OBVIOUS
<1>4. {j \in A : j <= i} = below \cup {i} /\ i \notin below /\ IsFiniteSet(below)
  <2>1. \A j \in A : j <= i <=> j < i \/ j = i
    BY <1>3
  <2>2. {j \in A : j <= i} = below \cup {i}
    BY <2>1, Zenon
  <2>3. ~(i < i)
    BY <1>3
  <2>4. below \in SUBSET A
    BY Zenon
  <2>5. IsFiniteSet(below)
    <3> HIDE DEF below
    <3> QED BY <2>4, <1>1, FS_Subset
  <2> QED BY <2>2, <2>3, <2>5, Zenon
<1>5. Cardinality(below) = c - n
  <2>1. Cardinality(below) \in Nat
    BY <1>4, FS_CardinalityType
  <2>2. Cardinality(below) + 1 = c - n + 1
    <3>1. Cardinality(below \cup {i}) = Cardinality(below) + 1
      <4> HIDE DEF below
      <4> QED BY <1>4, FS_AddElement
    <3>2. Cardinality(below \cup {i}) = c - n + 1
      BY <1>2, <1>4, Zenon
    <3> HIDE DEF below, c
    <3> QED BY <3>1, <3>2
  <2> HIDE DEF below, c
  <2> QED BY <2>1, <2>2, <1>1
<1>6. above = A \ below /\ below \subseteq A
  <2>1. \A j \in A : j >= i <=> ~(j < i)
    BY <1>3
  <2> QED BY <2>1, Zenon
<1>7. Cardinality(above) = Cardinality(A) - Cardinality(below)
  <2>1. Cardinality(A \ below) = Cardinality(A) - Cardinality(A \cap below)
    <3> HIDE DEF below
    <3> QED BY <1>1, FS_Difference
  <2>2. A \cap below = below
    BY <1>6
  <2> HIDE DEF below, above
  <2> QED BY <1>6, <2>1, <2>2
<1>8. Cardinality(above) = n
  <2> HIDE DEF below, above
  <2> QED BY <1>1, <1>5, <1>7
<1>9. Above(A, i) = above
  BY DEF Above
<1> QED
  <2> HIDE DEF above
  <2> QED BY <1>8, <1>9

\* The elements kept are those of an increasing sequence of indexes, which
\* are all the indexes of elements of S.
LEMMA KeptFacts ==
    ASSUME NEW T, NEW s \in Seq(T), NEW S
    PROVE  /\ Kept(s, S) \in Seq(T)
           /\ Len(Kept(s, S)) <= Len(s)
           /\ \E p \in [1..Len(Kept(s, S)) -> 1..Len(s)] :
                /\ \A n \in 1..Len(Kept(s, S)) : Kept(s, S)[n] = s[p[n]] /\ s[p[n]] \in S
                /\ \A i \in 1..Len(s) : s[i] \in S => \E n \in 1..Len(Kept(s, S)) : p[n] = i
                /\ \A n, m \in 1..Len(Kept(s, S)) : n < m <=> p[n] < p[m]
<1> DEFINE at == {i \in DOMAIN s : s[i] \in S}
           c == Cardinality(at)
           R(i) == Cardinality({j \in at : j <= i})
           p == [n \in 1..c |-> CHOOSE i \in at : R(i) = n]
<1>1. DOMAIN s = 1..Len(s) /\ Len(s) \in Nat /\ at \in SUBSET (1..Len(s))
  OBVIOUS
<1>2. /\ c \in 0..Len(s)
      /\ \A i \in at : R(i) \in 1..c
      /\ \A i, k \in at : i < k => R(i) < R(k)
      /\ \A n \in 1..c : \E i \in at : R(i) = n
  <2> HIDE DEF at
  <2> QED BY <1>1, RankBelow
<1> HIDE DEF R
<1>3. \A n \in 1..c : p[n] \in at /\ R(p[n]) = n
  <2> HIDE DEF at
  <2> QED BY <1>2
<1>4. Kept(s, S) = [n \in 1..c |-> s[p[n]]]
  <2>1. Kept(s, S) = [n \in 1..c |-> s[CHOOSE i \in at : R(i) = n]]
    BY DEF Kept, R
  <2> HIDE DEF at, c
  <2> QED BY <2>1
<1>5. p \in [1..c -> 1..Len(s)]
  <2> HIDE DEF at, c
  <2> QED BY <1>1, <1>3
<1> HIDE DEF p, c
<1>6. \A n \in 1..c : s[p[n]] \in S /\ s[p[n]] \in T
  <2>1. TAKE n \in 1..c
  <2>2. p[n] \in at /\ p[n] \in 1..Len(s)
    BY <1>3, <1>1
  <2> QED BY <2>2, <1>1
<1>7. Kept(s, S) \in Seq(T) /\ Len(Kept(s, S)) = c
  <2>1. c \in Nat
    BY <1>2, <1>1
  <2> QED BY <1>4, <1>6, <2>1
<1>8. \A i \in 1..Len(s) : s[i] \in S => \E n \in 1..c : p[n] = i
  <2>1. SUFFICES ASSUME NEW i \in 1..Len(s), s[i] \in S PROVE \E n \in 1..c : p[n] = i
    OBVIOUS
  <2>2. i \in at
    BY <2>1, <1>1
  <2>3. R(i) \in 1..c
    BY <2>2, <1>2
  <2>4. p[R(i)] \in at /\ R(p[R(i)]) = R(i)
    BY <2>3, <1>3
  <2>5. i \in Int /\ p[R(i)] \in Int /\ R(i) \in Int
    BY <2>2, <2>4, <1>1, <2>3
  <2>6. p[R(i)] = i
    <3>1. ~(p[R(i)] < i) /\ ~(i < p[R(i)])
      <4> HIDE DEF at
      <4>1. \A x, y \in at : x < y => R(x) < R(y)
        BY <1>2
      <4>2. ~(R(i) < R(i))
        BY <2>5
      <4> QED BY <4>1, <4>2, <2>4, <2>2, Zenon
    <3> HIDE DEF at
    <3> QED BY <3>1, <2>5
  <2> QED BY <2>3, <2>6
<1>9. \A n, m \in 1..c : n < m <=> p[n] < p[m]
  <2>1. SUFFICES ASSUME NEW n \in 1..c, NEW m \in 1..c PROVE n < m <=> p[n] < p[m]
    OBVIOUS
  <2>2. p[n] \in at /\ p[m] \in at /\ R(p[n]) = n /\ R(p[m]) = m
    BY <1>3
  <2>3. p[n] \in Int /\ p[m] \in Int /\ n \in Int /\ m \in Int
    BY <2>2, <1>1, <1>2
  <2>4. (p[n] < p[m] => n < m) /\ (p[m] < p[n] => m < n)
    <3> HIDE DEF at
    <3> QED BY <1>2, <2>2, Zenon
  <2> HIDE DEF at
  <2> QED BY <2>2, <2>3, <2>4
<1>10. c <= Len(s)
  BY <1>2, <1>1
<1>11. /\ \A n \in 1..Len(Kept(s, S)) : Kept(s, S)[n] = s[p[n]] /\ s[p[n]] \in S
       /\ Len(Kept(s, S)) = c
  BY <1>4, <1>6, <1>7
<1> QED BY <1>5, <1>7, <1>8, <1>9, <1>10, <1>11
-----------------------------------------------------------------------------
(* A resume agrees with the end of the turn.                               *)

\* The fields of a checkpoint.
LEMMA CheckpointFields ==
    ASSUME NEW point
    PROVE  /\ Checkpoint(point).point = point
           /\ Checkpoint(point).turn = turn
           /\ Checkpoint(point).messages = messages
           /\ Checkpoint(point).summary = summary
           /\ \A m : /\ [Checkpoint(point) EXCEPT !.messages = m].point = point
                     /\ [Checkpoint(point) EXCEPT !.messages = m].turn = turn
                     /\ [Checkpoint(point) EXCEPT !.messages = m].messages = m
                     /\ [Checkpoint(point) EXCEPT !.messages = m].summary = summary
BY DEF Checkpoint

LEMMA NonePoint == None.point = "NONE"
BY DEF None

LEMMA SettledInit == Init => SettledInv
<1> SUFFICES ASSUME Init PROVE SettledInv
  OBVIOUS
<1>1. pc = "idle" /\ summary = <<>> /\ saved = None /\ record = None
  BY DEF Init
<1>2. saved.point = "NONE"
  BY <1>1, NonePoint
<1> QED BY <1>1, <1>2 DEF SettledInv

LEMMA SettledStep == SettledInv /\ [Next]_vars => SettledInv'
<1> SUFFICES ASSUME SettledInv, [Next]_vars PROVE SettledInv'
  OBVIOUS
<1> USE CheckpointFields, NonePoint
<1>1. ASSUME UNCHANGED <<pc, messages, summary, saved, record, settled>> PROVE SettledInv'
  BY <1>1 DEF SettledInv
<1>2. ASSUME UNCHANGED <<messages, summary, saved, record, settled>>,
             pc' \notin {"completed", "compacting"}, pc # "refused"
      PROVE  SettledInv'
  BY <1>2 DEF SettledInv
<1>3. ASSUME UNCHANGED <<summary, saved, record, settled>>,
             pc' \notin {"completed", "compacting"}, pc # "refused"
      PROVE  SettledInv'
  BY <1>3 DEF SettledInv
<1>4. ASSUME UNCHANGED <<summary, record>>, pc # "refused",
             pc' \notin {"completed", "compacting"},
             saved'.summary = summary, saved'.point # "TERMINAL"
      PROVE  SettledInv'
  BY <1>4 DEF SettledInv
<1>5. CASE Select
  BY <1>5, <1>1 DEF Select, stateVars, dbVars, ghosts
<1>6. CASE StartTurn
  BY <1>6, <1>3 DEF StartTurn, stateVars, dbVars, ghosts
<1>7. CASE Started
  BY <1>7, <1>2 DEF Started, stateVars, dbVars, ghosts
<1>8. CASE Request
  BY <1>8, <1>4 DEF Request, stateVars, dbVars, ghosts
<1>9. CASE ModelCalls
  BY <1>9, <1>4 DEF ModelCalls, stateVars, dbVars, ghosts
<1>10. CASE ModelAnswers
  BY <1>10, <1>4 DEF ModelAnswers, stateVars, dbVars, ghosts
<1>11. CASE Guarded
  BY <1>11, <1>3 DEF Guarded, stateVars, dbVars, ghosts
<1>12. CASE Accepted
  BY <1>12 DEF Accepted, SettledInv, stateVars, dbVars, ghosts
<1>13. CASE BeginTool
  <2>1. PICK point \in {"TOOL_IN_FLIGHT", "WAITING_APPROVAL"} : saved' = Checkpoint(point)
    BY <1>13 DEF BeginTool
  <2> QED BY <1>13, <2>1, <1>4 DEF BeginTool, stateVars, dbVars, ghosts
<1>14. CASE ToolReturns
  <2>1. PICK c \in todo : saved' = [Checkpoint("AFTER_TOOL") EXCEPT !.messages = Append(messages, Result(c))]
    BY <1>14 DEF ToolReturns
  <2> QED BY <1>14, <2>1, <1>4 DEF ToolReturns, stateVars, dbVars, ghosts
<1>15. CASE TurnFails
  <2>1. CASE saved' = Checkpoint("TERMINAL") /\ settled' = [messages |-> messages, summary |-> summary]
    BY <1>15, <2>1 DEF TurnFails, SettledInv
  <2>2. CASE UNCHANGED <<saved, settled>>
    BY <1>15, <2>2, <1>2 DEF TurnFails
  <2> QED BY <1>15, <2>1, <2>2 DEF TurnFails
<1>16. CASE Finalize
  <2>1. CASE pc' = "idle"
    BY <1>16, <2>1, <1>2 DEF Finalize, stateVars, dbVars, ghosts
  <2>2. CASE pc = "completed" /\ pc' = "compacting"
    BY <1>16, <2>2 DEF Finalize, stateVars, dbVars, ghosts, SettledInv
  <2> QED BY <1>16, <2>1, <2>2 DEF Finalize
<1>17. CASE Compact
  <2>1. CASE UNCHANGED <<messages, summary, record, settled>>
    BY <1>17, <2>1, <1>2 DEF Compact
  <2>2. CASE ~UNCHANGED <<messages, summary, record, settled>>
    <3>1. /\ record' = [point |-> "RECORD", source |-> Compactable(Old(messages)),
                        protected |-> Protected(Old(messages))]
          /\ summary' = record'.source
          /\ messages' = Compacted(messages)
          /\ settled' = [messages |-> messages', summary |-> summary']
          /\ pc = "compacting" /\ pc' = "idle" /\ UNCHANGED saved
      BY <1>17, <2>2 DEF Compact
    <3>2. record' # None
      <4>1. record'.point = "RECORD"
        BY <3>1
      <4> QED BY <4>1
    <3>3. saved.point = "TERMINAL" /\ saved.messages = messages
      BY <3>1 DEF SettledInv
    <3>4. Compacted(saved.messages)' = Compacted(messages)
      BY <3>1, <3>3
    <3> QED BY <3>1, <3>2, <3>3, <3>4 DEF SettledInv
  <2> QED BY <2>1, <2>2
<1>18. CASE Ends
  BY <1>18 DEF Ends, dbVars, SettledInv, Up
<1>19. CASE Resume
  <2>1. UNCHANGED <<saved, record, settled>> /\ pc' \notin {"completed", "compacting"}
    BY <1>19 DEF Resume, dbVars, ghosts
  <2>2. \/ summary' = <<>>
        \/ saved # None /\ UpToDate(saved.messages, saved.summary) /\ summary' = saved.summary
        \/ saved # None /\ ~UpToDate(saved.messages, saved.summary) /\ summary' = record.source
        \/ pc' = "refused"
    <3>1. Restorable => saved # None
      BY DEF Restorable
    <3> QED BY <1>19, <3>1 DEF Resume
  <2>3. pc' # "refused" => summary' = <<>> \/ (record # None /\ summary' = record.source)
    BY <2>2 DEF UpToDate, SettledInv
  <2> QED BY <2>1, <2>3 DEF SettledInv
<1>20. CASE Continue
  BY <1>20, <1>3 DEF Continue, stateVars, dbVars, ghosts
<1>22. CASE LimitReached
  <2>1. /\ saved' = [Checkpoint("TERMINAL") EXCEPT !.messages = messages']
        /\ settled' = [messages |-> messages', summary |-> summary]
        /\ UNCHANGED <<summary, record>> /\ pc' = "failed" /\ pc # "refused"
    BY <1>22 DEF LimitReached
  <2>2. saved' = [point |-> "TERMINAL", turn |-> turn, messages |-> messages', summary |-> summary]
    BY <2>1 DEF Checkpoint
  <2>3. saved'.messages = messages' /\ saved'.summary = summary /\ saved'.point = "TERMINAL"
    BY <2>2
  <2>4. saved' # None
    BY <2>3
  <2> QED BY <2>1, <2>3, <2>4 DEF SettledInv
<1>21. CASE UNCHANGED vars
  BY <1>21, <1>1 DEF vars, stateVars, dbVars, ghosts
<1> QED BY <1>5, <1>6, <1>7, <1>8, <1>9, <1>10, <1>11, <1>12, <1>13, <1>14, <1>15, <1>16,
           <1>17, <1>18, <1>19, <1>20, <1>21, <1>22 DEF Next

\* A resume after the end of a turn.
LEMMA AgreesStep ==
    ASSUME SettledInv, Resume, pc' = "idle", saved.point = "TERMINAL", ~SummaryRepeated
    PROVE  \/ messages' = settled.messages /\ summary' = settled.summary
           \/ /\ settled.summary = <<>>
              /\ messages' = Compacted(settled.messages) /\ summary' = Source(settled.messages)
<1>1. saved # None /\ Restorable
  BY NonePoint DEF Restorable
<1>2. CASE UpToDate(saved.messages, saved.summary)
  <2>1. messages' = saved.messages /\ summary' = saved.summary
    BY <1>1, <1>2 DEF Resume
  <2>2. CASE settled = [messages |-> saved.messages, summary |-> saved.summary]
    BY <2>1, <2>2
  <2>3. CASE /\ record # None
             /\ settled = [messages |-> Compacted(saved.messages), summary |-> record.source]
    <3>1. saved.summary = record.source
      BY <1>2, <2>3 DEF UpToDate
    <3>2. saved.messages = settled.messages
      BY <3>1, <2>3 DEF SummaryRepeated
    <3> QED BY <2>1, <2>3, <3>1, <3>2
  <2> QED BY <2>2, <2>3 DEF SettledInv
<1>3. CASE ~UpToDate(saved.messages, saved.summary)
  <2>1. /\ messages' = Compacted(saved.messages) /\ summary' = record.source
        /\ record.source = Source(saved.messages)
    BY <1>1, <1>3 DEF Resume, Applied, Verified
  <2>2. CASE /\ settled = [messages |-> saved.messages, summary |-> saved.summary]
             /\ saved.summary = <<>> \/ (record # None /\ saved.summary = record.source)
    <3>1. saved.summary = <<>>
      BY <1>3, <2>2 DEF UpToDate
    <3> QED BY <2>1, <2>2, <3>1
  <2>3. CASE settled = [messages |-> Compacted(saved.messages), summary |-> record.source]
    BY <2>1, <2>3
  <2> QED BY <2>2, <2>3 DEF SettledInv
<1> QED BY <1>2, <1>3

\* The session goes idle out of "down" by a resume only.
LEMMA IdleByResume ==
    ASSUME [Next]_vars, pc = "down", pc' = "idle"
    PROVE  Resume
BY DEF Next, Select, StartTurn, Started, Request, ModelCalls, ModelAnswers, Guarded, Accepted, BeginTool,
       ToolReturns, LimitReached, TurnFails, Finalize, Compact, Ends, Continue, vars, Up

\* A session resumed after a turn has the messages and the summary the turn
\* left; if it had no summary, perhaps compacted as an old record says.
THEOREM ResumeCorrect == Spec => ResumeAgrees
<1>1. SettledInv /\ [Next]_vars =>
        [pc = "down" /\ pc' = "idle" /\ saved.point = "TERMINAL" /\ ~SummaryRepeated =>
            \/ messages' = settled.messages /\ summary' = settled.summary
            \/ /\ settled.summary = <<>>
               /\ messages' = Compacted(settled.messages) /\ summary' = Source(settled.messages)]_vars
  BY AgreesStep, IdleByResume
<1> QED BY <1>1, SettledInit, SettledStep, PTL DEF Spec, ResumeAgrees

-----------------------------------------------------------------------------
(* Sequences of messages and items.                                        *)

LEMMA ToSetOf ==
    ASSUME NEW T, NEW s \in Seq(T)
    PROVE  /\ ToSet(s) \subseteq T
           /\ \A e : e \in ToSet(s) <=> \E i \in 1..Len(s) : s[i] = e
BY DEF ToSet

LEMMA ToSetConcat ==
    ASSUME NEW T, NEW s \in Seq(T), NEW t \in Seq(T)
    PROVE  s \o t \in Seq(T) /\ ToSet(s \o t) = ToSet(s) \cup ToSet(t)
<1>1. s \o t \in Seq(T) /\ Len(s \o t) = Len(s) + Len(t)
  OBVIOUS
<1>2. ASSUME NEW e, e \in ToSet(s \o t) PROVE e \in ToSet(s) \cup ToSet(t)
  <2>1. PICK i \in 1..Len(s \o t) : (s \o t)[i] = e
    BY <1>1, <1>2, ToSetOf
  <2>2. CASE i <= Len(s)
    <3>1. i \in 1..Len(s) /\ s[i] = e
      BY <2>1, <2>2, <1>1
    <3> QED BY <3>1, ToSetOf
  <2>3. CASE ~(i <= Len(s))
    <3>1. i - Len(s) \in 1..Len(t) /\ t[i - Len(s)] = e
      BY <2>1, <2>3, <1>1
    <3> QED BY <3>1, ToSetOf
  <2> QED BY <2>2, <2>3
<1>3. ASSUME NEW e, e \in ToSet(s) PROVE e \in ToSet(s \o t)
  <2>1. PICK i \in 1..Len(s) : s[i] = e
    BY <1>3, ToSetOf
  <2>2. i \in 1..Len(s \o t) /\ (s \o t)[i] = e
    BY <2>1, <1>1
  <2> QED BY <2>2, <1>1, ToSetOf
<1>4. ASSUME NEW e, e \in ToSet(t) PROVE e \in ToSet(s \o t)
  <2>1. PICK i \in 1..Len(t) : t[i] = e
    BY <1>4, ToSetOf
  <2>2. Len(s) + i \in 1..Len(s \o t) /\ (s \o t)[Len(s) + i] = e
    BY <2>1, <1>1
  <2> QED BY <2>2, <1>1, ToSetOf
<1> QED BY <1>1, <1>2, <1>3, <1>4

LEMMA ToSetAppend ==
    ASSUME NEW T, NEW s \in Seq(T), NEW e \in T
    PROVE  Append(s, e) \in Seq(T) /\ ToSet(Append(s, e)) = ToSet(s) \cup {e}
<1>1. <<e>> \in Seq(T) /\ Append(s, e) = s \o <<e>>
  OBVIOUS
<1>2. ToSet(<<e>>) = {e}
  BY DEF ToSet
<1>3. s \o <<e>> \in Seq(T) /\ ToSet(s \o <<e>>) = ToSet(s) \cup ToSet(<<e>>)
  BY <1>1, ToSetConcat
<1> QED BY <1>1, <1>2, <1>3

LEMMA ToSetKept ==
    ASSUME NEW T, NEW s \in Seq(T), NEW S
    PROVE  Kept(s, S) \in Seq(T) /\ ToSet(Kept(s, S)) = ToSet(s) \cap S
<1> DEFINE k == Kept(s, S)
<1>1. k \in Seq(T)
  BY KeptFacts
<1>2. PICK p \in [1..Len(k) -> 1..Len(s)] :
            /\ \A n \in 1..Len(k) : k[n] = s[p[n]] /\ s[p[n]] \in S
            /\ \A i \in 1..Len(s) : s[i] \in S => \E n \in 1..Len(k) : p[n] = i
  BY KeptFacts
<1> HIDE DEF k
<1>3. ASSUME NEW e, e \in ToSet(k) PROVE e \in ToSet(s) \cap S
  <2>1. PICK n \in 1..Len(k) : k[n] = e
    BY <1>1, <1>3, ToSetOf
  <2>2. p[n] \in 1..Len(s) /\ s[p[n]] = e /\ e \in S
    BY <2>1, <1>2
  <2> QED BY <2>2, ToSetOf
<1>4. ASSUME NEW e, e \in ToSet(s) \cap S PROVE e \in ToSet(k)
  <2>1. PICK i \in 1..Len(s) : s[i] = e
    BY <1>4, ToSetOf
  <2>2. PICK n \in 1..Len(k) : p[n] = i
    BY <2>1, <1>2, <1>4
  <2>3. k[n] = e
    BY <2>1, <2>2, <1>2
  <2> QED BY <2>3, <1>1, ToSetOf
<1>5. k = Kept(s, S)
  BY DEF k
<1> QED BY <1>1, <1>3, <1>4, <1>5

LEMMA SubSeqFacts ==
    ASSUME NEW T, NEW s \in Seq(T), NEW a \in 1..(Len(s) + 1), NEW b \in 0..Len(s)
    PROVE  SubSeq(s, a, b) \in Seq(T) /\ ToSet(SubSeq(s, a, b)) \subseteq ToSet(s)
<1>1. SubSeq(s, a, b) \in Seq(T)
  OBVIOUS
<1>2. ASSUME NEW e, e \in ToSet(SubSeq(s, a, b)) PROVE e \in ToSet(s)
  <2>1. PICK i \in 1..Len(SubSeq(s, a, b)) : SubSeq(s, a, b)[i] = e
    BY <1>1, <1>2, ToSetOf
  <2>2. a + i - 1 \in 1..Len(s) /\ s[a + i - 1] = e
    BY <2>1
  <2> QED BY <2>2, ToSetOf
<1> QED BY <1>1, <1>2

\* The window starts at a message.
LEMMA BoundaryFacts ==
    ASSUME NEW T, NEW s \in Seq(T), NEW n \in Nat, n # 0
    PROVE  Boundary(s, n) \in 0..Len(s)
<1> DEFINE users == UserIndexes(s)
<1>1. users \in SUBSET (1..Len(s)) /\ Len(s) \in Nat
  BY DEF UserIndexes
<1>2. Cardinality(users) \in Nat
  <2> HIDE DEF users
  <2> QED BY <1>1, RankBelow
<1>3. CASE Cardinality(users) <= n
  BY <1>3, <1>1 DEF Boundary
<1>4. CASE ~(Cardinality(users) <= n)
  <2>1. Boundary(s, n) = CHOOSE i \in users : Cardinality(Above(users, i)) = n
    BY <1>4 DEF Boundary, Above
  <2> HIDE DEF users
  <2>2. n \in 1..Cardinality(users)
    BY <1>2, <1>4
  <2>3. \E i \in users : Cardinality(Above(users, i)) = n
    BY <1>1, <2>2, RankAbove
  <2>4. Boundary(s, n) \in users
    BY <2>1, <2>3, Zenon
  <2>5. \A i \in users : i \in 0..Len(s)
    BY <1>1
  <2> QED BY <2>4, <2>5, Zenon
<1> QED BY <1>3, <1>4

\* What is kept apart and what may be compacted are messages, and together
\* they are all of them, but for the marks of the rollout.
LEMMA CompactedFacts ==
    ASSUME NEW s \in Seq(Msg), Boundary(s, Retain) # 0
    PROVE  /\ Old(s) \in Seq(Msg) /\ From(s, Boundary(s, Retain)) \in Seq(Msg)
           /\ Boundary(s, Retain) \in 1..Len(s)
           /\ Protected(Old(s)) \in Seq(Msg) /\ Compactable(Old(s)) \in Seq(Msg)
           /\ Compacted(s) \in Seq(Msg)
           /\ s = Old(s) \o From(s, Boundary(s, Retain))
           /\ ToSet(s) = ToSet(Old(s)) \cup ToSet(From(s, Boundary(s, Retain)))
           /\ ToSet(Compacted(s)) =
                ToSet(Protected(Old(s))) \cup ToSet(From(s, Boundary(s, Retain)))
<1> DEFINE b == Boundary(s, Retain)
<1>1. b \in 1..Len(s)
  <2>1. Retain \in Nat /\ Retain # 0
    BY ContextAssumption DEF ContextAssumption
  <2> QED BY <2>1, BoundaryFacts
<1>2. Old(s) = SubSeq(s, 1, b - 1) /\ From(s, b) = SubSeq(s, b, Len(s))
  BY DEF Old, From
<1> HIDE DEF b
<1>3. Old(s) \in Seq(Msg) /\ From(s, b) \in Seq(Msg)
  BY <1>1, <1>2
<1>4. s = Old(s) \o From(s, b)
  BY <1>1, <1>2
<1>5. Protected(Old(s)) \in Seq(Msg) /\ Compactable(Old(s)) \in Seq(Msg)
  BY <1>3, ToSetKept DEF Protected, Compactable, Of
<1>6. /\ Compacted(s) \in Seq(Msg)
      /\ ToSet(Compacted(s)) = ToSet(Protected(Old(s))) \cup ToSet(From(s, b))
  BY <1>3, <1>5, ToSetConcat DEF Compacted, b
<1>7. ToSet(s) = ToSet(Old(s)) \cup ToSet(From(s, b))
  BY <1>3, <1>4, ToSetConcat
<1> QED BY <1>1, <1>3, <1>4, <1>5, <1>6, <1>7 DEF b

\* The selected contents of some messages after some others.
LEMMA ContentsConcat ==
    ASSUME NEW s \in Seq(Msg), NEW t \in Seq(Msg)
    PROVE  Contents(s \o t) = Contents(s) \cup Contents(t)
<1>1. ToSet(s \o t) = ToSet(s) \cup ToSet(t)
  BY ToSetConcat
<1> QED BY <1>1 DEF Contents

-----------------------------------------------------------------------------
(* The types of what a turn is made of.                                    *)

LEMMA MessageTypes ==
    /\ \A t \in Nat : Task(t) \in Msg /\ Note(t) \in Msg /\ Entry("terminal", t) \in Msg
    /\ \A t, n \in Nat : Text(t, n) \in Msg /\ Calls(t, n) \in Msg
    /\ \A c \in Object \X Nat : Result(c) \in Msg
    /\ \A x \in Items : /\ Steer(x) \in Msg /\ External(x) \in Msg
                        /\ Entry("queued", x) \in Msg /\ Entry("steered", x) \in Msg
                        /\ Entry("injected", x) \in Msg
BY DEF Task, Note, Entry, Text, Calls, Result, Steer, External, Message, Msg, Selected, Object

LEMMA MessageKinds ==
    /\ \A t : Task(t).kind = "task" /\ Note(t).kind = "note" /\ Entry("terminal", t).kind = "terminal"
    /\ \A t, n : /\ Text(t, n).kind = "text"
                 /\ Calls(t, n).kind = "calls" /\ Calls(t, n).of = t
    /\ \A c : Result(c).kind = "result" /\ Result(c).of = c[1]
    /\ \A x : /\ Steer(x).kind = "steer" /\ Steer(x).of = x
              /\ External(x).kind = "external" /\ External(x).of = x
              /\ Entry("queued", x).kind = "queued" /\ Entry("queued", x).of = x
              /\ Entry("steered", x).kind = "steered" /\ Entry("steered", x).of = x
              /\ Entry("injected", x).kind = "injected" /\ Entry("injected", x).of = x
BY DEF Task, Note, Entry, Text, Calls, Result, Steer, External, Message

\* The selection of the first contents that fit is defined for every queue.
LEMMA FittingType ==
    ASSUME pending \in Seq(Items)
    PROVE  Fitting \in Seq(Items)
<1> DEFINE Fit(f, i) ==
                IF i = 0 THEN [items |-> <<>>, bytes |-> 0]
                ELSE IF f[i - 1].bytes + Cost[pending[i]] > TurnBytes THEN f[i - 1]
                ELSE [items |-> Append(f[i - 1].items, pending[i]),
                      bytes |-> f[i - 1].bytes + Cost[pending[i]]]
           Done == [items : Seq(Items), bytes : Nat]
           N == Len(pending)
           Is(n, f) == f \in [0..n -> Done] /\ \A i \in 0..n : f[i] = Fit(f, i)
           M == {n \in 0..N : ~\E f : Is(n, f)}
<1>1. N \in Nat /\ \A i \in 1..N : pending[i] \in Items /\ Cost[pending[i]] \in Nat
  BY ContextAssumption DEF ContextAssumption
<1>2. ASSUME M # {} PROVE FALSE
  <2>1. PICK m \in M : \A k \in M : m <= k
    <3>1. M \subseteq Nat
      OBVIOUS
    <3> HIDE DEF M
    <3> QED BY <1>2, <3>1, NatMin
  <2>2. m \in 0..N /\ ~\E f : Is(m, f)
    BY Zenon
  <2>3. CASE m = 0
    <3> DEFINE f0 == [i \in 0..0 |-> [items |-> <<>>, bytes |-> 0]]
    <3>1. [items |-> <<>>, bytes |-> 0] \in Done
      OBVIOUS
    <3>2. f0 \in [0..0 -> Done] /\ \A i \in 0..0 : i = 0 /\ f0[i] = [items |-> <<>>, bytes |-> 0]
      <4> HIDE DEF Done
      <4> QED BY <3>1
    <3>3. Is(0, f0)
      <4> HIDE DEF f0, Done
      <4> QED BY <3>2
    <3> QED BY <2>2, <2>3, <3>3
  <2>4. CASE m # 0
    <3>1. m - 1 \in 0..N /\ m \in 1..N /\ m - 1 < m
      BY <2>2, <2>4, <1>1
    <3>2. m - 1 \notin M
      <4> HIDE DEF M
      <4> QED BY <2>1, <3>1, <1>1
    <3>3. PICK f : Is(m - 1, f)
      BY <3>1, <3>2, Zenon
    <3> DEFINE v == Fit(f, m)
               g == [i \in 0..m |-> IF i = m THEN v ELSE f[i]]
    <3>4. f \in [0..(m - 1) -> Done] /\ \A i \in 0..(m - 1) : f[i] = Fit(f, i)
      BY <3>3, Zenon
    <3>5. v \in Done
      <4>1. m - 1 \in 0..(m - 1) /\ m # 0
        BY <3>1, <2>4
      <4>2. f[m - 1] \in Done
        <5> HIDE DEF Done, Fit
        <5> QED BY <3>4, <4>1
      <4>3. /\ f[m - 1].items \in Seq(Items) /\ f[m - 1].bytes \in Nat
            /\ pending[m] \in Items /\ Cost[pending[m]] \in Nat
        BY <4>2, <3>1, <1>1
      <4>4. /\ f[m - 1].bytes + Cost[pending[m]] \in Nat
            /\ Append(f[m - 1].items, pending[m]) \in Seq(Items)
        BY <4>3
      <4>5. [items |-> Append(f[m - 1].items, pending[m]),
             bytes |-> f[m - 1].bytes + Cost[pending[m]]] \in Done
        BY <4>4
      <4> HIDE DEF Done
      <4> QED BY <4>1, <4>2, <4>5
    <3>6. \A i \in 0..m : i = m \/ i \in 0..(m - 1)
      BY <3>1, <1>1
    <3>7. g \in [0..m -> Done]
      <4> HIDE DEF Done, Fit, v
      <4> QED BY <3>4, <3>5, <3>6
    <3>8. ASSUME NEW i \in 0..m PROVE g[i] = Fit(g, i)
      <4>1. CASE i = 0
        <5>1. i # m /\ i \in 0..(m - 1)
          BY <4>1, <2>4, <3>6
        <5>2. g[i] = f[i]
          <6> HIDE DEF v
          <6> QED BY <5>1
        <5>3. f[i] = Fit(f, i)
          BY <5>1, <3>4
        <5> HIDE DEF g
        <5> QED BY <4>1, <5>2, <5>3
      <4>2. CASE i # 0
        <5>1. i - 1 \in 0..m /\ i - 1 # m
          BY <4>2, <3>1, <1>1
        <5>2. g[i - 1] = f[i - 1]
          <6> HIDE DEF v, Fit
          <6> QED BY <5>1
        <5>3. Fit(g, i) = Fit(f, i)
          <6> HIDE DEF g
          <6> QED BY <4>2, <5>2
        <5>4. g[i] = Fit(f, i)
          <6>1. CASE i = m
            <7> HIDE DEF Fit
            <7> QED BY <6>1
          <6>2. CASE i # m
            <7>1. i \in 0..(m - 1)
              BY <6>2, <3>6
            <7>2. g[i] = f[i]
              <8> HIDE DEF v, Fit
              <8> QED BY <6>2
            <7> HIDE DEF g, v, Fit
            <7> QED BY <7>1, <7>2, <3>4
          <6> QED BY <6>1, <6>2
        <5> HIDE DEF g, v, Fit
        <5> QED BY <5>3, <5>4
      <4> QED BY <4>1, <4>2
    <3>9. Is(m, g)
      <4> HIDE DEF g, Fit
      <4> QED BY <3>7, <3>8
    <3> HIDE DEF Is
    <3> QED BY <2>2, <3>9
  <2> QED BY <2>3, <2>4
<1>3. PICK f : Is(N, f)
  <2>1. N \in 0..N
    BY <1>1
  <2> HIDE DEF Is
  <2> QED BY <1>2, <2>1
<1>4. f = [i \in 0..N |-> Fit(f, i)]
  <2>1. f \in [0..N -> Done] /\ \A i \in 0..N : f[i] = Fit(f, i)
    BY <1>3, Zenon
  <2> HIDE DEF Fit, Done
  <2> QED BY <2>1
<1> DEFINE fit == CHOOSE h : h = [i \in 0..N |-> Fit(h, i)]
<1>5. fit = [i \in 0..N |-> Fit(fit, i)]
  <2> HIDE DEF Fit, N
  <2> QED BY <1>4
<1>6. Fitting = fit[N].items
  BY DEF Fitting
<1> DEFINE B == {n \in 0..N : fit[n] \notin Done}
<1> HIDE DEF fit
<1>7. ASSUME B # {} PROVE FALSE
  <2>1. PICK m \in B : \A k \in B : m <= k
    <3>1. B \subseteq Nat
      OBVIOUS
    <3> HIDE DEF B
    <3> QED BY <1>7, <3>1, NatMin
  <2>2. m \in 0..N /\ fit[m] \notin Done
    BY Zenon
  <2>3. fit[m] = Fit(fit, m)
    <3> HIDE DEF Fit, N
    <3> QED BY <2>2, <1>5
  <2>4. m # 0
    BY <2>2, <2>3
  <2>5. m - 1 \in 0..N /\ m \in 1..N /\ m - 1 < m
    BY <2>2, <2>4, <1>1
  <2>6. fit[m - 1] \in Done
    <3>1. m - 1 \notin B
      <4> HIDE DEF B
      <4> QED BY <2>1, <2>5, <1>1
    <3> QED BY <2>5, <3>1, Zenon
  <2>7. /\ fit[m - 1].items \in Seq(Items) /\ fit[m - 1].bytes \in Nat
        /\ pending[m] \in Items /\ Cost[pending[m]] \in Nat
    BY <2>5, <2>6, <1>1
  <2>8. [items |-> Append(fit[m - 1].items, pending[m]),
         bytes |-> fit[m - 1].bytes + Cost[pending[m]]] \in Done
    BY <2>7
  <2> HIDE DEF Done
  <2> QED BY <2>2, <2>3, <2>4, <2>6, <2>8
<1>8. fit[N] \in Done
  <2>1. N \in 0..N
    BY <1>1
  <2> HIDE DEF Done
  <2> QED BY <1>7, <2>1
<1> QED BY <1>6, <1>8

LEMMA CheckpointType ==
    ASSUME TypeInv, NEW point \in Point
    PROVE  /\ Checkpoint(point) \in SavedType
           /\ \A m \in Seq(Msg) : [Checkpoint(point) EXCEPT !.messages = m] \in SavedType
<1>1. turn \in 0..MaxTurns /\ messages \in Seq(Msg) /\ summary \in Seq(Msg)
  BY DEF TypeInv
<1>2. \A m : [Checkpoint(point) EXCEPT !.messages = m] =
                [point |-> point, turn |-> turn, messages |-> m, summary |-> summary]
  BY DEF Checkpoint
<1> QED BY <1>1, <1>2 DEF Checkpoint, SavedType

LEMMA DrainedType ==
    ASSUME mailbox \in Seq(Items)
    PROVE  /\ Drained \in Seq(Msg)
           /\ \A e : e \in ToSet(Drained) <=> \E x \in ToSet(mailbox) : e = Steer(x)
           /\ \A i \in DOMAIN Drained : Drained[i].kind = "steer"
<1>1. DOMAIN mailbox = 1..Len(mailbox) /\ Len(mailbox) \in Nat
  OBVIOUS
<1>2. \A i \in 1..Len(mailbox) : mailbox[i] \in Items /\ Steer(mailbox[i]) \in Msg
  BY MessageTypes
<1>3. Drained = [i \in 1..Len(mailbox) |-> Steer(mailbox[i])]
  BY <1>1 DEF Drained
<1>4. Drained \in Seq(Msg) /\ Len(Drained) = Len(mailbox)
  BY <1>1, <1>2, <1>3
<1>5. \A e : e \in ToSet(Drained) <=> \E x \in ToSet(mailbox) : e = Steer(x)
  BY <1>1, <1>3 DEF ToSet
<1>6. \A i \in DOMAIN Drained : Drained[i].kind = "steer"
  BY <1>3, MessageKinds
<1> QED BY <1>4, <1>5, <1>6

\* What a turn starts with besides the task, and the record of it.
LEMMA StartType ==
    ASSUME pending \in Seq(Items)
    PROVE  /\ [i \in DOMAIN Fitting |-> External(Fitting[i])] \in Seq(Msg)
           /\ [i \in DOMAIN Fitting |-> Entry("injected", Fitting[i])] \in Seq(Msg)
           /\ \A n \in DOMAIN [i \in DOMAIN Fitting |-> External(Fitting[i])] :
                [i \in DOMAIN Fitting |-> External(Fitting[i])][n].kind = "external"
           /\ \A n \in DOMAIN [i \in DOMAIN Fitting |-> Entry("injected", Fitting[i])] :
                [i \in DOMAIN Fitting |-> Entry("injected", Fitting[i])][n].kind = "injected"
           /\ \A x \in ToSet(Fitting) :
                Entry("injected", x) \in ToSet([i \in DOMAIN Fitting |-> Entry("injected", Fitting[i])])
<1>1. Fitting \in Seq(Items)
  BY FittingType
<1>2. DOMAIN Fitting = 1..Len(Fitting) /\ Len(Fitting) \in Nat
  BY <1>1
<1>3. \A i \in 1..Len(Fitting) : External(Fitting[i]) \in Msg /\ Entry("injected", Fitting[i]) \in Msg
  BY <1>1, MessageTypes
<1>4. [i \in DOMAIN Fitting |-> External(Fitting[i])] \in Seq(Msg)
  BY <1>2, <1>3
<1>5. [i \in DOMAIN Fitting |-> Entry("injected", Fitting[i])] \in Seq(Msg)
  BY <1>2, <1>3
<1> QED BY <1>4, <1>5, MessageKinds DEF ToSet

LEMMA ClosingType ==
    ASSUME NEW t \in Nat, NEW msgs \in Seq(Msg)
    PROVE  /\ Closing(t, msgs) \in Seq(Msg)
           /\ \A i \in DOMAIN Closing(t, msgs) : Closing(t, msgs)[i].kind \in {"text", "terminal"}
<1> DEFINE own == Kept(msgs, {msg \in ToSet(msgs) : msg.kind # "steer"})
           end == Entry("terminal", t)
<1>1. own \in Seq(Msg)
  BY ToSetKept
<1>2. end \in Msg /\ end.kind = "terminal"
  BY MessageTypes, MessageKinds
<1>3. CASE own # <<>> /\ Last(own).kind = "text"
  <2>1. Last(own) \in Msg
    <3> HIDE DEF own
    <3>1. Len(own) \in 1..Len(own)
      BY <1>1, <1>3
    <3> QED BY <1>1, <3>1 DEF Last
  <2>2. Closing(t, msgs) = <<Last(own)>> \o <<end>>
    BY <1>3 DEF Closing
  <2> HIDE DEF own, end
  <2>3. PICK a \in Msg : a = Last(own)
    BY <2>1
  <2> DEFINE p == <<a>>
             q == <<end>>
  <2>4. p \in Seq(Msg) /\ q \in Seq(Msg)
    BY <1>2
  <2>5. ToSet(p) = {a} /\ ToSet(q) = {end}
    BY DEF ToSet
  <2>6. Closing(t, msgs) = p \o q
    BY <2>2, <2>3, Zenon
  <2> HIDE DEF p, q
  <2>7. Closing(t, msgs) \in Seq(Msg) /\ ToSet(Closing(t, msgs)) = {a, end}
    BY <2>4, <2>5, <2>6, ToSetConcat
  <2> QED BY <1>2, <1>3, <2>3, <2>7 DEF ToSet
<1>4. CASE ~(own # <<>> /\ Last(own).kind = "text")
  <2>1. Closing(t, msgs) = <<>> \o <<end>>
    BY <1>4 DEF Closing
  <2> HIDE DEF own, end
  <2>2. Closing(t, msgs) = <<end>>
    BY <2>1, <1>2
  <2> QED BY <1>2, <2>2
<1> QED BY <1>3, <1>4

\* What a restart restores are contents, no two of them the same, if none was
\* selected twice.
LEMMA RestoreType ==
    ASSUME NEW s \in Seq(Msg)
    PROVE  /\ Objects(ToRestore(s)) \in Seq(Items)
           /\ ToSet(Objects(ToRestore(s))) \subseteq Known(s)
           /\ \A e \in ToSet(s) : e.kind \in {"queued", "steered"} /\ Entry("injected", e.of) \notin ToSet(s)
                => e.of \in ToSet(Objects(ToRestore(s)))
           /\ Known(s) \subseteq Items
<1> DEFINE S == {e \in ToSet(s) :
                   e.kind \in {"queued", "steered"} /\ Entry("injected", e.of) \notin ToSet(s)}
           k == Kept(s, S)
<1>1. k \in Seq(Msg) /\ ToSet(k) = S
  <2>1. S \subseteq ToSet(s)
    OBVIOUS
  <2>2. ToSet(s) \cap S = S
    BY <2>1
  <2> HIDE DEF S
  <2> QED BY <2>2, ToSetKept
<1>2. ToRestore(s) = k
  BY DEF ToRestore
<1> HIDE DEF k
<1>3. \A e \in ToSet(s) : e \in Msg
  BY ToSetOf
<1>4. \A e \in S : e.of \in Items /\ e.of \in Known(s)
  <2>1. \A e \in Msg : e.kind \in {"queued", "steered"} => e.of \in Items
    BY DEF Msg, Selected
  <2> QED BY <1>3, <2>1 DEF Known
<1>5. Objects(k) = [i \in 1..Len(k) |-> k[i].of] /\ Len(k) \in Nat
  BY <1>1 DEF Objects
<1>6. \A i \in 1..Len(k) : k[i] \in S
  <2> HIDE DEF S
  <2> QED BY <1>1, ToSetOf
<1> HIDE DEF S
<1>7. Objects(k) \in Seq(Items) /\ Len(Objects(k)) = Len(k)
  BY <1>4, <1>5, <1>6
<1>8. \A x : x \in ToSet(Objects(k)) <=> \E e \in S : x = e.of
  <2>1. \A x : x \in ToSet(Objects(k)) <=> \E i \in 1..Len(k) : x = k[i].of
    BY <1>5 DEF ToSet
  <2>2. \A e : e \in S <=> \E i \in 1..Len(k) : k[i] = e
    BY <1>1, ToSetOf
  <2> QED BY <2>1, <2>2
<1>9. Known(s) \subseteq Items
  BY <1>3 DEF Known, Msg, Selected
<1> QED BY <1>2, <1>4, <1>7, <1>8, <1>9 DEF S

\* The committed response without its results.
LEMMA UnansweredCalls ==
    ASSUME NEW msgs \in Seq(Msg), Said(msgs)
    PROVE  /\ Unanswered(msgs) \subseteq Object \X Nat
           /\ \A c \in Unanswered(msgs) : HasCalls(msgs, c[1])
<1> DEFINE said == {i \in DOMAIN msgs : msgs[i].kind \in {"calls", "text"}}
           k == CHOOSE i \in said : \A j \in said : j <= i
<1>1. said # {} /\ said \subseteq 1..Len(msgs) /\ Len(msgs) \in Nat
  BY DEF Said
<1>2. k \in said
  <2> HIDE DEF said
  <2>1. \E i \in said : \A j \in said : j <= i
    BY <1>1, NatMax
  <2> QED BY <2>1
<1> HIDE DEF k
<1>3. k \in DOMAIN msgs /\ msgs[k].kind \in {"calls", "text"}
  BY <1>2
<1>4. Unanswered(msgs) =
        IF msgs[k].kind = "text" THEN {}
        ELSE {<<msgs[k].of, i>> : i \in 1..msgs[k].part}
               \ {<<m.of, m.part>> : m \in {n \in ToSet(msgs) : n.kind = "result"}}
  BY DEF Unanswered, k
<1>5. msgs[k] \in Msg
  BY <1>3
<1>6. msgs[k].of \in Object /\ msgs[k].part \in Nat
  BY <1>5 DEF Msg
<1>7. \A c \in Unanswered(msgs) : /\ msgs[k].kind # "text"
                                  /\ \E i \in 1..msgs[k].part : c = <<msgs[k].of, i>>
  BY <1>4
<1>8. ASSUME NEW c \in Unanswered(msgs)
      PROVE  /\ c \in Object \X Nat
             /\ HasCalls(msgs, c[1])
  <2>1. PICK i \in 1..msgs[k].part : c = <<msgs[k].of, i>>
    BY <1>7
  <2>2. c \in Object \X Nat /\ c[1] = msgs[k].of
    BY <2>1, <1>6
  <2>3. msgs[k].kind = "calls"
    BY <1>3, <1>7
  <2> QED BY <1>3, <2>2, <2>3 DEF HasCalls
<1> QED BY <1>8

-----------------------------------------------------------------------------
(* The inductive invariant, one part at a time.                            *)

LEMMA InvInit == Init => Inv
<1> SUFFICES ASSUME Init PROVE Inv
  OBVIOUS
<1>1. /\ pc = "idle" /\ turn = 0 /\ messages = <<>> /\ summary = <<>> /\ todo = {} /\ hashes = {}
      /\ pending = <<>> /\ mailbox = <<>> /\ meta = [status |-> "IDLE", turns |-> 0]
      /\ log = <<>> /\ synced = 0 /\ saved = None /\ record = None /\ seen = {}
  BY DEF Init
<1>2. saved.point = "NONE"
  BY <1>1, NonePoint
<1>3. TypeInv
  BY <1>1, ContextAssumption DEF TypeInv, ContextAssumption
<1>4. WaitInv
  <2>1. pending \o mailbox = <<>>
    BY <1>1
  <2> QED BY <1>1, <2>1 DEF WaitInv, SelectedOnce, IsInjective, ToSet, Known, Up
<1>5. PcInv /\ SeenInv
  BY <1>1 DEF PcInv, SeenInv
<1>6. CallsInv
  BY <1>1, <1>2 DEF CallsInv, Answers
<1> QED BY <1>3, <1>4, <1>5, <1>6, SettledInit DEF Inv

LEMMA PcStep == Inv /\ [Next]_vars => PcInv'
<1> SUFFICES ASSUME PcInv, [Next]_vars PROVE PcInv'
  BY DEF Inv
<1> USE DEF PcInv, stateVars, contextVars, rolloutVars, dbVars, ghosts
<1>1. CASE Select
  BY <1>1 DEF Select
<1>2. CASE StartTurn
  BY <1>2 DEF StartTurn
<1>3. CASE Started
  BY <1>3 DEF Started
<1>4. CASE Request
  BY <1>4 DEF Request
<1>5. CASE ModelCalls
  BY <1>5 DEF ModelCalls
<1>6. CASE ModelAnswers
  BY <1>6 DEF ModelAnswers
<1>7. CASE Guarded
  BY <1>7 DEF Guarded
<1>8. CASE Accepted
  BY <1>8 DEF Accepted
<1>9. CASE BeginTool
  BY <1>9 DEF BeginTool
<1>10. CASE ToolReturns
  BY <1>10 DEF ToolReturns
<1>11. CASE TurnFails
  BY <1>11 DEF TurnFails
<1>12. CASE Finalize
  BY <1>12 DEF Finalize
<1>13. CASE Compact
  BY <1>13 DEF Compact
<1>14. CASE Ends
  BY <1>14 DEF Ends
<1>15. CASE Resume
  <2>1. pc' = "resumed" => Continued
    BY <1>15 DEF Resume
  <2>2. recovered' = Continued /\ pc' \in {"idle", "resumed", "refused"}
    BY <1>15 DEF Resume
  <2> QED BY <2>1, <2>2
<1>16. CASE Continue
  BY <1>16 DEF Continue
<1>18. CASE LimitReached
  BY <1>18 DEF LimitReached
<1>17. CASE UNCHANGED vars
  BY <1>17 DEF vars
<1> QED BY <1>1, <1>2, <1>3, <1>4, <1>5, <1>6, <1>7, <1>8, <1>9, <1>10, <1>11, <1>12, <1>13,
           <1>14, <1>15, <1>16, <1>17, <1>18 DEF Next

LEMMA TypeStep == Inv /\ [Next]_vars => TypeInv'
<1> SUFFICES ASSUME Inv, [Next]_vars PROVE TypeInv'
  OBVIOUS
<1>0. TypeInv
  BY DEF Inv
<1> USE DEF stateVars, contextVars, rolloutVars, dbVars, ghosts
<1>1. CASE Select
  <2>1. PICK x \in Items \ hashes :
          /\ hashes' = hashes \cup {x}
          /\ \/ mailbox' = Append(mailbox, x) /\ pending' = pending
                /\ log' = Append(log, Entry("steered", x))
             \/ pending' = Append(pending, x) /\ mailbox' = mailbox
                /\ log' = Append(log, Entry("queued", x))
    BY <1>1 DEF Select
  <2>2. log' \in Seq(Msg) /\ synced \in 0..Len(log')
    <3>1. PICK e \in Msg : log' = Append(log, e)
      BY <2>1, MessageTypes
    <3> QED BY <1>0, <3>1 DEF TypeInv
  <2>3. pending' \in Seq(Items) /\ mailbox' \in Seq(Items) /\ hashes' \subseteq Items
    <3>1. pending \in Seq(Items) /\ mailbox \in Seq(Items) /\ hashes \subseteq Items /\ x \in Items
      BY <1>0 DEF TypeInv
    <3>2. Append(pending, x) \in Seq(Items) /\ Append(mailbox, x) \in Seq(Items)
      BY <3>1
    <3> QED BY <2>1, <3>1, <3>2
  <2> QED BY <1>0, <1>1, <2>2, <2>3 DEF Select, TypeInv
<1>2. CASE StartTurn
  <2>1. meta.turns \in 0..MaxTurns /\ turn' = meta.turns + 1 /\ meta.turns < MaxTurns /\ MaxTurns \in Nat
    BY <1>0, <1>2, ContextAssumption DEF StartTurn, TypeInv, ContextAssumption
  <2>2. turn' \in 0..MaxTurns /\ Task(turn') \in Msg
    BY <2>1, MessageTypes
  <2>3. /\ [i \in DOMAIN Fitting |-> External(Fitting[i])] \in Seq(Msg)
        /\ [i \in DOMAIN Fitting |-> Entry("injected", Fitting[i])] \in Seq(Msg)
    BY <1>0, StartType DEF TypeInv
  <2>4. PICK a \in Seq(Msg), b \in Seq(Msg) :
          messages' = messages \o <<Task(turn')>> \o a /\ log' = log \o b
    BY <1>2, <2>3 DEF StartTurn
  <2>5. messages' \in Seq(Msg) /\ log' \in Seq(Msg) /\ synced \in 0..Len(log')
    BY <1>0, <2>2, <2>4 DEF TypeInv
  <2>6. pending' \in Seq(Items)
    BY <1>0, <1>2, ToSetKept DEF StartTurn, TypeInv
  <2> QED BY <1>0, <1>2, <2>2, <2>5, <2>6 DEF StartTurn, TypeInv
<1>3. CASE Started
  <2>1. log' = Append(log, Task(turn)) /\ Task(turn) \in Msg
    BY <1>0, <1>3, MessageTypes DEF Started, TypeInv
  <2>2. log' \in Seq(Msg) /\ synced \in 0..Len(log')
    BY <1>0, <2>1 DEF TypeInv
  <2> QED BY <1>0, <1>3, <2>2 DEF Started, TypeInv
<1>4. CASE Request
  <2>1. messages' \in Seq(Msg)
    BY <1>0, <1>4, DrainedType DEF Request, TypeInv
  <2>2. saved' \in SavedType
    BY <1>0, <1>4, <2>1, CheckpointType DEF Request, Point
  <2> QED BY <1>0, <1>4, <2>1, <2>2 DEF Request, TypeInv
<1>5. CASE ModelCalls
  <2>1. PICK n \in Widths, r \in 1..MaxCalls :
          messages' = Append(messages, Calls(r, n)) /\ todo' = {<<r, i>> : i \in 1..n}
    BY <1>5 DEF ModelCalls
  <2>2. n \in Nat /\ r \in Nat
    BY ContextAssumption DEF ContextAssumption
  <2>3. messages' \in Seq(Msg) /\ todo' \subseteq Object \X Nat
    <3>1. Calls(r, n) \in Msg
      BY <2>2, MessageTypes
    <3> QED BY <1>0, <2>1, <2>2, <3>1 DEF TypeInv, Object
  <2>4. saved' \in SavedType
    BY <1>0, <1>5, <2>3, CheckpointType DEF ModelCalls, Point
  <2> QED BY <1>0, <1>5, <2>3, <2>4 DEF ModelCalls, TypeInv
<1>6. CASE ModelAnswers
  <2>1. messages' \in Seq(Msg)
    <3> DEFINE A == {i \in DOMAIN messages : messages[i].kind = "text" /\ messages[i].of = turn}
    <3>1. A \in SUBSET (1..Len(messages)) /\ Len(messages) \in Nat
      BY <1>0 DEF TypeInv
    <3>2. Cardinality(A) \in Nat
      <4> HIDE DEF A
      <4> QED BY <3>1, RankBelow
    <3>3. turn \in Nat
      BY <1>0 DEF TypeInv
    <3>4. messages' = Append(messages, Text(turn, Cardinality(A)))
      BY <1>6 DEF ModelAnswers
    <3> HIDE DEF A
    <3>5. Text(turn, Cardinality(A)) \in Msg
      BY <3>2, <3>3, MessageTypes
    <3> QED BY <1>0, <3>4, <3>5 DEF TypeInv
  <2>2. saved' \in SavedType
    BY <1>0, <1>6, <2>1, CheckpointType DEF ModelAnswers, Point
  <2> QED BY <1>0, <1>6, <2>1, <2>2 DEF ModelAnswers, TypeInv
<1>7. CASE Guarded
  <2>1. messages' \in Seq(Msg)
    <3>1. turn \in Nat
      BY <1>0 DEF TypeInv
    <3>2. Note(turn) \in Msg
      BY <3>1, MessageTypes
    <3> QED BY <1>0, <1>7, <3>2 DEF Guarded, TypeInv
  <2> QED BY <1>0, <1>7, <2>1 DEF Guarded, TypeInv
<1>8. CASE Accepted
  <2>1. saved' \in SavedType
    BY <1>0, <1>8, CheckpointType DEF Accepted, Point
  <2> QED BY <1>0, <1>8, <2>1 DEF Accepted, TypeInv
<1>9. CASE BeginTool
  <2>1. saved' \in SavedType
    BY <1>0, <1>9, CheckpointType DEF BeginTool, Point
  <2> QED BY <1>0, <1>9, <2>1 DEF BeginTool, TypeInv
<1>10. CASE ToolReturns
  <2>1. PICK c \in todo :
          /\ messages' = messages \o <<Result(c)>> \o Drained
          /\ saved' = [Checkpoint("AFTER_TOOL") EXCEPT !.messages = Append(messages, Result(c))]
          /\ todo' = todo \ {c}
    BY <1>10 DEF ToolReturns
  <2>2. Result(c) \in Msg /\ Drained \in Seq(Msg)
    BY <1>0, MessageTypes, DrainedType DEF TypeInv
  <2>3. messages' \in Seq(Msg) /\ Append(messages, Result(c)) \in Seq(Msg)
    BY <1>0, <2>1, <2>2 DEF TypeInv
  <2>4. saved' \in SavedType
    BY <1>0, <2>1, <2>3, CheckpointType DEF Point
  <2> QED BY <1>0, <1>10, <2>1, <2>3, <2>4 DEF ToolReturns, TypeInv
<1>11. CASE TurnFails
  <2>1. saved' \in SavedType \/ saved' = saved
    BY <1>0, <1>11, CheckpointType DEF TurnFails, Point
  <2> QED BY <1>0, <1>11, <2>1 DEF TurnFails, TypeInv
<1>12. CASE Finalize
  <2>1. Closing(turn, messages) \in Seq(Msg)
    BY <1>0, ClosingType DEF TypeInv
  <2>2. log' \in Seq(Msg) /\ synced' \in 0..Len(log')
    BY <1>0, <1>12, <2>1 DEF Finalize, TypeInv
  <2> QED BY <1>0, <1>12, <2>2 DEF Finalize, TypeInv
<1>13. CASE Compact
  <2>1. CASE UNCHANGED <<messages, summary, record, settled>>
    BY <1>0, <1>13, <2>1 DEF Compact, TypeInv
  <2>2. CASE ~UNCHANGED <<messages, summary, record, settled>>
    <3>1. /\ Boundary(messages, Retain) # 0
          /\ record' = [point |-> "RECORD", source |-> Compactable(Old(messages)),
                        protected |-> Protected(Old(messages))]
          /\ summary' = record'.source
          /\ messages' = Compacted(messages)
      BY <1>13, <2>2 DEF Compact
    <3>2. /\ Compacted(messages) \in Seq(Msg)
          /\ Protected(Old(messages)) \in Seq(Msg) /\ Compactable(Old(messages)) \in Seq(Msg)
      BY <1>0, <3>1, CompactedFacts DEF TypeInv
    <3>3. record' \in RecordType /\ summary' \in Seq(Msg)
      BY <3>1, <3>2 DEF RecordType
    <3> QED BY <1>0, <1>13, <3>1, <3>2, <3>3 DEF Compact, TypeInv
  <2> QED BY <2>1, <2>2
<1>14. CASE Ends
  <2>1. log' \in Seq(Msg)
    <3>1. \A k \in synced..Len(log) : SubSeq(log, 1, k) \in Seq(Msg)
      BY <1>0 DEF TypeInv
    <3> QED BY <1>0, <1>14, <3>1 DEF Ends, TypeInv
  <2>2. meta' \in [status : {"IDLE", "ACTIVE", "CLOSED", "RECOVERY_REQUIRED"}, turns : 0..MaxTurns]
    BY <1>0, <1>14 DEF Ends, TypeInv
  <2> QED BY <1>0, <1>14, <2>1, <2>2 DEF Ends, TypeInv
<1>15. CASE Resume
  <2>1. hashes' \subseteq Items /\ pending' \in Seq(Items)
    BY <1>0, <1>15, RestoreType DEF Resume, TypeInv
  <2>2. (Restorable \/ saved.point = "TERMINAL") => saved \in SavedType /\ saved # None
    BY <1>0, NonePoint DEF Restorable, TypeInv
  <2>3. turn' \in 0..MaxTurns
    BY <1>0, <1>15, <2>2 DEF Resume, TypeInv, SavedType
  <2>4. meta' \in [status : {"IDLE", "ACTIVE", "CLOSED", "RECOVERY_REQUIRED"}, turns : 0..MaxTurns]
    <3>1. \/ meta' = meta \/ meta' = [meta EXCEPT !.status = "RECOVERY_REQUIRED"]
          \/ meta' = [meta EXCEPT !.status = "IDLE"]
      BY <1>15 DEF Resume
    <3> QED BY <1>0, <3>1 DEF TypeInv
  <2>5. log' \in Seq(Msg) /\ synced' \in 0..Len(log')
    <3>1. saved.point = "TERMINAL" => Closing(saved.turn, saved.messages) \in Seq(Msg)
      BY <2>2, ClosingType, ContextAssumption DEF SavedType, ContextAssumption
    <3>2. log' = log \/ (saved.point = "TERMINAL" /\ log' = log \o Closing(saved.turn, saved.messages))
      BY <1>15 DEF Resume
    <3>3. log' \in Seq(Msg)
      <4>1. log \in Seq(Msg)
        BY <1>0 DEF TypeInv
      <4>2. CASE log' # log
        <5>1. PICK t \in Seq(Msg) : log' = log \o t
          BY <3>1, <3>2, <4>2
        <5> QED BY <4>1, <5>1
      <4> QED BY <4>1, <4>2
    <3>4. synced' = Len(log')
      BY <1>15 DEF Resume
    <3> QED BY <3>3, <3>4
  <2>6. todo' \subseteq Object \X Nat
    <3>1. CASE Continued /\ saved.point # "MODEL_IN_FLIGHT"
      <4>1. saved.point \in {"AFTER_MODEL", "WAITING_APPROVAL", "AFTER_TOOL"} /\ saved.messages \in Seq(Msg)
        BY <2>2, <3>1 DEF Continued, Restorable, SavedType, Point
      <4>2. Said(saved.messages)
        BY <4>1 DEF Inv, CallsInv
      <4> QED BY <1>15, <3>1, <4>1, <4>2, UnansweredCalls DEF Resume
    <3>2. CASE ~(Continued /\ saved.point # "MODEL_IN_FLIGHT")
      BY <1>15, <3>2 DEF Resume
    <3> QED BY <3>1, <3>2
  <2>7. messages' \in Seq(Msg) /\ summary' \in Seq(Msg)
    <3>1. CASE ~Restorable
      <4>1. FromHistory \in Seq(Msg)
        BY <1>0, ToSetKept DEF TypeInv, FromHistory, Of
      <4>2. messages' = FromHistory /\ summary' = <<>>
        BY <1>15, <3>1 DEF Resume
      <4>3. <<>> \in Seq(Msg)
        OBVIOUS
      <4> QED BY <4>1, <4>2, <4>3
    <3>2. CASE Restorable /\ ~UpToDate(saved.messages, saved.summary) /\ Verified(saved.messages)
      <4>1. messages' = Compacted(saved.messages) /\ summary' = record.source
            /\ Boundary(saved.messages, Retain) # 0 /\ record # None
        BY <1>15, <3>2 DEF Resume, Applied, Verified, UpToDate
      <4>2. record.source \in Seq(Msg) /\ saved.messages \in Seq(Msg)
        BY <1>0, <2>2, <3>2, <4>1 DEF TypeInv, RecordType, SavedType
      <4> QED BY <4>1, <4>2, CompactedFacts
    <3>3. CASE Restorable /\ ~(~UpToDate(saved.messages, saved.summary) /\ Verified(saved.messages))
      BY <1>15, <2>2, <3>3 DEF Resume, SavedType
    <3> QED BY <3>1, <3>2, <3>3
  <2>8. pc' \in {"idle", "resumed", "refused"}
    BY <1>15 DEF Resume
  <2>9. UNCHANGED <<mailbox, saved, record>>
    BY <1>15 DEF Resume
  <2> QED BY <1>0, <2>1, <2>3, <2>4, <2>5, <2>6, <2>7, <2>8, <2>9 DEF TypeInv
<1>16. CASE Continue
  <2>1. messages' \in Seq(Msg)
    BY <1>0, <1>16, DrainedType DEF Continue, TypeInv
  <2> QED BY <1>0, <1>16, <2>1 DEF Continue, TypeInv
<1>18. CASE LimitReached
  <2>1. messages' \in Seq(Msg) /\ mailbox' \in Seq(Items)
    <3>1. messages \in Seq(Msg) /\ mailbox \in Seq(Items) /\ Drained \in Seq(Msg)
      BY <1>0, DrainedType DEF TypeInv
    <3>2. CASE UNCHANGED <<messages, mailbox>>
      BY <3>1, <3>2
    <3>3. CASE messages' = messages \o Drained /\ mailbox' = <<>>
      <4>1. messages' \in Seq(Msg)
        BY <3>1, <3>3
      <4> QED BY <4>1, <3>3
    <3> QED BY <1>18, <3>2, <3>3 DEF LimitReached
  <2>2. saved' \in SavedType
    BY <1>0, <1>18, <2>1, CheckpointType DEF LimitReached, Point
  <2> QED BY <1>0, <1>18, <2>1, <2>2 DEF LimitReached, TypeInv
<1>17. CASE UNCHANGED vars
  BY <1>0, <1>17 DEF vars, TypeInv
<1> QED BY <1>1, <1>2, <1>3, <1>4, <1>5, <1>6, <1>7, <1>8, <1>9, <1>10, <1>11, <1>12, <1>13,
           <1>14, <1>15, <1>16, <1>17, <1>18 DEF Next

-----------------------------------------------------------------------------
(* Results follow the calls they answer.                                   *)

\* Messages that bring no result, or only such as are called before.
LEMMA AnswersConcat ==
    ASSUME NEW s \in Seq(Msg), NEW t \in Seq(Msg), Answers(s),
           \A i \in DOMAIN t : t[i].kind = "result" =>
               \/ HasCalls(s, t[i].of)
               \/ \E j \in 1..(i - 1) : t[j].kind = "calls" /\ t[j].of = t[i].of
    PROVE  Answers(s \o t)
<1> DEFINE u == s \o t
<1>1. /\ u \in Seq(Msg) /\ Len(u) = Len(s) + Len(t) /\ Len(s) \in Nat /\ Len(t) \in Nat
      /\ DOMAIN u = 1..Len(u) /\ DOMAIN s = 1..Len(s) /\ DOMAIN t = 1..Len(t)
      /\ \A i \in 1..Len(s) : u[i] = s[i]
      /\ \A i \in 1..Len(t) : u[Len(s) + i] = t[i]
  OBVIOUS
<1> HIDE DEF u
<1>2. ASSUME NEW i \in DOMAIN u, u[i].kind = "result"
      PROVE  \E j \in 1..(i - 1) : u[j].kind = "calls" /\ u[j].of = u[i].of
  <2>1. CASE i \in 1..Len(s)
    <3>1. s[i].kind = "result"
      BY <1>1, <1>2, <2>1
    <3>2. PICK j \in 1..(i - 1) : s[j].kind = "calls" /\ s[j].of = s[i].of
      BY <1>1, <2>1, <3>1 DEF Answers
    <3>3. j \in 1..Len(s)
      BY <1>1, <2>1
    <3> QED BY <1>1, <2>1, <3>2, <3>3
  <2>2. CASE i \notin 1..Len(s)
    <3>1. PICK k \in 1..Len(t) : i = Len(s) + k
      <4>1. i - Len(s) \in 1..Len(t) /\ i = Len(s) + (i - Len(s))
        BY <1>1, <2>2
      <4> QED BY <4>1
    <3>2. u[i] = t[k] /\ t[k].kind = "result"
      BY <1>1, <1>2, <3>1
    <3>3. CASE HasCalls(s, t[k].of)
      <4>1. PICK j \in DOMAIN s : s[j].kind = "calls" /\ s[j].of = t[k].of
        BY <3>3 DEF HasCalls
      <4>2. j \in 1..(i - 1) /\ u[j] = s[j]
        BY <1>1, <3>1, <4>1
      <4> QED BY <3>2, <4>1, <4>2
    <3>4. CASE \E j \in 1..(k - 1) : t[j].kind = "calls" /\ t[j].of = t[k].of
      <4>1. PICK j \in 1..(k - 1) : t[j].kind = "calls" /\ t[j].of = t[k].of
        BY <3>4
      <4>2. Len(s) + j \in 1..(i - 1) /\ u[Len(s) + j] = t[j]
        BY <1>1, <3>1, <4>1
      <4> QED BY <3>2, <4>1, <4>2
    <3> QED BY <1>1, <3>2, <3>3, <3>4
  <2> QED BY <2>1, <2>2
<1>3. Answers(u)
  BY <1>2 DEF Answers
<1> QED BY <1>3 DEF u

\* The calls among messages are those of the set of them.
LEMMA HasCallsSet ==
    ASSUME NEW s \in Seq(Msg), NEW r
    PROVE  HasCalls(s, r) <=> \E e \in ToSet(s) : e.kind = "calls" /\ e.of = r
<1>1. DOMAIN s = 1..Len(s)
  OBVIOUS
<1> QED BY <1>1, ToSetOf DEF HasCalls

LEMMA HasCallsConcat ==
    ASSUME NEW s \in Seq(Msg), NEW t \in Seq(Msg), NEW r, HasCalls(s, r) \/ HasCalls(t, r)
    PROVE  HasCalls(s \o t, r)
<1>1. s \o t \in Seq(Msg) /\ ToSet(s \o t) = ToSet(s) \cup ToSet(t)
  BY ToSetConcat
<1>2. PICK e \in ToSet(s \o t) : e.kind = "calls" /\ e.of = r
  <2>1. (\E e \in ToSet(s) : e.kind = "calls" /\ e.of = r) \/ (\E e \in ToSet(t) : e.kind = "calls" /\ e.of = r)
    BY HasCallsSet
  <2> QED BY <1>1, <2>1
<1>3. \A u \in Seq(Msg) : (\E d \in ToSet(u) : d.kind = "calls" /\ d.of = r) => HasCalls(u, r)
  BY HasCallsSet
<1> QED BY <1>1, <1>2, <1>3

\* What is protected of the messages keeps the calls before the results.
LEMMA AnswersProtected ==
    ASSUME NEW s \in Seq(Msg), Answers(s)
    PROVE  Answers(Protected(s))
<1> DEFINE S == {e \in ToSet(s) : e.kind \in {"calls", "result"}}
           k == Kept(s, S)
<1>1. Protected(s) = k
  BY DEF Protected, Of
<1>2. k \in Seq(Msg)
  <2> HIDE DEF S
  <2> QED BY KeptFacts
<1>3. PICK p \in [1..Len(k) -> 1..Len(s)] :
            /\ \A n \in 1..Len(k) : k[n] = s[p[n]] /\ s[p[n]] \in S
            /\ \A i \in 1..Len(s) : s[i] \in S => \E n \in 1..Len(k) : p[n] = i
            /\ \A n, m \in 1..Len(k) : n < m <=> p[n] < p[m]
  <2> HIDE DEF S
  <2> QED BY KeptFacts
<1>4. DOMAIN s = 1..Len(s) /\ DOMAIN k = 1..Len(k) /\ Len(s) \in Nat /\ Len(k) \in Nat
  <2> HIDE DEF k
  <2> QED BY <1>2
<1> HIDE DEF k
<1>5. ASSUME NEW n \in 1..Len(k), k[n].kind = "result"
      PROVE  \E m \in 1..(n - 1) : k[m].kind = "calls" /\ k[m].of = k[n].of
  <2>1. p[n] \in 1..Len(s) /\ s[p[n]] = k[n]
    BY <1>3
  <2>2. PICK j \in 1..(p[n] - 1) : s[j].kind = "calls" /\ s[j].of = k[n].of
    BY <1>4, <1>5, <2>1 DEF Answers
  <2>3. j \in 1..Len(s) /\ j < p[n]
    BY <2>1, <2>2, <1>4
  <2>4. s[j] \in S
    BY <2>2, <2>3, <1>4 DEF ToSet
  <2>5. PICK m \in 1..Len(k) : p[m] = j
    BY <1>3, <2>3, <2>4
  <2>6. m < n
    <3> HIDE DEF S
    <3> QED BY <1>3, <2>3, <2>5
  <2>7. m \in 1..(n - 1) /\ k[m] = s[j]
    <3> HIDE DEF S
    <3> QED BY <1>3, <1>4, <2>5, <2>6
  <2> QED BY <2>2, <2>7
<1> QED BY <1>1, <1>4, <1>5 DEF Answers

\* Compaction keeps every call, and the calls before the results.
LEMMA CompactedAnswers ==
    ASSUME NEW s \in Seq(Msg), Answers(s), Boundary(s, Retain) # 0
    PROVE  /\ Answers(Compacted(s))
           /\ \A r : HasCalls(s, r) => HasCalls(Compacted(s), r)
<1> DEFINE b == Boundary(s, Retain)
           P == Protected(Old(s))
           F == From(s, b)
<1>1. /\ Old(s) \in Seq(Msg) /\ F \in Seq(Msg) /\ P \in Seq(Msg) /\ Compacted(s) \in Seq(Msg)
      /\ b \in 1..Len(s) /\ ToSet(s) = ToSet(Old(s)) \cup ToSet(F)
      /\ ToSet(Compacted(s)) = ToSet(P) \cup ToSet(F)
  BY CompactedFacts
<1>2. Compacted(s) = P \o F
  BY DEF Compacted
<1>3. ToSet(P) = {e \in ToSet(Old(s)) : e.kind \in {"calls", "result"}}
  <2> DEFINE S == {e \in ToSet(Old(s)) : e.kind \in {"calls", "result"}}
  <2>1. ToSet(Old(s)) \cap S = S
    OBVIOUS
  <2>2. P = Kept(Old(s), S)
    BY DEF Protected, Of
  <2> HIDE DEF S, P
  <2>3. ToSet(P) = S
    BY <1>1, <2>1, <2>2, ToSetKept
  <2> QED BY <2>3 DEF S
<1>4. /\ Len(Old(s)) = b - 1 /\ \A i \in 1..(b - 1) : Old(s)[i] = s[i]
      /\ Len(F) = Len(s) - b + 1 /\ \A i \in 1..Len(F) : F[i] = s[b + i - 1]
      /\ Len(s) \in Nat /\ DOMAIN s = 1..Len(s) /\ DOMAIN F = 1..Len(F)
      /\ DOMAIN Old(s) = 1..(b - 1)
  <2>1. Old(s) = SubSeq(s, 1, b - 1) /\ F = SubSeq(s, b, Len(s))
    BY DEF Old, From
  <2> HIDE DEF b, F
  <2> QED BY <1>1, <2>1
<1> HIDE DEF b, F, P
<1>5. Answers(Old(s))
  <2>1. ASSUME NEW i \in 1..(b - 1), Old(s)[i].kind = "result"
        PROVE  \E j \in 1..(i - 1) : Old(s)[j].kind = "calls" /\ Old(s)[j].of = Old(s)[i].of
    <3>1. i \in DOMAIN s /\ s[i].kind = "result"
      BY <1>1, <1>4, <2>1
    <3>2. PICK j \in 1..(i - 1) : s[j].kind = "calls" /\ s[j].of = s[i].of
      BY <3>1 DEF Answers
    <3>3. j \in 1..(b - 1)
      BY <1>1, <2>1, <1>4
    <3> QED BY <1>4, <3>2, <3>3, <2>1
  <2> QED BY <1>4, <2>1 DEF Answers
<1>6. Answers(P)
  BY <1>1, <1>5, AnswersProtected DEF P
<1>7. \A r : HasCalls(Old(s), r) => HasCalls(P, r)
  BY <1>1, <1>3, HasCallsSet
<1>8. ASSUME NEW i \in DOMAIN F, F[i].kind = "result"
      PROVE  \/ HasCalls(P, F[i].of)
             \/ \E j \in 1..(i - 1) : F[j].kind = "calls" /\ F[j].of = F[i].of
  <2>1. b + i - 1 \in DOMAIN s /\ s[b + i - 1] = F[i]
    <3>1. i \in 1..Len(F) /\ Len(F) = Len(s) - b + 1 /\ b \in 1..Len(s) /\ Len(s) \in Nat
      BY <1>1, <1>4
    <3>2. b + i - 1 \in 1..Len(s)
      BY <3>1
    <3> QED BY <1>4, <3>1, <3>2
  <2>2. PICK j \in 1..(b + i - 2) : s[j].kind = "calls" /\ s[j].of = F[i].of
    <3>1. (b + i - 1) - 1 = b + i - 2
      BY <1>1, <1>4
    <3> QED BY <2>1, <1>8, <3>1 DEF Answers
  <2>3. CASE j \in 1..(b - 1)
    <3>1. j \in DOMAIN Old(s) /\ Old(s)[j] = s[j]
      BY <1>4, <2>3
    <3>2. HasCalls(Old(s), F[i].of)
      BY <2>2, <3>1 DEF HasCalls
    <3> QED BY <1>7, <3>2
  <2>4. CASE j \notin 1..(b - 1)
    <3>1. j - b + 1 \in 1..(i - 1) /\ j - b + 1 \in 1..Len(F) /\ b + (j - b + 1) - 1 = j
      BY <1>1, <1>4, <2>2, <2>4
    <3>2. F[j - b + 1] = s[j]
      BY <1>4, <3>1
    <3> QED BY <2>2, <3>1, <3>2
  <2> QED BY <2>3, <2>4
<1>9. Answers(Compacted(s))
  BY <1>1, <1>2, <1>6, <1>8, AnswersConcat
<1>10. \A r : HasCalls(s, r) => HasCalls(Compacted(s), r)
  <2>1. ASSUME NEW r, HasCalls(s, r) PROVE HasCalls(Compacted(s), r)
    <3>1. PICK e \in ToSet(s) : e.kind = "calls" /\ e.of = r
      BY <2>1, HasCallsSet
    <3>2. e \in ToSet(Compacted(s))
      BY <1>1, <1>3, <3>1
    <3> QED BY <1>1, <3>1, <3>2, HasCallsSet
  <2> QED BY <2>1
<1> QED BY <1>9, <1>10

\* Messages of other kinds put at the end.
LEMMA GrownAnswers ==
    ASSUME NEW s \in Seq(Msg), NEW t \in Seq(Msg), Answers(s),
           \A i \in DOMAIN t : t[i].kind # "result"
    PROVE  /\ Answers(s \o t)
           /\ \A r : HasCalls(s, r) => HasCalls(s \o t, r)
BY AnswersConcat, HasCallsConcat

LEMMA AppendAnswers ==
    ASSUME NEW s \in Seq(Msg), NEW e \in Msg, Answers(s),
           e.kind = "result" => HasCalls(s, e.of)
    PROVE  /\ Answers(Append(s, e))
           /\ \A r : HasCalls(s, r) => HasCalls(Append(s, e), r)
           /\ e.kind = "calls" => HasCalls(Append(s, e), e.of)
           /\ e.kind \in {"calls", "text"} => Said(Append(s, e))
<1> DEFINE t == <<e>>
<1>1. t \in Seq(Msg) /\ Append(s, e) = s \o t /\ DOMAIN t = {1} /\ t[1] = e
  OBVIOUS
<1>2. Append(s, e)[Len(s) + 1] = e /\ Len(s) + 1 \in DOMAIN Append(s, e)
  OBVIOUS
<1> HIDE DEF t
<1>3. Answers(s \o t)
  BY <1>1, AnswersConcat
<1>4. \A r : HasCalls(s, r) => HasCalls(s \o t, r)
  BY <1>1, HasCallsConcat
<1> QED BY <1>1, <1>2, <1>3, <1>4 DEF HasCalls, Said

LEMMA CallsStep == Inv /\ [Next]_vars => CallsInv'
<1> SUFFICES ASSUME Inv, [Next]_vars PROVE CallsInv'
  OBVIOUS
<1>0. /\ messages \in Seq(Msg) /\ mailbox \in Seq(Items) /\ pending \in Seq(Items) /\ log \in Seq(Msg)
      /\ turn \in Nat /\ todo \subseteq Object \X Nat
      /\ saved # None => saved \in SavedType /\ saved.messages \in Seq(Msg)
      /\ Answers(messages) /\ \A c \in todo : HasCalls(messages, c[1])
      /\ saved # None => Answers(saved.messages)
      /\ saved.point \in {"AFTER_MODEL", "WAITING_APPROVAL", "AFTER_TOOL"} => Said(saved.messages)
  BY DEF Inv, TypeInv, CallsInv, SavedType
<1> USE CheckpointFields, NonePoint DEF stateVars, contextVars, rolloutVars, dbVars, ghosts
<1>50. /\ Drained \in Seq(Msg)
       /\ \A i \in DOMAIN Drained : Drained[i].kind # "result"
  BY <1>0, DrainedType
<1>51. ASSUME UNCHANGED <<messages, todo, saved>> PROVE CallsInv'
  BY <1>0, <1>51 DEF CallsInv
<1>52. ASSUME UNCHANGED messages, todo' \subseteq todo,
              saved'.messages = messages,
              saved'.point \in {"AFTER_MODEL", "WAITING_APPROVAL", "AFTER_TOOL"} => Said(messages)
       PROVE  CallsInv'
  BY <1>0, <1>52 DEF CallsInv
<1>1. CASE Select
  BY <1>1, <1>51 DEF Select
<1>2. CASE StartTurn
  <2>1. turn' \in Nat
    BY <1>2 DEF StartTurn, Inv, TypeInv
  <2>2. Task(turn') \in Msg /\ Task(turn').kind = "task"
    BY <2>1, MessageTypes, MessageKinds
  <2>3. PICK a \in Seq(Msg) : /\ messages' = messages \o <<Task(turn')>> \o a
                              /\ \A i \in DOMAIN a : a[i].kind = "external"
    <3>1. /\ messages' = messages \o <<Task(turn')>> \o [i \in DOMAIN Fitting |-> External(Fitting[i])]
          /\ [i \in DOMAIN Fitting |-> External(Fitting[i])] \in Seq(Msg)
          /\ \A n \in DOMAIN [i \in DOMAIN Fitting |-> External(Fitting[i])] :
                [i \in DOMAIN Fitting |-> External(Fitting[i])][n].kind = "external"
      BY <1>0, <1>2, StartType DEF StartTurn
    <3> QED BY <3>1
  <2>4. PICK m \in Seq(Msg) : m = Append(messages, Task(turn'))
    <3>1. Append(messages, Task(turn')) \in Seq(Msg)
      BY <1>0, <2>2
    <3> QED BY <3>1
  <2>5. messages' = m \o a
    BY <1>0, <2>2, <2>3, <2>4
  <2>6. Answers(m)
    BY <1>0, <2>2, <2>4, AppendAnswers
  <2>7. Answers(m \o a)
    BY <2>3, <2>6, GrownAnswers
  <2>8. todo' = {} /\ saved' = saved
    BY <1>2 DEF StartTurn
  <2> QED BY <1>0, <2>5, <2>7, <2>8 DEF CallsInv
<1>3. CASE Started
  BY <1>3, <1>51 DEF Started
<1>4. CASE Request
  <2>1. /\ messages' = messages \o Drained /\ todo' = todo
        /\ saved' = [Checkpoint("MODEL_IN_FLIGHT") EXCEPT !.messages = messages']
    BY <1>4 DEF Request
  <2>2. Answers(messages') /\ \A r : HasCalls(messages, r) => HasCalls(messages', r)
    BY <1>0, <1>50, <2>1, GrownAnswers
  <2> QED BY <1>0, <2>1, <2>2 DEF CallsInv
<1>5. CASE ModelCalls
  <2>1. PICK n \in Widths, r \in 1..MaxCalls :
          messages' = Append(messages, Calls(r, n)) /\ todo' = {<<r, i>> : i \in 1..n}
    BY <1>5 DEF ModelCalls
  <2>2. Calls(r, n) \in Msg /\ Calls(r, n).kind = "calls" /\ Calls(r, n).of = r
    <3>1. n \in Nat /\ r \in Nat
      BY ContextAssumption DEF ContextAssumption
    <3> QED BY <3>1, MessageTypes, MessageKinds
  <2>3. Answers(messages') /\ HasCalls(messages', r) /\ Said(messages')
    BY <1>0, <2>1, <2>2, AppendAnswers
  <2>4. \A c \in todo' : c[1] = r
    BY <2>1
  <2>5. saved' = [Checkpoint("AFTER_MODEL") EXCEPT !.messages = messages']
    BY <1>5 DEF ModelCalls
  <2> QED BY <2>3, <2>4, <2>5 DEF CallsInv
<1>6. CASE ModelAnswers
  <2> DEFINE n == Cardinality({i \in DOMAIN messages : messages[i].kind = "text" /\ messages[i].of = turn})
  <2>1. /\ messages' = Append(messages, Text(turn, n)) /\ todo' = todo
        /\ saved' = [Checkpoint("AFTER_MODEL") EXCEPT !.messages = messages']
    BY <1>6 DEF ModelAnswers
  <2>2. Text(turn, n) \in Msg /\ Text(turn, n).kind = "text"
    <3> DEFINE A == {i \in DOMAIN messages : messages[i].kind = "text" /\ messages[i].of = turn}
    <3>1. A \in SUBSET (1..Len(messages)) /\ Len(messages) \in Nat
      BY <1>0
    <3>2. Cardinality(A) \in Nat
      <4> HIDE DEF A
      <4> QED BY <3>1, RankBelow
    <3> HIDE DEF A
    <3> QED BY <1>0, <3>2, MessageTypes, MessageKinds DEF A
  <2> HIDE DEF n
  <2>3. /\ Answers(messages') /\ Said(messages')
        /\ \A r : HasCalls(messages, r) => HasCalls(messages', r)
    BY <1>0, <2>1, <2>2, AppendAnswers
  <2> QED BY <1>0, <2>1, <2>3 DEF CallsInv
<1>7. CASE Guarded
  <2>1. messages' = Append(messages, Note(turn)) /\ UNCHANGED <<todo, saved>>
    BY <1>7 DEF Guarded
  <2>2. Note(turn) \in Msg /\ Note(turn).kind = "note"
    BY <1>0, MessageTypes, MessageKinds
  <2>3. Answers(messages') /\ \A r : HasCalls(messages, r) => HasCalls(messages', r)
    BY <1>0, <2>1, <2>2, AppendAnswers
  <2> QED BY <1>0, <2>1, <2>3 DEF CallsInv
<1>8. CASE Accepted
  BY <1>8, <1>52 DEF Accepted
<1>9. CASE BeginTool
  <2>1. Said(messages)
    <3>1. PICK c \in todo : HasCalls(messages, c[1])
      BY <1>0, <1>9 DEF BeginTool
    <3> QED BY <3>1 DEF HasCalls, Said
  <2>2. PICK point \in {"TOOL_IN_FLIGHT", "WAITING_APPROVAL"} : saved' = Checkpoint(point)
    BY <1>9 DEF BeginTool
  <2> QED BY <1>9, <1>52, <2>1, <2>2 DEF BeginTool
<1>10. CASE ToolReturns
  <2>1. PICK c \in todo :
          /\ messages' = messages \o <<Result(c)>> \o Drained
          /\ saved' = [Checkpoint("AFTER_TOOL") EXCEPT !.messages = Append(messages, Result(c))]
          /\ todo' = todo \ {c}
    BY <1>10 DEF ToolReturns
  <2>2. Result(c) \in Msg /\ Result(c).kind = "result" /\ Result(c).of = c[1] /\ HasCalls(messages, c[1])
    BY <1>0, MessageTypes, MessageKinds
  <2>3. PICK m \in Seq(Msg) : m = Append(messages, Result(c))
    <3>1. Append(messages, Result(c)) \in Seq(Msg)
      BY <1>0, <2>2
    <3> QED BY <3>1
  <2>4. messages' = m \o Drained
    BY <1>0, <1>50, <2>1, <2>2, <2>3
  <2>5. Answers(m) /\ \A r : HasCalls(messages, r) => HasCalls(m, r)
    BY <1>0, <2>2, <2>3, AppendAnswers
  <2>6. Answers(messages') /\ \A r : HasCalls(m, r) => HasCalls(messages', r)
    BY <1>50, <2>4, <2>5, GrownAnswers
  <2>7. Said(m)
    BY <2>2, <2>5 DEF Said, HasCalls
  <2>8. saved'.messages = m
    BY <2>1, <2>3
  <2> QED BY <1>0, <2>1, <2>5, <2>6, <2>7, <2>8 DEF CallsInv
<1>11. CASE TurnFails
  <2>1. CASE saved' = Checkpoint("TERMINAL")
    BY <1>11, <1>52, <2>1 DEF TurnFails
  <2>2. CASE saved' = saved
    BY <1>0, <1>11, <2>2 DEF TurnFails, CallsInv
  <2> QED BY <1>11, <2>1, <2>2 DEF TurnFails
<1>12. CASE Finalize
  BY <1>12, <1>51 DEF Finalize
<1>13. CASE Compact
  <2>1. CASE UNCHANGED messages
    BY <1>13, <2>1, <1>51 DEF Compact
  <2>2. CASE ~UNCHANGED messages
    <3>1. Boundary(messages, Retain) # 0 /\ messages' = Compacted(messages) /\ UNCHANGED <<todo, saved>>
      BY <1>13, <2>2 DEF Compact
    <3>2. Answers(messages') /\ \A r : HasCalls(messages, r) => HasCalls(messages', r)
      BY <1>0, <3>1, CompactedAnswers
    <3> QED BY <1>0, <3>1, <3>2 DEF CallsInv
  <2> QED BY <2>1, <2>2
<1>14. CASE Ends
  BY <1>0, <1>14 DEF Ends, CallsInv, Answers
<1>15. CASE Resume
  <2>1. UNCHANGED saved
    BY <1>15 DEF Resume
  <2>2. Restorable => saved # None /\ saved.messages \in Seq(Msg) /\ Answers(saved.messages)
    BY <1>0 DEF Restorable
  <2>3. \A c \in todo' : Restorable /\ HasCalls(saved.messages, c[1])
    <3>1. CASE Continued /\ saved.point # "MODEL_IN_FLIGHT"
      <4>1. saved.point \in {"AFTER_MODEL", "WAITING_APPROVAL", "AFTER_TOOL"}
        BY <1>0, <2>2, <3>1 DEF Continued, Restorable, SavedType, Point
      <4> QED BY <1>0, <1>15, <2>2, <3>1, <4>1, UnansweredCalls DEF Resume, Continued
    <3>2. CASE ~(Continued /\ saved.point # "MODEL_IN_FLIGHT")
      BY <1>15, <3>2 DEF Resume
    <3> QED BY <3>1, <3>2
  <2>4. Answers(messages') /\ \A r : Restorable /\ HasCalls(saved.messages, r) => HasCalls(messages', r)
    <3>1. CASE ~Restorable
      <4>1. messages' = FromHistory
        BY <1>15, <3>1 DEF Resume
      <4>2. FromHistory \in Seq(Msg) /\ \A e \in ToSet(FromHistory) : e.kind \in {"task", "text"}
        BY <1>0, ToSetKept DEF FromHistory, Of
      <4>3. \A i \in DOMAIN FromHistory : FromHistory[i].kind # "result"
        BY <4>2 DEF ToSet
      <4> QED BY <3>1, <4>1, <4>3 DEF Answers
    <3>2. CASE Restorable /\ ~UpToDate(saved.messages, saved.summary) /\ Verified(saved.messages)
      <4>1. messages' = Compacted(saved.messages) /\ Boundary(saved.messages, Retain) # 0
        BY <1>15, <3>2 DEF Resume, Applied, Verified
      <4> QED BY <2>2, <3>2, <4>1, CompactedAnswers
    <3>3. CASE Restorable /\ ~(~UpToDate(saved.messages, saved.summary) /\ Verified(saved.messages))
      BY <1>15, <2>2, <3>3 DEF Resume
    <3> QED BY <3>1, <3>2, <3>3
  <2> QED BY <1>0, <2>1, <2>3, <2>4 DEF CallsInv
<1>16. CASE Continue
  <2>1. messages' = messages \o Drained /\ UNCHANGED <<todo, saved>>
    BY <1>16 DEF Continue
  <2>2. Answers(messages') /\ \A r : HasCalls(messages, r) => HasCalls(messages', r)
    BY <1>0, <1>50, <2>1, GrownAnswers
  <2> QED BY <1>0, <2>1, <2>2 DEF CallsInv
<1>18. CASE LimitReached
  <2>1. /\ messages' = messages \/ messages' = messages \o Drained
        /\ todo' = {} /\ saved' = [Checkpoint("TERMINAL") EXCEPT !.messages = messages']
    BY <1>18 DEF LimitReached
  <2>2. Answers(messages')
    <3>1. CASE messages' = messages
      BY <1>0, <3>1
    <3>2. CASE messages' = messages \o Drained
      BY <1>0, <1>50, <3>2, GrownAnswers
    <3> QED BY <2>1, <3>1, <3>2
  <2> QED BY <2>1, <2>2 DEF CallsInv
<1>17. CASE UNCHANGED vars
  BY <1>17, <1>51 DEF vars
<1> QED BY <1>1, <1>2, <1>3, <1>4, <1>5, <1>6, <1>7, <1>8, <1>9, <1>10, <1>11, <1>12, <1>13,
           <1>14, <1>15, <1>16, <1>17, <1>18 DEF Next

\* What a compacted turn had selected is in the summary or still among the
\* messages; what the summary before it had is not.
LEMMA CompactedContents ==
    ASSUME NEW s \in Seq(Msg), Boundary(s, Retain) # 0
    PROVE  Contents(s) \subseteq Contents(Compactable(Old(s)) \o Compacted(s))
<1> DEFINE C == Compactable(Old(s))
           F == From(s, Boundary(s, Retain))
           K == {"task", "text", "note", "steer", "external"}
<1>1. /\ Old(s) \in Seq(Msg) /\ C \in Seq(Msg) /\ Compacted(s) \in Seq(Msg)
      /\ ToSet(s) = ToSet(Old(s)) \cup ToSet(F)
      /\ ToSet(Compacted(s)) = ToSet(Protected(Old(s))) \cup ToSet(F)
  BY CompactedFacts
<1>2. \A e \in ToSet(Old(s)) : e.kind \in K => e \in ToSet(C)
  <2> DEFINE S == {e \in ToSet(Old(s)) : e.kind \in K}
  <2>1. C = Kept(Old(s), S)
    BY DEF Compactable, Of
  <2>2. ToSet(C) = ToSet(Old(s)) \cap S
    <3> HIDE DEF S, C
    <3> QED BY <1>1, <2>1, ToSetKept
  <2> HIDE DEF C
  <2> QED BY <2>2
<1> HIDE DEF C, F
<1>3. \A e \in ToSet(s) : e.kind \in {"external", "steer"} => e \in ToSet(C) \cup ToSet(Compacted(s))
  BY <1>1, <1>2
<1>4. ToSet(C \o Compacted(s)) = ToSet(C) \cup ToSet(Compacted(s))
  BY <1>1, ToSetConcat
<1>5. Contents(s) \subseteq Contents(C \o Compacted(s))
  BY <1>3, <1>4 DEF Contents
<1> QED BY <1>5 DEF C

LEMMA SeenStep == Inv /\ [Next]_vars => SeenInv'
<1> SUFFICES ASSUME Inv, [Next]_vars PROVE SeenInv'
  OBVIOUS
<1>0. PcInv /\ SeenInv /\ messages \in Seq(Msg) /\ summary \in Seq(Msg)
  BY DEF Inv, TypeInv
<1> USE DEF PcInv, SeenInv, stateVars, contextVars, rolloutVars, dbVars, ghosts
<1>00. summary' = summary => Contents(summary)' = Contents(summary)
  OBVIOUS
<1>1. CASE Select
  BY <1>0, <1>1, <1>00 DEF Select
<1>2. CASE StartTurn
  BY <1>0, <1>2 DEF StartTurn
<1>3. CASE Started
  BY <1>0, <1>3 DEF Started
<1>4. CASE Request
  <2>1. messages' \in Seq(Msg)
    BY TypeStep DEF TypeInv
  <2>2. Visible(messages') \in Seq(Msg)
    <3> DEFINE b == Boundary(messages', Recent)
    <3>1. Recent \in Nat /\ Recent # 0
      BY ContextAssumption DEF ContextAssumption
    <3>2. b \in 0..Len(messages')
      BY <2>1, <3>1, BoundaryFacts
    <3>3. Visible(messages') = IF b = 0 THEN messages' ELSE SubSeq(messages', b, Len(messages'))
      BY DEF Visible, From
    <3> HIDE DEF b
    <3> QED BY <2>1, <3>2, <3>3
  <2>3. Contents(summary \o Visible(messages')) = Contents(summary) \cup Contents(Visible(messages'))
    BY <1>0, <2>2, ContentsConcat
  <2>4. seen' = seen \cup Contents(summary \o Visible(messages')) /\ summary' = summary
    BY <1>4 DEF Request
  <2> QED BY <1>00, <2>3, <2>4
<1>5. CASE ModelCalls
  BY <1>0, <1>5, <1>00 DEF ModelCalls
<1>6. CASE ModelAnswers
  BY <1>0, <1>6, <1>00 DEF ModelAnswers
<1>7. CASE Guarded
  BY <1>0, <1>7, <1>00 DEF Guarded
<1>8. CASE Accepted
  BY <1>0, <1>8, <1>00 DEF Accepted
<1>9. CASE BeginTool
  BY <1>0, <1>9, <1>00 DEF BeginTool
<1>10. CASE ToolReturns
  BY <1>0, <1>10, <1>00 DEF ToolReturns
<1>11. CASE TurnFails
  BY <1>0, <1>11, <1>00 DEF TurnFails
<1>12. CASE Finalize
  BY <1>0, <1>12, <1>00 DEF Finalize
<1>13. CASE Compact
  BY <1>0, <1>13 DEF Compact
<1>14. CASE Ends
  BY <1>0, <1>14 DEF Ends
<1>15. CASE Resume
  <2>1. pc' \in {"idle", "resumed", "refused"}
    BY <1>15 DEF Resume
  <2> QED BY <2>1
<1>16. CASE Continue
  BY <1>0, <1>16 DEF Continue
<1>18. CASE LimitReached
  BY <1>0, <1>18 DEF LimitReached
<1>17. CASE UNCHANGED vars
  BY <1>0, <1>17, <1>00 DEF vars
<1> QED BY <1>1, <1>2, <1>3, <1>4, <1>5, <1>6, <1>7, <1>8, <1>9, <1>10, <1>11, <1>12, <1>13,
           <1>14, <1>15, <1>16, <1>17, <1>18 DEF Next

-----------------------------------------------------------------------------
(* No content is selected, or waits, twice.                                *)

LEMMA InjectiveConcat ==
    ASSUME NEW T, NEW s \in Seq(T), NEW t \in Seq(T)
    PROVE  IsInjective(s \o t) <=>
             IsInjective(s) /\ IsInjective(t) /\ ToSet(s) \cap ToSet(t) = {}
<1> DEFINE u == s \o t
<1>1. /\ u \in Seq(T) /\ Len(u) = Len(s) + Len(t) /\ Len(s) \in Nat /\ Len(t) \in Nat
      /\ DOMAIN u = 1..Len(u) /\ DOMAIN s = 1..Len(s) /\ DOMAIN t = 1..Len(t)
      /\ \A i \in 1..Len(s) : u[i] = s[i]
      /\ \A i \in 1..Len(t) : u[Len(s) + i] = t[i]
  OBVIOUS
<1>2. \A i \in 1..Len(u) : i \in 1..Len(s) \/ \E k \in 1..Len(t) : i = Len(s) + k
  <2>1. TAKE i \in 1..Len(u)
  <2>2. i \notin 1..Len(s) => i - Len(s) \in 1..Len(t) /\ i = Len(s) + (i - Len(s))
    BY <1>1
  <2> QED BY <2>2
<1>3. \A k \in 1..Len(t) : Len(s) + k \in 1..Len(u) /\ Len(s) + k \notin 1..Len(s)
  BY <1>1
<1>4. \A i \in 1..Len(s) : i \in 1..Len(u)
  BY <1>1
<1> HIDE DEF u
<1>5. ASSUME IsInjective(u) PROVE IsInjective(s) /\ IsInjective(t) /\ ToSet(s) \cap ToSet(t) = {}
  <2>1. IsInjective(s)
    BY <1>1, <1>4, <1>5 DEF IsInjective
  <2>2. IsInjective(t)
    <3>1. ASSUME NEW a \in 1..Len(t), NEW b \in 1..Len(t), t[a] = t[b] PROVE a = b
      <4>1. Len(s) + a = Len(s) + b
        BY <1>1, <1>3, <1>5, <3>1 DEF IsInjective
      <4> QED BY <1>1, <4>1
    <3> QED BY <1>1, <3>1 DEF IsInjective
  <2>3. ASSUME NEW a \in 1..Len(s), NEW b \in 1..Len(t), s[a] = t[b] PROVE FALSE
    <3>1. a = Len(s) + b
      BY <1>1, <1>3, <1>4, <1>5, <2>3 DEF IsInjective
    <3> QED BY <1>3, <3>1
  <2> QED BY <1>1, <2>1, <2>2, <2>3 DEF ToSet
<1>6. ASSUME IsInjective(s), IsInjective(t), ToSet(s) \cap ToSet(t) = {} PROVE IsInjective(u)
  <2>1. ASSUME NEW a \in 1..Len(u), NEW b \in 1..Len(u), u[a] = u[b] PROVE a = b
    <3>1. CASE a \in 1..Len(s) /\ b \in 1..Len(s)
      BY <1>1, <1>6, <2>1, <3>1 DEF IsInjective
    <3>2. CASE \E k \in 1..Len(t), l \in 1..Len(t) : a = Len(s) + k /\ b = Len(s) + l
      <4>1. PICK k \in 1..Len(t), l \in 1..Len(t) : a = Len(s) + k /\ b = Len(s) + l
        BY <3>2
      <4>2. t[k] = t[l]
        BY <1>1, <2>1, <4>1
      <4>3. k = l
        BY <1>1, <1>6, <4>2 DEF IsInjective
      <4> QED BY <4>1, <4>3
    <3>3. CASE a \in 1..Len(s) /\ \E l \in 1..Len(t) : b = Len(s) + l
      BY <1>1, <1>6, <2>1, <3>3 DEF ToSet
    <3>4. CASE b \in 1..Len(s) /\ \E k \in 1..Len(t) : a = Len(s) + k
      BY <1>1, <1>6, <2>1, <3>4 DEF ToSet
    <3> QED BY <1>2, <3>1, <3>2, <3>3, <3>4
  <2> QED BY <1>1, <2>1 DEF IsInjective
<1> QED BY <1>5, <1>6 DEF u

LEMMA InjectiveAppend ==
    ASSUME NEW T, NEW s \in Seq(T), NEW x \in T, IsInjective(s), x \notin ToSet(s)
    PROVE  IsInjective(Append(s, x))
<1> DEFINE t == <<x>>
<1>1. t \in Seq(T) /\ Append(s, x) = s \o t
  OBVIOUS
<1>2. IsInjective(t) /\ ToSet(t) = {x}
  BY DEF IsInjective, ToSet
<1> HIDE DEF t
<1>3. IsInjective(s \o t)
  BY <1>1, <1>2, InjectiveConcat
<1> QED BY <1>1, <1>3

LEMMA InjectiveKept ==
    ASSUME NEW T, NEW s \in Seq(T), NEW S, IsInjective(s)
    PROVE  IsInjective(Kept(s, S))
<1> DEFINE k == Kept(s, S)
<1>1. k \in Seq(T)
  BY KeptFacts
<1>2. PICK p \in [1..Len(k) -> 1..Len(s)] :
            /\ \A n \in 1..Len(k) : k[n] = s[p[n]] /\ s[p[n]] \in S
            /\ \A n, m \in 1..Len(k) : n < m <=> p[n] < p[m]
  BY KeptFacts
<1> HIDE DEF k
<1>3. ASSUME NEW n \in 1..Len(k), NEW m \in 1..Len(k), k[n] = k[m] PROVE n = m
  <2>1. p[n] \in 1..Len(s) /\ p[m] \in 1..Len(s) /\ s[p[n]] = s[p[m]]
    BY <1>2, <1>3
  <2>2. p[n] = p[m]
    BY <2>1 DEF IsInjective
  <2>3. ~(n < m) /\ ~(m < n)
    BY <1>2, <2>1, <2>2
  <2> QED BY <1>1, <2>3
<1> QED BY <1>1, <1>3 DEF IsInjective, k

LEMMA InjectiveRestore ==
    ASSUME NEW s \in Seq(Msg), SelectedOnce(s)
    PROVE  IsInjective(Objects(ToRestore(s)))
<1> DEFINE S == {e \in ToSet(s) :
                   e.kind \in {"queued", "steered"} /\ Entry("injected", e.of) \notin ToSet(s)}
           k == Kept(s, S)
<1>1. ToRestore(s) = k
  BY DEF ToRestore
<1>2. \A e \in S : e.kind \in Selection
  BY DEF Selection
<1> HIDE DEF S
<1>3. k \in Seq(Msg)
  BY KeptFacts
<1>4. PICK p \in [1..Len(k) -> 1..Len(s)] :
            /\ \A n \in 1..Len(k) : k[n] = s[p[n]] /\ s[p[n]] \in S
            /\ \A n, m \in 1..Len(k) : n < m <=> p[n] < p[m]
  BY KeptFacts
<1> HIDE DEF k
<1>5. Objects(k) = [i \in 1..Len(k) |-> k[i].of] /\ Len(k) \in Nat
  BY <1>3 DEF Objects
<1>6. ASSUME NEW n \in 1..Len(k), NEW m \in 1..Len(k), k[n].of = k[m].of PROVE n = m
  <2>1. p[n] \in 1..Len(s) /\ p[m] \in 1..Len(s) /\ s[p[n]].of = s[p[m]].of
    BY <1>4, <1>6
  <2>2. s[p[n]].kind \in Selection /\ s[p[m]].kind \in Selection
    BY <1>2, <1>4
  <2>3. p[n] = p[m]
    BY <2>1, <2>2 DEF SelectedOnce
  <2>4. ~(n < m) /\ ~(m < n)
    BY <1>4, <2>1, <2>3
  <2> QED BY <1>3, <2>4
<1> QED BY <1>1, <1>5, <1>6 DEF IsInjective

\* The record of selections at the end of the rollout.
LEMMA KnownConcat ==
    ASSUME NEW s \in Seq(Msg), NEW t \in Seq(Msg), SelectedOnce(s),
           \A i \in DOMAIN t : t[i].kind \notin Selection
    PROVE  SelectedOnce(s \o t) /\ Known(s \o t) = Known(s)
<1> DEFINE u == s \o t
<1>1. /\ u \in Seq(Msg) /\ Len(u) = Len(s) + Len(t) /\ Len(s) \in Nat /\ Len(t) \in Nat
      /\ DOMAIN u = 1..Len(u) /\ DOMAIN s = 1..Len(s) /\ DOMAIN t = 1..Len(t)
      /\ \A i \in 1..Len(s) : u[i] = s[i]
      /\ \A i \in 1..Len(t) : u[Len(s) + i] = t[i]
  OBVIOUS
<1>2. \A i \in 1..Len(u) : i \in 1..Len(s) \/ \E k \in 1..Len(t) : i = Len(s) + k
  <2>1. TAKE i \in 1..Len(u)
  <2>2. i \notin 1..Len(s) => i - Len(s) \in 1..Len(t) /\ i = Len(s) + (i - Len(s))
    BY <1>1
  <2> QED BY <2>2
<1>3. ToSet(u) = ToSet(s) \cup ToSet(t)
  BY ToSetConcat
<1> HIDE DEF u
<1>4. \A i \in 1..Len(u) : u[i].kind \in Selection => i \in 1..Len(s)
  BY <1>1, <1>2
<1>5. SelectedOnce(u)
  BY <1>1, <1>4 DEF SelectedOnce
<1>6. Known(u) = Known(s)
  BY <1>3 DEF Known, Selection, ToSet
<1> QED BY <1>5, <1>6 DEF u

LEMMA KnownAppend ==
    ASSUME NEW s \in Seq(Msg), NEW e \in Msg, SelectedOnce(s),
           e.kind \in Selection => e.of \notin Known(s)
    PROVE  /\ SelectedOnce(Append(s, e))
           /\ Known(Append(s, e)) = Known(s) \cup (IF e.kind \in Selection THEN {e.of} ELSE {})
<1> DEFINE u == Append(s, e)
<1>1. /\ u \in Seq(Msg) /\ Len(u) = Len(s) + 1 /\ Len(s) \in Nat
      /\ DOMAIN u = 1..Len(u) /\ DOMAIN s = 1..Len(s)
      /\ \A i \in 1..Len(s) : u[i] = s[i]
      /\ u[Len(s) + 1] = e
  OBVIOUS
<1>2. ToSet(u) = ToSet(s) \cup {e}
  BY ToSetAppend
<1> HIDE DEF u
<1>3. \A i \in 1..Len(s) : s[i].kind \in Selection => s[i].of \in Known(s)
  BY <1>1 DEF Known, Selection, ToSet
<1>4. SelectedOnce(u)
  <2>1. ASSUME NEW i \in 1..Len(u), NEW j \in 1..Len(u),
               u[i].kind \in Selection, u[j].kind \in Selection, u[i].of = u[j].of
        PROVE  i = j
    <3>1. CASE i \in 1..Len(s) /\ j \in 1..Len(s)
      BY <1>1, <2>1, <3>1 DEF SelectedOnce
    <3>2. CASE i = Len(s) + 1 /\ j = Len(s) + 1
      BY <3>2
    <3>3. CASE i \in 1..Len(s) /\ j = Len(s) + 1
      BY <1>1, <1>3, <2>1, <3>3
    <3>4. CASE i = Len(s) + 1 /\ j \in 1..Len(s)
      BY <1>1, <1>3, <2>1, <3>4
    <3> QED BY <1>1, <3>1, <3>2, <3>3, <3>4
  <2> QED BY <1>1, <2>1 DEF SelectedOnce
<1>5. Known(u) = Known(s) \cup (IF e.kind \in Selection THEN {e.of} ELSE {})
  BY <1>2 DEF Known, Selection
<1> QED BY <1>4, <1>5 DEF u

LEMMA KnownPrefix ==
    ASSUME NEW s \in Seq(Msg), SelectedOnce(s), NEW k \in 0..Len(s)
    PROVE  SelectedOnce(SubSeq(s, 1, k))
<1> DEFINE u == SubSeq(s, 1, k)
<1>1. Len(u) = k /\ DOMAIN u = 1..k /\ DOMAIN s = 1..Len(s) /\ \A i \in 1..k : u[i] = s[i] /\ i \in 1..Len(s)
  OBVIOUS
<1> HIDE DEF u
<1>2. SelectedOnce(u)
  BY <1>1 DEF SelectedOnce
<1> QED BY <1>2 DEF u

LEMMA WaitStep == Inv /\ [Next]_vars => WaitInv'
<1> SUFFICES ASSUME Inv, [Next]_vars PROVE WaitInv'
  OBVIOUS
<1>0. /\ messages \in Seq(Msg) /\ mailbox \in Seq(Items) /\ pending \in Seq(Items) /\ log \in Seq(Msg)
      /\ turn \in Nat /\ hashes \subseteq Items
      /\ saved # None => saved \in SavedType
      /\ IsInjective(pending) /\ IsInjective(mailbox) /\ ToSet(pending) \cap ToSet(mailbox) = {}
      /\ ToSet(pending) \subseteq hashes /\ ToSet(mailbox) \subseteq hashes
      /\ pc = "down" => mailbox = <<>>
      /\ SelectedOnce(log)
      /\ Up => Known(log) \subseteq hashes
  <2>1. /\ messages \in Seq(Msg) /\ mailbox \in Seq(Items) /\ pending \in Seq(Items) /\ log \in Seq(Msg)
        /\ turn \in Nat /\ hashes \subseteq Items
        /\ saved # None => saved \in SavedType
    BY DEF Inv, TypeInv
  <2>2. WaitInv
    BY DEF Inv
  <2>3. IsInjective(pending) /\ IsInjective(mailbox) /\ ToSet(pending) \cap ToSet(mailbox) = {}
    BY <2>1, <2>2, InjectiveConcat DEF WaitInv
  <2>4. ToSet(pending) \cup ToSet(mailbox) \subseteq hashes
    BY <2>1, <2>2, ToSetConcat DEF WaitInv
  <2> QED BY <2>1, <2>2, <2>3, <2>4 DEF WaitInv
<1> USE DEF stateVars, contextVars, rolloutVars, dbVars, ghosts
\* It is enough to look at the two queues and the log apart.
<1>A. ASSUME NEW p \in Seq(Items), NEW m \in Seq(Items), pending' = p, mailbox' = m,
             IsInjective(p), IsInjective(m), ToSet(p) \cap ToSet(m) = {},
             ToSet(p) \subseteq hashes', ToSet(m) \subseteq hashes',
             pc' = "down" => m = <<>>,
             SelectedOnce(log'), Up' => Known(log') \subseteq hashes'
      PROVE  WaitInv'
  <2>1. IsInjective(p \o m) /\ ToSet(p \o m) \subseteq hashes'
    BY <1>A, InjectiveConcat, ToSetConcat
  <2> QED BY <1>A, <2>1 DEF WaitInv
<1>B. <<>> \in Seq(Items) /\ IsInjective(<<>>) /\ ToSet(<<>>) = {}
  BY DEF IsInjective, ToSet
\* The queues as they are, and the same log.
<1>C. ASSUME UNCHANGED <<pending, hashes, log>>, mailbox' = mailbox \/ mailbox' = <<>>,
             pc' # "down", Up
      PROVE  WaitInv'
  <2>1. SelectedOnce(log') /\ Known(log') \subseteq hashes'
    BY <1>0, <1>C
  <2>2. PICK m \in Seq(Items) : /\ mailbox' = m /\ IsInjective(m)
                                /\ ToSet(pending) \cap ToSet(m) = {} /\ ToSet(m) \subseteq hashes
    BY <1>0, <1>B, <1>C
  <2> QED BY <1>0, <1>A, <1>C, <2>1, <2>2
<1>1. CASE Select
  <2>1. PICK x \in Items \ hashes :
          /\ hashes' = hashes \cup {x}
          /\ \/ mailbox' = Append(mailbox, x) /\ pending' = pending
                /\ log' = Append(log, Entry("steered", x))
             \/ pending' = Append(pending, x) /\ mailbox' = mailbox
                /\ log' = Append(log, Entry("queued", x))
    BY <1>1 DEF Select
  <2>2. SelectedOnce(log') /\ Known(log') \subseteq hashes'
    <3>1. PICK e \in Msg : log' = Append(log, e) /\ e.kind \in Selection /\ e.of = x
      BY <2>1, MessageTypes, MessageKinds DEF Selection
    <3>2. x \notin Known(log)
      BY <1>0, <1>1, <2>1 DEF Select
    <3> QED BY <1>0, <1>1, <2>1, <3>1, <3>2, KnownAppend DEF Select
  <2>3. x \notin ToSet(pending) /\ x \notin ToSet(mailbox) /\ x \in Items
    BY <1>0, <2>1
  <2>4. /\ Append(pending, x) \in Seq(Items) /\ ToSet(Append(pending, x)) = ToSet(pending) \cup {x}
        /\ Append(mailbox, x) \in Seq(Items) /\ ToSet(Append(mailbox, x)) = ToSet(mailbox) \cup {x}
    BY <1>0, <2>3, ToSetAppend
  <2>5. IsInjective(Append(pending, x)) /\ IsInjective(Append(mailbox, x))
    BY <1>0, <2>3, InjectiveAppend
  <2>6. pc' # "down" /\ Up'
    BY <1>1 DEF Select, Up
  <2>7. CASE mailbox' = Append(mailbox, x) /\ pending' = pending
    BY <1>0, <1>A, <2>1, <2>2, <2>3, <2>4, <2>5, <2>6, <2>7
  <2>8. CASE pending' = Append(pending, x) /\ mailbox' = mailbox
    BY <1>0, <1>A, <2>1, <2>2, <2>3, <2>4, <2>5, <2>6, <2>8
  <2> QED BY <2>1, <2>7, <2>8
<1>2. CASE StartTurn
  <2>1. PICK b \in Seq(Msg) : log' = log \o b /\ \A i \in DOMAIN b : b[i].kind = "injected"
    <3>1. /\ log' = log \o [i \in DOMAIN Fitting |-> Entry("injected", Fitting[i])]
          /\ [i \in DOMAIN Fitting |-> Entry("injected", Fitting[i])] \in Seq(Msg)
          /\ \A n \in DOMAIN [i \in DOMAIN Fitting |-> Entry("injected", Fitting[i])] :
                [i \in DOMAIN Fitting |-> Entry("injected", Fitting[i])][n].kind = "injected"
      BY <1>0, <1>2, StartType DEF StartTurn
    <3> QED BY <3>1
  <2>2. SelectedOnce(log') /\ Known(log') = Known(log)
    BY <1>0, <2>1, KnownConcat DEF Selection
  <2> DEFINE p == Kept(pending, ToSet(pending) \ ToSet(Fitting))
  <2>3. p \in Seq(Items) /\ ToSet(p) \subseteq ToSet(pending) /\ IsInjective(p)
    BY <1>0, ToSetKept, InjectiveKept
  <2>4. pending' = p /\ mailbox' = mailbox /\ hashes' = hashes /\ pc = "idle" /\ pc' = "starting"
    BY <1>2 DEF StartTurn
  <2> HIDE DEF p
  <2>5. Known(log') \subseteq hashes'
    BY <1>0, <2>2, <2>4 DEF Up
  <2> QED BY <1>0, <1>A, <2>2, <2>3, <2>4, <2>5
<1>3. CASE Started
  <2>1. Task(turn) \in Msg /\ Task(turn).kind \notin Selection
    BY <1>0, MessageTypes, MessageKinds DEF Selection
  <2>2. SelectedOnce(log') /\ Known(log') = Known(log)
    BY <1>0, <1>3, <2>1, KnownAppend DEF Started
  <2>3. /\ UNCHANGED <<pending, mailbox, hashes>> /\ pc = "starting" /\ pc' = "loop"
    BY <1>3 DEF Started
  <2> QED BY <1>0, <1>A, <2>2, <2>3 DEF Up
<1>4. CASE Request
  BY <1>4, <1>C DEF Request, Up
<1>5. CASE ModelCalls
  BY <1>5, <1>C DEF ModelCalls, Up
<1>6. CASE ModelAnswers
  BY <1>6, <1>C DEF ModelAnswers, Up
<1>7. CASE Guarded
  BY <1>7, <1>C DEF Guarded, Up
<1>8. CASE Accepted
  BY <1>8, <1>C DEF Accepted, Up
<1>9. CASE BeginTool
  BY <1>9, <1>C DEF BeginTool, Up
<1>10. CASE ToolReturns
  BY <1>10, <1>C DEF ToolReturns, Up
<1>11. CASE TurnFails
  BY <1>11, <1>C DEF TurnFails, Up
<1>12. CASE Finalize
  <2>1. /\ Closing(turn, messages) \in Seq(Msg)
        /\ \A i \in DOMAIN Closing(turn, messages) : Closing(turn, messages)[i].kind \notin Selection
    BY <1>0, ClosingType DEF Selection
  <2>2. SelectedOnce(log') /\ Known(log') = Known(log)
    BY <1>0, <1>12, <2>1, KnownConcat DEF Finalize
  <2>3. UNCHANGED <<pending, mailbox, hashes>> /\ pc \in {"completed", "failed"} /\ pc' # "down"
    BY <1>12 DEF Finalize
  <2> QED BY <1>0, <1>A, <2>2, <2>3 DEF Up
<1>13. CASE Compact
  BY <1>13, <1>C DEF Compact, Up
<1>14. CASE Ends
  <2>1. SelectedOnce(log')
    <3>1. CASE log' = log
      BY <1>0, <3>1
    <3>2. CASE \E k \in synced..Len(log) : log' = SubSeq(log, 1, k)
      <4>1. synced \in 0..Len(log)
        BY DEF Inv, TypeInv
      <4>2. PICK k \in 0..Len(log) : log' = SubSeq(log, 1, k)
        BY <1>0, <3>2, <4>1
      <4> QED BY <1>0, <4>2, KnownPrefix
    <3> QED BY <1>14, <3>1, <3>2 DEF Ends
  <2>2. pending' = <<>> /\ mailbox' = <<>> /\ ~Up'
    BY <1>14 DEF Ends, Up
  <2> QED BY <1>A, <1>B, <2>1, <2>2
<1>15. CASE Resume
  <2>1. /\ Objects(ToRestore(log)) \in Seq(Items) /\ IsInjective(Objects(ToRestore(log)))
        /\ ToSet(Objects(ToRestore(log))) \subseteq Known(log)
    BY <1>0, RestoreType, InjectiveRestore
  <2>2. SelectedOnce(log') /\ Known(log') = Known(log)
    <3>1. CASE log' = log
      BY <1>0, <3>1
    <3>2. CASE saved.point = "TERMINAL" /\ log' = log \o Closing(saved.turn, saved.messages)
      <4>1. saved.turn \in Nat /\ saved.messages \in Seq(Msg)
        BY <1>0, <3>2, NonePoint, ContextAssumption DEF SavedType, ContextAssumption
      <4>2. PICK t \in Seq(Msg) : log' = log \o t /\ \A i \in DOMAIN t : t[i].kind \notin Selection
        BY <3>2, <4>1, ClosingType DEF Selection
      <4> QED BY <1>0, <4>2, KnownConcat
    <3> QED BY <1>15, <3>1, <3>2 DEF Resume
  <2>3. /\ hashes' = Known(log) /\ pending' = Objects(ToRestore(log)) /\ mailbox' = <<>>
    BY <1>0, <1>15 DEF Resume
  <2>4. pc' # "down"
    BY <1>15 DEF Resume
  <2> QED BY <1>A, <1>B, <2>1, <2>2, <2>3, <2>4
<1>16. CASE Continue
  BY <1>16, <1>C DEF Continue, Up
<1>18. CASE LimitReached
  BY <1>18, <1>C DEF LimitReached, Up
<1>17. CASE UNCHANGED vars
  BY <1>17 DEF vars, Inv, WaitInv, Up
<1> QED BY <1>1, <1>2, <1>3, <1>4, <1>5, <1>6, <1>7, <1>8, <1>9, <1>10, <1>11, <1>12, <1>13,
           <1>14, <1>15, <1>16, <1>17, <1>18 DEF Next

LEMMA InvStep == Inv /\ [Next]_vars => Inv'
BY TypeStep, WaitStep, PcStep, SeenStep, CallsStep, SettledStep DEF Inv

\* The inductive invariant.
LEMMA Invariance == Spec => []Inv
BY InvInit, InvStep, PTL DEF Spec

\* Every variable has its type; no content waits twice, and nothing waits
\* that the digests do not know.
THEOREM TypeCorrect == Spec => []TypeOK
<1>1. Inv => TypeOK
  <2> SUFFICES ASSUME Inv PROVE TypeOK
    OBVIOUS
  <2>1. TypeInv /\ WaitInv /\ PcInv
    BY DEF Inv
  <2>2. saved.point \in Point \cup {"NONE"}
    BY <2>1, NonePoint DEF TypeInv, SavedType
  <2> QED BY <2>1, <2>2 DEF TypeOK, TypeInv, WaitInv, PcInv, Point
<1> QED BY <1>1, Invariance, PTL

\* No compaction, after a turn or at a restart, takes the call from before a
\* result.
THEOREM ResultsKeepCalls == Spec => []ResultsFollowCalls
<1>1. Inv => ResultsFollowCalls
  BY DEF Inv, CallsInv, ResultsFollowCalls
<1> QED BY <1>1, Invariance, PTL

-----------------------------------------------------------------------------
(* No selected content is lost.                                            *)

\* Where a selected content is.
Where == seen \cup ToSet(pending) \cup ToSet(mailbox) \cup Logged("injected")
            \cup Contents(summary) \cup Contents(messages)

\* A longer log names all that a shorter one names.
LEMMA LoggedConcat ==
    ASSUME NEW t \in Seq(Msg), log \in Seq(Msg), log' = log \o t
    PROVE  /\ Logged("injected") \subseteq Logged("injected")'
           /\ \A x : Entry("injected", x) \in ToSet(log') => x \in Logged("injected")'
<1>1. ToSet(log') = ToSet(log) \cup ToSet(t)
  BY ToSetConcat
<1>2. \A x : Entry("injected", x).kind = "injected" /\ Entry("injected", x).of = x
  BY MessageKinds
<1> QED BY <1>1, <1>2 DEF Logged

LEMMA SelectedInit == Init => SelectedKept
BY DEF Init, SelectedKept

LEMMA SelectedStep == Inv /\ Inv' /\ SelectedKept /\ [Next]_vars => SelectedKept'
<1> SUFFICES ASSUME Inv, Inv', SelectedKept, [Next]_vars PROVE SelectedKept'
  OBVIOUS
<1>0. /\ messages \in Seq(Msg) /\ summary \in Seq(Msg) /\ log \in Seq(Msg)
      /\ mailbox \in Seq(Items) /\ pending \in Seq(Items) /\ turn \in Nat
      /\ saved # None => saved \in SavedType
      /\ messages' \in Seq(Msg) /\ summary' \in Seq(Msg)
  BY DEF Inv, TypeInv
<1> USE DEF stateVars, contextVars, rolloutVars, dbVars, ghosts
<1>A. Up => hashes \subseteq Where
  BY <1>0, ContentsConcat DEF SelectedKept, Where
<1>B. (Up' => hashes' \subseteq Where') => SelectedKept'
  <2>1. Contents(summary' \o messages') = Contents(summary') \cup Contents(messages')
    BY <1>0, ContentsConcat
  <2> QED BY <2>1 DEF SelectedKept, Where
\* It is enough that every place passes its contents on.
<1>C. ASSUME Up, UNCHANGED hashes,
             seen \subseteq Where', ToSet(pending) \subseteq Where', ToSet(mailbox) \subseteq Where',
             Logged("injected") \subseteq Where',
             Contents(summary) \subseteq Where', Contents(messages) \subseteq Where'
      PROVE  SelectedKept'
  BY <1>A, <1>B, <1>C DEF Where
<1>D. ASSUME UNCHANGED log PROVE Logged("injected") \subseteq Where'
  BY <1>D DEF Where, Logged
<1>E. /\ seen \subseteq seen' => seen \subseteq Where'
      /\ UNCHANGED pending => ToSet(pending) \subseteq Where'
      /\ UNCHANGED mailbox => ToSet(mailbox) \subseteq Where'
      /\ UNCHANGED summary => Contents(summary) \subseteq Where'
      /\ UNCHANGED messages => Contents(messages) \subseteq Where'
  BY DEF Where
<1>F. ASSUME NEW t \in Seq(Msg), messages' = messages \o t
      PROVE  Contents(messages) \subseteq Where' /\ Contents(t) \subseteq Where'
  BY <1>0, <1>F, ContentsConcat DEF Where
<1>G. Drained \in Seq(Msg) /\ ToSet(mailbox) \subseteq Contents(Drained)
  <2>1. \A x : Steer(x).kind = "steer" /\ Steer(x).of = x
    BY MessageKinds
  <2> QED BY <1>0, <2>1, DrainedType DEF Contents
<1>1. CASE Select
  <2>1. PICK x \in Items \ hashes :
          /\ hashes' = hashes \cup {x}
          /\ \/ mailbox' = Append(mailbox, x) /\ pending' = pending
                /\ log' = Append(log, Entry("steered", x))
             \/ pending' = Append(pending, x) /\ mailbox' = mailbox
                /\ log' = Append(log, Entry("queued", x))
    BY <1>1 DEF Select
  <2>2. PICK t \in Seq(Msg) : log' = log \o t
    <3>1. PICK e \in Msg : log' = Append(log, e)
      BY <2>1, MessageTypes
    <3>2. log' = log \o <<e>> /\ <<e>> \in Seq(Msg)
      BY <1>0, <3>1
    <3> QED BY <3>2
  <2>3. /\ ToSet(Append(pending, x)) = ToSet(pending) \cup {x}
        /\ ToSet(Append(mailbox, x)) = ToSet(mailbox) \cup {x}
    BY <1>0, ToSetAppend
  <2>4. Logged("injected") \subseteq Logged("injected")'
    BY <1>0, <2>2, LoggedConcat
  <2>5. UNCHANGED <<seen, summary, messages>> /\ Up
    BY <1>1 DEF Select
  <2>6. /\ ToSet(pending) \subseteq ToSet(pending') /\ ToSet(mailbox) \subseteq ToSet(mailbox')
        /\ x \in ToSet(pending') \cup ToSet(mailbox')
    BY <2>1, <2>3
  <2>7. Where \cup {x} \subseteq Where'
    BY <2>4, <2>5, <2>6 DEF Where
  <2> QED BY <1>A, <1>B, <2>1, <2>5, <2>7
<1>2. CASE StartTurn
  <2> DEFINE b == [i \in DOMAIN Fitting |-> Entry("injected", Fitting[i])]
             a == [i \in DOMAIN Fitting |-> External(Fitting[i])]
  <2>1. /\ b \in Seq(Msg) /\ a \in Seq(Msg)
        /\ \A x \in ToSet(Fitting) : Entry("injected", x) \in ToSet(b)
    BY <1>0, StartType
  <2>2. log' = log \o b /\ messages' = messages \o <<Task(turn')>> \o a
    BY <1>2 DEF StartTurn
  <2> HIDE DEF a, b
  <2>3. Logged("injected") \subseteq Logged("injected")' /\ ToSet(Fitting) \subseteq Logged("injected")'
    <3>1. ToSet(log') = ToSet(log) \cup ToSet(b)
      BY <1>0, <2>1, <2>2, ToSetConcat
    <3> QED BY <1>0, <2>1, <2>2, <3>1, LoggedConcat
  <2>4. ToSet(pending) \subseteq ToSet(pending') \cup ToSet(Fitting)
    <3>1. pending' = Kept(pending, ToSet(pending) \ ToSet(Fitting))
      BY <1>2 DEF StartTurn
    <3>2. ToSet(pending') = ToSet(pending) \cap (ToSet(pending) \ ToSet(Fitting))
      BY <1>0, <3>1, ToSetKept
    <3> QED BY <3>2
  <2>5. PICK t \in Seq(Msg) : messages' = messages \o t
    <3>1. Task(turn') \in Msg
      <4>1. turn' \in Nat
        BY <1>2 DEF StartTurn, Inv, TypeInv
      <4> QED BY <4>1, MessageTypes
    <3>2. messages' = messages \o (<<Task(turn')>> \o a) /\ <<Task(turn')>> \o a \in Seq(Msg)
      BY <1>0, <2>1, <2>2, <3>1
    <3> QED BY <3>2
  <2>6. UNCHANGED <<seen, summary, mailbox, hashes>> /\ Up
    BY <1>2 DEF StartTurn, Up
  <2>7. ToSet(pending) \subseteq Where' /\ Logged("injected") \subseteq Where'
    BY <2>3, <2>4 DEF Where
  <2>8. Contents(messages) \subseteq Where'
    BY <2>5, <1>F
  <2> QED BY <1>C, <1>E, <2>6, <2>7, <2>8
<1>3. CASE Started
  <2>1. PICK t \in Seq(Msg) : log' = log \o t
    <3>1. log' = Append(log, Task(turn)) /\ Task(turn) \in Msg
      BY <1>0, <1>3, MessageTypes DEF Started
    <3>2. log' = log \o <<Task(turn)>> /\ <<Task(turn)>> \in Seq(Msg)
      BY <1>0, <3>1
    <3> QED BY <3>2
  <2>2. Logged("injected") \subseteq Where'
    BY <1>0, <2>1, LoggedConcat DEF Where
  <2>3. UNCHANGED <<seen, summary, messages, pending, mailbox, hashes>> /\ Up
    BY <1>3 DEF Started, Up
  <2> QED BY <1>C, <1>E, <2>2, <2>3
<1>4. CASE Request
  <2>1. messages' = messages \o Drained
    BY <1>4 DEF Request
  <2>2. Contents(messages) \subseteq Where' /\ ToSet(mailbox) \subseteq Where'
    BY <1>F, <1>G, <2>1
  <2>3. UNCHANGED <<summary, pending, log, hashes>> /\ seen \subseteq seen' /\ Up
    BY <1>4 DEF Request, Up
  <2> QED BY <1>C, <1>D, <1>E, <2>2, <2>3
<1>5. CASE ModelCalls
  <2>1. PICK n \in Widths, r \in 1..MaxCalls : messages' = Append(messages, Calls(r, n))
    BY <1>5 DEF ModelCalls
  <2>2. Calls(r, n) \in Msg
    <3>1. n \in Nat /\ r \in Nat
      BY ContextAssumption DEF ContextAssumption
    <3> QED BY <3>1, MessageTypes
  <2>3. PICK t \in Seq(Msg) : messages' = messages \o t
    <3>1. messages' = messages \o <<Calls(r, n)>> /\ <<Calls(r, n)>> \in Seq(Msg)
      BY <1>0, <2>1, <2>2
    <3> QED BY <3>1
  <2>4. UNCHANGED <<seen, summary, pending, mailbox, log, hashes>> /\ Up
    BY <1>5 DEF ModelCalls, Up
  <2> QED BY <1>C, <1>D, <1>E, <1>F, <2>3, <2>4
<1>6. CASE ModelAnswers
  <2> DEFINE A == {i \in DOMAIN messages : messages[i].kind = "text" /\ messages[i].of = turn}
  <2>1. A \in SUBSET (1..Len(messages)) /\ Len(messages) \in Nat
    BY <1>0
  <2>2. Cardinality(A) \in Nat
    <3> HIDE DEF A
    <3> QED BY <2>1, RankBelow
  <2>3. messages' = Append(messages, Text(turn, Cardinality(A)))
    BY <1>6 DEF ModelAnswers
  <2> HIDE DEF A
  <2>4. PICK t \in Seq(Msg) : messages' = messages \o t
    <3>1. Text(turn, Cardinality(A)) \in Msg
      BY <1>0, <2>2, MessageTypes
    <3>2. messages' = messages \o <<Text(turn, Cardinality(A))>> /\ <<Text(turn, Cardinality(A))>> \in Seq(Msg)
      BY <1>0, <2>3, <3>1
    <3> QED BY <3>2
  <2>5. UNCHANGED <<seen, summary, pending, mailbox, log, hashes>> /\ Up
    BY <1>6 DEF ModelAnswers, Up
  <2> QED BY <1>C, <1>D, <1>E, <1>F, <2>4, <2>5
<1>7. CASE Guarded
  <2>1. PICK t \in Seq(Msg) : messages' = messages \o t
    <3>1. messages' = Append(messages, Note(turn)) /\ Note(turn) \in Msg
      BY <1>0, <1>7, MessageTypes DEF Guarded
    <3>2. messages' = messages \o <<Note(turn)>> /\ <<Note(turn)>> \in Seq(Msg)
      BY <1>0, <3>1
    <3> QED BY <3>2
  <2>2. UNCHANGED <<seen, summary, pending, mailbox, log, hashes>> /\ Up
    BY <1>7 DEF Guarded, Up
  <2> QED BY <1>C, <1>D, <1>E, <1>F, <2>1, <2>2
<1>8. CASE Accepted
  BY <1>8, <1>C, <1>D, <1>E DEF Accepted, Up
<1>9. CASE BeginTool
  BY <1>9, <1>C, <1>D, <1>E DEF BeginTool, Up
<1>10. CASE ToolReturns
  <2>1. PICK c \in todo : messages' = messages \o <<Result(c)>> \o Drained
    BY <1>10 DEF ToolReturns
  <2>2. Result(c) \in Msg
    BY MessageTypes DEF Inv, TypeInv
  <2>3. PICK m \in Seq(Msg) : m = <<Result(c)>>
    <3>1. <<Result(c)>> \in Seq(Msg)
      BY <2>2
    <3> QED BY <3>1
  <2>4. messages' = messages \o (m \o Drained) /\ m \o Drained \in Seq(Msg)
    BY <1>0, <1>G, <2>1, <2>3
  <2>5. Contents(messages) \subseteq Where' /\ ToSet(mailbox) \subseteq Where'
    <3>1. Contents(m \o Drained) = Contents(m) \cup Contents(Drained)
      BY <1>G, <2>3, ContentsConcat
    <3>2. Contents(messages) \subseteq Where' /\ Contents(m \o Drained) \subseteq Where'
      BY <1>F, <2>4
    <3> QED BY <1>G, <3>1, <3>2
  <2>6. UNCHANGED <<seen, summary, pending, log, hashes>> /\ Up
    BY <1>10 DEF ToolReturns, Up
  <2> QED BY <1>C, <1>D, <1>E, <2>5, <2>6
<1>11. CASE TurnFails
  BY <1>11, <1>C, <1>D, <1>E DEF TurnFails, Up
<1>12. CASE Finalize
  <2>1. log' = log \o Closing(turn, messages) /\ Closing(turn, messages) \in Seq(Msg)
    BY <1>0, <1>12, ClosingType DEF Finalize
  <2>2. Logged("injected") \subseteq Where'
    BY <1>0, <2>1, LoggedConcat DEF Where
  <2>3. UNCHANGED <<seen, summary, messages, pending, mailbox, hashes>> /\ Up
    BY <1>12 DEF Finalize, Up
  <2> QED BY <1>C, <1>E, <2>2, <2>3
<1>13. CASE Compact
  <2>1. CASE UNCHANGED <<messages, summary, record, settled>>
    BY <1>13, <2>1, <1>C, <1>D, <1>E DEF Compact, Up
  <2>2. CASE ~UNCHANGED <<messages, summary, record, settled>>
    <3>1. /\ Boundary(messages, Retain) # 0
          /\ summary' = Compactable(Old(messages)) /\ messages' = Compacted(messages)
      BY <1>13, <2>2 DEF Compact
    <3>2. Contents(messages) \subseteq Contents(summary' \o messages')
      BY <1>0, <3>1, CompactedContents
    <3>3. Contents(messages) \subseteq Where'
      BY <1>0, <3>2, ContentsConcat DEF Where
    <3>4. Contents(summary) \subseteq seen
      BY <1>13 DEF Compact, Inv, PcInv, SeenInv
    <3>5. UNCHANGED <<seen, pending, mailbox, log, hashes>> /\ Up
      BY <1>13 DEF Compact, Up
    <3>6. Contents(summary) \subseteq Where' /\ seen \subseteq Where'
      BY <3>4, <3>5 DEF Where
    <3> QED BY <1>C, <1>D, <1>E, <3>3, <3>5, <3>6
  <2> QED BY <2>1, <2>2
<1>14. CASE Ends
  <2>1. ~Up'
    BY <1>14 DEF Ends, Up
  <2> QED BY <1>B, <2>1
<1>15. CASE Resume
  <2>1. PICK t \in Seq(Msg) : log' = log \o t
    <3>1. CASE log' = log
      <4>1. log' = log \o <<>> /\ <<>> \in Seq(Msg)
        BY <1>0, <3>1
      <4> QED BY <4>1
    <3>2. CASE saved.point = "TERMINAL" /\ log' = log \o Closing(saved.turn, saved.messages)
      <4>1. saved.turn \in Nat /\ saved.messages \in Seq(Msg)
        BY <1>0, <3>2, NonePoint, ContextAssumption DEF SavedType, ContextAssumption
      <4> QED BY <3>2, <4>1, ClosingType
    <3> QED BY <1>15, <3>1, <3>2 DEF Resume
  <2>2. hashes' = Known(log) /\ pending' = Objects(ToRestore(log))
    BY <1>15 DEF Resume
  <2>3. ASSUME NEW x \in hashes' PROVE x \in Where'
    <3>1. PICK e \in ToSet(log) : e.kind \in {"queued", "steered"} /\ e.of = x
      BY <2>2 DEF Known
    <3>2. CASE Entry("injected", x) \in ToSet(log)
      <4>1. Entry("injected", x) \in ToSet(log')
        BY <1>0, <2>1, <3>2, ToSetConcat
      <4>2. x \in Logged("injected")'
        BY <1>0, <2>1, <4>1, LoggedConcat
      <4> QED BY <4>2 DEF Where
    <3>3. CASE Entry("injected", x) \notin ToSet(log)
      <4>1. x \in ToSet(Objects(ToRestore(log)))
        BY <1>0, <3>1, <3>3, RestoreType
      <4> QED BY <2>2, <4>1 DEF Where
    <3> QED BY <3>2, <3>3
  <2> QED BY <1>B, <2>3
<1>16. CASE Continue
  <2>1. messages' = messages \o Drained
    BY <1>16 DEF Continue
  <2>2. Contents(messages) \subseteq Where' /\ ToSet(mailbox) \subseteq Where'
    BY <1>F, <1>G, <2>1
  <2>3. UNCHANGED <<seen, summary, pending, log, hashes>> /\ Up
    BY <1>16 DEF Continue, Up
  <2> QED BY <1>C, <1>D, <1>E, <2>2, <2>3
<1>18. CASE LimitReached
  <2>1. UNCHANGED <<seen, summary, pending, log, hashes>> /\ Up
    BY <1>18 DEF LimitReached, Up
  <2>2. CASE UNCHANGED <<messages, mailbox>>
    BY <1>C, <1>D, <1>E, <2>1, <2>2
  <2>3. CASE messages' = messages \o Drained
    <3>1. Contents(messages) \subseteq Where' /\ ToSet(mailbox) \subseteq Where'
      BY <1>F, <1>G, <2>3
    <3> QED BY <1>C, <1>D, <1>E, <2>1, <3>1
  <2> QED BY <1>18, <2>2, <2>3 DEF LimitReached
<1>17. CASE UNCHANGED vars
  <2>1. Up' => Up
    BY <1>17 DEF vars, Up
  <2>2. UNCHANGED <<seen, summary, messages, pending, mailbox, log, hashes>>
    BY <1>17 DEF vars
  <2>3. CASE Up
    BY <1>C, <1>D, <1>E, <2>2, <2>3
  <2>4. CASE ~Up
    BY <1>B, <2>1, <2>4
  <2> QED BY <2>3, <2>4
<1> QED BY <1>1, <1>2, <1>3, <1>4, <1>5, <1>6, <1>7, <1>8, <1>9, <1>10, <1>11, <1>12, <1>13,
           <1>14, <1>15, <1>16, <1>17, <1>18 DEF Next

\* A content that may not be selected again was sent to the model, waits for
\* it, or is on record as part of a turn.
THEOREM SelectedNotLost == Spec => []SelectedKept
BY SelectedInit, SelectedStep, Invariance, PTL DEF Spec

=============================================================================
