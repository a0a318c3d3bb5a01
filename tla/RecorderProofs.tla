---------------------------- MODULE RecorderProofs ----------------------------
(***************************************************************************)
(* Proofs about Recorder, for any sources, every limit and any number of   *)
(* batches, failures, crashes and openings.                                *)
(***************************************************************************)
EXTENDS Recorder, FiniteSetTheorems, SequenceTheorems, WellFoundedInduction, TLAPS

RecordSet == [id : 1..MaxId, secret : BOOLEAN, masked : BOOLEAN]
SegmentSet == [recs : Seq(RecordSet), torn : BOOLEAN, synced : Nat, linked : BOOLEAN]
KeySets == {keys \in SUBSET Sources : IsFiniteSet(keys)}
MetaSet == [last : 0..MaxId, keys : KeySets, closed : BOOLEAN, pending : BOOLEAN,
            writer : BOOLEAN, bytes : Nat]
RecorderSet == [last : 0..MaxId, keys : KeySets, closed : BOOLEAN, pending : BOOLEAN,
                writer : BOOLEAN, file : BOOLEAN, sizes : Seq(Nat), bytes : Int,
                metaBytes : Nat]
EntrySet == [id : Nat, line : Lines, secret : BOOLEAN]
Phases == {"none", "opening", "repair", "idle", "intent", "entries", "checkpoint", "closing"}

RecorderTypeOK ==
    /\ meta \in MetaSet /\ durable \in MetaSet
    /\ segs \in Seq(SegmentSet)
    /\ rec \in RecorderSet
    /\ pc \in Phases
    /\ todo \in Seq(EntrySet)
    /\ truth \in SUBSET Sources /\ acked \in SUBSET Nat
    /\ gone \in 0..MaxId /\ opens \in Nat

\* A recorder is open; while it is closing it is not.
Live == pc \notin {"none", "closing"}

\* The entries of a batch follow the last record; a current segment exists.
PhaseOK ==
    /\ pc \notin {"intent", "entries"} => todo = <<>>
    /\ rec.last + Len(todo) <= MaxId
    /\ \A i \in DOMAIN todo : todo[i].id = rec.last + i
    /\ Live => rec.writer
    /\ pc # "none" => Len(rec.sizes) = Len(segs) /\ (rec.file => segs # <<>>)

\* The records of a segment ascend, what was synced is there, and no secret is plain.
SegmentOK(s) ==
    /\ \A i, j \in DOMAIN s.recs : i < j => s.recs[i].id < s.recs[j].id
    /\ s.synced <= Len(s.recs)
    /\ \A i \in DOMAIN s.recs : s.recs[i].secret => s.recs[i].masked

\* Pairs of segments of which the first is the older one.
Before ==
    {p \in SegmentSet \X SegmentSet :
        \A i \in DOMAIN p[1].recs, j \in DOMAIN p[2].recs : p[1].recs[i].id < p[2].recs[j].id}

SegmentsOK(ss) ==
    /\ \A a \in DOMAIN ss : SegmentOK(ss[a])
    /\ \A a, b \in DOMAIN ss : a < b => <<ss[a], ss[b]>> \in Before

Delimits(t, j, s) == t[j].line.source = s /\ t[j].line.text # "plain"

\* After n entries of t the source s is inside a key, if it was in those of keys before.
Inside(keys, t, n, s) ==
    \/ s \in keys /\ \A j \in 1..n : ~Delimits(t, j, s)
    \/ \E j \in 1..n : /\ Delimits(t, j, s) /\ t[j].line.text = "begin"
                       /\ \A k \in (j + 1)..n : ~Delimits(t, k, s)

\* A redactor that is not closed knows the open keys, and with them the secrets to come.
KeysOK ==
    Live /\ ~rec.closed =>
        /\ \A s \in Sources : s \in truth <=> Inside(rec.keys, todo, Len(todo), s)
        /\ \A i \in DOMAIN todo : todo[i].secret =>
              todo[i].line.text = "begin" \/ Inside(rec.keys, todo, i - 1, todo[i].line.source)

\* A session.json that is not doubtful by itself tells the open keys.
Exact(m) == m.closed \/ m.pending \/ m.writer \/ m.keys = truth

MetaOK ==
    /\ Exact(meta) /\ Exact(durable)
    /\ Live /\ pc # "opening" => meta.writer /\ durable.writer

\* The last ID is not before any acknowledged one, or any on disk.
LastOK ==
    /\ \A id \in acked : id <= meta.last /\ id <= durable.last
    /\ Live => meta.last <= rec.last /\ \A id \in IdsOf(segs) : id <= rec.last

\* A record that no crash takes away; one that is synced; one that the next sync covers.
Held(ss, id) ==
    \E a \in DOMAIN ss : ss[a].linked /\ \E i \in 1..ss[a].synced : ss[a].recs[i].id = id
Synced(ss, id) == \E a \in DOMAIN ss : \E i \in 1..ss[a].synced : ss[a].recs[i].id = id
Written(ss, id) ==
    \E a \in DOMAIN ss : \E i \in DOMAIN ss[a].recs :
        ss[a].recs[i].id = id /\ (i <= ss[a].synced \/ a = Len(ss))

AckedOK == \A id \in acked : id <= gone \/ Held(segs, id)

\* The records of the batch since the last checkpoint.
BatchOK ==
    /\ pc = "entries" /\ rec.last > meta.last => rec.file
    /\ \A id \in (meta.last + 1)..rec.last :
          /\ pc = "entries" => id <= gone \/ Written(segs, id)
          /\ pc = "checkpoint" => id <= gone \/ Synced(segs, id)

\* Unless a batch has failed the bytes are counted.
BytesOK ==
    Live /\ ~(pc = "idle" /\ rec.pending) =>
        /\ \A a \in DOMAIN segs : rec.sizes[a] = Size(segs[a])
        /\ rec.metaBytes = meta.bytes
        /\ rec.bytes = rec.metaBytes + Total(rec.sizes)
        /\ pc \in {"repair", "idle"} => rec.bytes <= MaxBytes

RecorderInv ==
    /\ RecorderTypeOK /\ PhaseOK /\ SegmentsOK(segs)
    /\ KeysOK /\ MetaOK /\ LastOK /\ AckedOK /\ BatchOK /\ BytesOK

---------------------------------------------------------------------------
(* Numbers and sequences.                                                  *)

\* A set with 0, and with the successor of each of its numbers, has all numbers.
LEMMA SetInduction ==
    ASSUME NEW S, 0 \in S, \A n \in Nat : n \in S => n + 1 \in S
    PROVE  Nat \subseteq S
  <1> SUFFICES ASSUME Nat \ S # {} PROVE FALSE
    OBVIOUS
  <1> DEFINE T == Nat \ S
  <1>1. PICK m \in T : \A k \in T : ~ (<<k, m>> \in OpToRel(<, Nat))
    BY NatLessThanWellFounded, WFMin
  <1>2. m \in Nat /\ m \notin S
    OBVIOUS
  <1>3. m # 0 /\ m - 1 \in Nat /\ (m - 1) + 1 = m
    BY <1>2
  <1>4. <<m - 1, m>> \in OpToRel(<, Nat)
    BY <1>3 DEF OpToRel
  <1>5. m - 1 \in S
    BY <1>1, <1>3, <1>4
  <1> QED BY <1>2, <1>3, <1>5

\* A set of numbers up to a bound has a greatest one.
LEMMA MaxOf ==
    ASSUME NEW b \in Nat, NEW S \in SUBSET (0..b), S # {}
    PROVE  Max(S) \in S /\ \A y \in S : y <= Max(S)
  <1> DEFINE P(n) == n <= b => ((\E x \in S : x >= b - n) => \E x \in S : \A y \in S : x >= y)
             T == {n \in Nat : P(n)}
  <1>1. 0 \in T
    OBVIOUS
  <1>2. ASSUME NEW n \in Nat, n \in T PROVE n + 1 \in T
    <2> SUFFICES ASSUME n + 1 <= b, NEW x \in S, x >= b - (n + 1)
                 PROVE  \E z \in S : \A y \in S : z >= y
      OBVIOUS
    <2>1. CASE \E z \in S : z >= b - n
      BY <1>2, <2>1
    <2>2. CASE \A z \in S : ~(z >= b - n)
      BY <2>2
    <2> QED BY <2>1, <2>2
  <1>3. Nat \subseteq T
    BY <1>1, <1>2, SetInduction
  <1>4. P(b)
    BY <1>3
  <1>5. \E x \in S : \A y \in S : x >= y
    <2>1. PICK x \in S : TRUE
      OBVIOUS
    <2>2. x >= b - b
      OBVIOUS
    <2> QED BY <1>4, <2>2
  <1>6. Max(S) \in S /\ \A y \in S : Max(S) >= y
    <2> DEFINE Q(x) == x \in S /\ \A y \in S : x >= y
    <2>1. \E x : Q(x)
      BY <1>5
    <2>2. Q(CHOOSE x : Q(x))
      BY <2>1
    <2>3. Max(S) = CHOOSE x \in S : \A y \in S : x >= y
      BY DEF Max
    <2> QED BY <1>5, <2>3
  <1> QED BY <1>6

\* The beginnings of a concatenation.
Flattens(ss, N, f) ==
    f = [n \in 1..N |-> IF n = 1 THEN ss[n] ELSE f[n - 1] \o ss[n]]

\* A concatenation is the last of its beginnings.
LEMMA FlattenSteps ==
    ASSUME NEW ss, Len(ss) \in Nat, Len(ss) # 0
    PROVE  \E f : Flattens(ss, Len(ss), f) /\ FlattenSeq(ss) = f[Len(ss)]
  <1> DEFINE N == Len(ss)
             S == {m \in Nat : \E f : Flattens(ss, m, f)}
  <1>1. 0 \in S
    <2> DEFINE f == [n \in 1..0 |-> ss[n]]
    <2>1. Flattens(ss, 0, f)
      BY DEF Flattens
    <2> QED BY <2>1
  <1>2. ASSUME NEW m \in Nat, m \in S PROVE m + 1 \in S
    <2>1. PICK f : Flattens(ss, m, f)
      BY <1>2
    <2> DEFINE last == IF m + 1 = 1 THEN ss[m + 1] ELSE f[m] \o ss[m + 1]
               g == [n \in 1..(m + 1) |-> IF n = m + 1 THEN last ELSE f[n]]
    <2>2. ASSUME NEW n \in 1..(m + 1)
          PROVE  g[n] = IF n = 1 THEN ss[n] ELSE g[n - 1] \o ss[n]
      <3>1. CASE n = m + 1
        <4>1. g[n] = last /\ (n # 1 => g[n - 1] = f[m])
          BY <3>1
        <4> QED BY <3>1, <4>1
      <3>2. CASE n # m + 1
        <4>1. n \in 1..m /\ g[n] = f[n] /\ (n # 1 => g[n - 1] = f[n - 1])
          BY <3>2
        <4>2. f[n] = IF n = 1 THEN ss[n] ELSE f[n - 1] \o ss[n]
          BY <2>1, <4>1 DEF Flattens
        <4> QED BY <4>1, <4>2
      <3> QED BY <3>1, <3>2
    <2>3. Flattens(ss, m + 1, g)
      <3>1. g = [n \in 1..(m + 1) |-> g[n]]
        OBVIOUS
      <3> HIDE DEF g
      <3> QED BY <2>2, <3>1, Zenon DEF Flattens
    <2> QED BY <2>3
  <1>3. Nat \subseteq S
    BY <1>1, <1>2, SetInduction
  <1> DEFINE f == CHOOSE f : Flattens(ss, N, f)
  <1>4. Flattens(ss, N, f)
    BY <1>3
  <1>5. FlattenSeq(ss) = f[N]
    BY DEF FlattenSeq, Flattens
  <1> QED BY <1>4, <1>5

\* An element of a concatenation of two sequences is one of the first or of the second.
LEMMA ConcatElements ==
    ASSUME NEW E, NEW u \in Seq(E), NEW v \in Seq(E), NEW w, w = u \o v
    PROVE  /\ w \in Seq(E) /\ Len(w) = Len(u) + Len(v)
           /\ \A i \in 1..Len(u) : i \in DOMAIN w /\ w[i] = u[i]
           /\ \A i \in 1..Len(v) : Len(u) + i \in DOMAIN w /\ w[Len(u) + i] = v[i]
           /\ \A i \in DOMAIN w :
                 i \in 1..Len(u) \/ (i - Len(u) \in 1..Len(v) /\ i = Len(u) + (i - Len(u)))
  <1>1. w \in Seq(E) /\ Len(w) = Len(u) + Len(v)
    BY ConcatProperties
  <1>2. DOMAIN w = 1..(Len(u) + Len(v))
    BY <1>1
  <1>3. Len(u) \in Nat /\ Len(v) \in Nat
    OBVIOUS
  <1>4. \A i \in 1..Len(u) : i \in DOMAIN w /\ w[i] = u[i]
    BY <1>2, <1>3, ConcatProperties
  <1>5. \A i \in 1..Len(v) : Len(u) + i \in DOMAIN w /\ w[Len(u) + i] = v[i]
    BY <1>2, <1>3, ConcatProperties
  <1>6. \A i \in DOMAIN w :
           i \in 1..Len(u) \/ (i - Len(u) \in 1..Len(v) /\ i = Len(u) + (i - Len(u)))
    BY <1>2, <1>3
  <1> QED BY <1>1, <1>4, <1>5, <1>6

\* The elements of each part, and the parts, are ordered by R.
Ordered(ss, R) ==
    /\ \A a \in DOMAIN ss : \A i, j \in DOMAIN ss[a] : i < j => <<ss[a][i], ss[a][j]>> \in R
    /\ \A a, b \in DOMAIN ss : a < b =>
          \A i \in DOMAIN ss[a], j \in DOMAIN ss[b] : <<ss[a][i], ss[b][j]>> \in R

\* A concatenation of parts that are ordered by R, each before the next, is ordered by R;
\* its elements are those of the parts.
LEMMA FlattenOrdered ==
    ASSUME NEW E, NEW ss \in Seq(Seq(E)), NEW R, Ordered(ss, R),
           NEW flat, flat = FlattenSeq(ss)
    PROVE  /\ flat \in Seq(E)
           /\ \A i, j \in DOMAIN flat : i < j => <<flat[i], flat[j]>> \in R
           /\ \A i \in DOMAIN flat : \E a \in DOMAIN ss : \E j \in DOMAIN ss[a] : flat[i] = ss[a][j]
           /\ \A a \in DOMAIN ss : \A j \in DOMAIN ss[a] : \E i \in DOMAIN flat : flat[i] = ss[a][j]
  <1>0. /\ \A a \in DOMAIN ss : \A i, j \in DOMAIN ss[a] : i < j => <<ss[a][i], ss[a][j]>> \in R
        /\ \A a, b \in DOMAIN ss : a < b =>
              \A i \in DOMAIN ss[a], j \in DOMAIN ss[b] : <<ss[a][i], ss[b][j]>> \in R
    BY DEF Ordered
  <1>1. CASE Len(ss) = 0
    <2>1. flat = ss /\ ss = <<>>
      BY <1>1 DEF FlattenSeq
    <2> QED BY <2>1
  <1>2. CASE Len(ss) # 0
    <2>1. Len(ss) \in Nat
      OBVIOUS
    <2>2. PICK f : Flattens(ss, Len(ss), f) /\ FlattenSeq(ss) = f[Len(ss)]
      BY <1>2, <2>1, FlattenSteps
    <2>3. f[1] = ss[1] /\ \A n \in 2..Len(ss) : f[n] = f[n - 1] \o ss[n]
      <3>1. \A n \in 1..Len(ss) : f[n] = IF n = 1 THEN ss[n] ELSE f[n - 1] \o ss[n]
        BY <2>2, Zenon DEF Flattens
      <3>2. 1 \in 1..Len(ss) /\ \A n \in 2..Len(ss) : n \in 1..Len(ss) /\ n # 1
        BY <1>2, <2>1
      <3> QED BY <3>1, <3>2, Zenon
    <2> DEFINE P(n) ==
            /\ f[n] \in Seq(E)
            /\ \A i, j \in DOMAIN f[n] : i < j => <<f[n][i], f[n][j]>> \in R
            /\ \A i \in DOMAIN f[n] : \E a \in 1..n : \E j \in DOMAIN ss[a] : f[n][i] = ss[a][j]
            /\ \A a \in 1..n : \A j \in DOMAIN ss[a] : \E i \in DOMAIN f[n] : f[n][i] = ss[a][j]
               S == {m \in Nat : m + 1 <= Len(ss) => P(m + 1)}
    <2>4. P(1)
      BY <1>0, <1>2, <2>1, <2>3
    <2>5. ASSUME NEW n \in Nat, n + 1 <= Len(ss), n # 0, P(n) PROVE P(n + 1)
      <3>1. f[n + 1] = f[n] \o ss[n + 1] /\ ss[n + 1] \in Seq(E) /\ n + 1 \in DOMAIN ss
        <4>1. n + 1 \in 2..Len(ss) /\ (n + 1) - 1 = n
          BY <2>1, <2>5
        <4>2. f[n + 1] = f[n] \o ss[n + 1]
          BY <2>3, <4>1, Zenon
        <4>3. n + 1 \in DOMAIN ss
          BY <4>1
        <4> QED BY <4>2, <4>3
      <3> DEFINE u == f[n]
                 v == ss[n + 1]
                 w == f[n + 1]
      <3>2. u \in Seq(E) /\ v \in Seq(E) /\ w = u \o v
        BY <2>5, <3>1
      <3>3. /\ \A i, j \in DOMAIN u : i < j => <<u[i], u[j]>> \in R
            /\ \A i \in DOMAIN u : \E a \in 1..n : \E j \in DOMAIN ss[a] : u[i] = ss[a][j]
            /\ \A a \in 1..n : \A j \in DOMAIN ss[a] : \E i \in DOMAIN u : u[i] = ss[a][j]
        BY <2>5
      <3>4. \A i, j \in DOMAIN v : i < j => <<v[i], v[j]>> \in R
        BY <1>0, <3>1
      <3>5. \A a \in 1..n : a \in DOMAIN ss /\ a < n + 1
        BY <2>1, <2>5
      <3>6. ASSUME NEW i \in DOMAIN u, NEW j \in DOMAIN v PROVE <<u[i], v[j]>> \in R
        <4>1. PICK a \in 1..n : \E k \in DOMAIN ss[a] : u[i] = ss[a][k]
          BY <3>3
        <4>2. PICK k \in DOMAIN ss[a] : u[i] = ss[a][k]
          BY <4>1
        <4>3. <<ss[a][k], ss[n + 1][j]>> \in R
          BY <1>0, <3>1, <3>5
        <4> QED BY <4>2, <4>3
      <3> HIDE DEF u, v, w
      <3>7. DOMAIN u = 1..Len(u) /\ DOMAIN v = 1..Len(v) /\ Len(u) \in Nat /\ Len(v) \in Nat
        BY <3>2
      <3>8. /\ w \in Seq(E)
            /\ \A i \in 1..Len(u) : i \in DOMAIN w /\ w[i] = u[i]
            /\ \A i \in 1..Len(v) : Len(u) + i \in DOMAIN w /\ w[Len(u) + i] = v[i]
            /\ \A i \in DOMAIN w :
                  i \in 1..Len(u) \/ (i - Len(u) \in 1..Len(v) /\ i = Len(u) + (i - Len(u)))
        BY <3>2, ConcatElements
      <3>9. ASSUME NEW i \in DOMAIN w, NEW j \in DOMAIN w, i < j PROVE <<w[i], w[j]>> \in R
        <4>1. CASE j \in 1..Len(u)
          <5>1. i \in 1..Len(u)
            BY <3>7, <3>8, <3>9, <4>1
          <5> QED BY <3>3, <3>7, <3>8, <3>9, <4>1, <5>1
        <4>2. CASE j \notin 1..Len(u) /\ i \in 1..Len(u)
          <5>1. w[j] = v[j - Len(u)] /\ j - Len(u) \in 1..Len(v)
            BY <3>8, <4>2
          <5> QED BY <3>6, <3>7, <3>8, <4>2, <5>1
        <4>3. CASE i \notin 1..Len(u) /\ j \notin 1..Len(u)
          <5>1. w[j] = v[j - Len(u)] /\ j - Len(u) \in 1..Len(v)
            BY <3>8, <4>3
          <5>2. w[i] = v[i - Len(u)] /\ i - Len(u) \in 1..Len(v)
            BY <3>8, <4>3
          <5>3. i - Len(u) < j - Len(u)
            BY <3>7, <3>8, <3>9, <4>3
          <5> QED BY <3>4, <3>7, <5>1, <5>2, <5>3
        <4> QED BY <4>1, <4>2, <4>3
      <3>10. ASSUME NEW i \in DOMAIN w
             PROVE  \E a \in 1..(n + 1) : \E j \in DOMAIN ss[a] : w[i] = ss[a][j]
        <4>1. CASE i \in 1..Len(u)
          <5>1. PICK a \in 1..n : \E j \in DOMAIN ss[a] : u[i] = ss[a][j]
            BY <3>3, <3>7, <4>1
          <5>2. a \in 1..(n + 1)
            BY <5>1
          <5> QED BY <3>8, <4>1, <5>1, <5>2
        <4>2. CASE i \notin 1..Len(u)
          <5>1. w[i] = v[i - Len(u)] /\ i - Len(u) \in DOMAIN v
            BY <3>7, <3>8, <4>2
          <5>2. n + 1 \in 1..(n + 1)
            OBVIOUS
          <5> QED BY <5>1, <5>2 DEF v
        <4> QED BY <4>1, <4>2
      <3>11. ASSUME NEW a \in 1..(n + 1), NEW j \in DOMAIN ss[a]
             PROVE  \E i \in DOMAIN w : w[i] = ss[a][j]
        <4>1. CASE a \in 1..n
          <5>1. PICK i \in DOMAIN u : u[i] = ss[a][j]
            BY <3>3, <4>1
          <5> QED BY <3>7, <3>8, <5>1
        <4>2. CASE a \notin 1..n
          <5>1. a = n + 1
            BY <4>2
          <5>2. j \in 1..Len(v) /\ v[j] = ss[a][j]
            BY <3>7, <5>1 DEF v
          <5> QED BY <3>8, <5>2
        <4> QED BY <4>1, <4>2
      <3> QED BY <3>8, <3>9, <3>10, <3>11 DEF w
    <2> HIDE DEF P
    <2>6. 0 \in S
      BY <2>4
    <2>7. ASSUME NEW m \in Nat, m \in S PROVE m + 1 \in S
      <3> SUFFICES ASSUME (m + 1) + 1 <= Len(ss) PROVE P((m + 1) + 1)
        OBVIOUS
      <3>1. P(m + 1) /\ m + 1 # 0 /\ m + 1 \in Nat
        BY <2>1, <2>7
      <3> QED BY <2>5, <3>1
    <2>8. Nat \subseteq S
      BY <2>6, <2>7, SetInduction
    <2>9. P(Len(ss))
      <3>1. PICK m \in Nat : m + 1 = Len(ss)
        <4>1. Len(ss) - 1 \in Nat /\ (Len(ss) - 1) + 1 = Len(ss)
          BY <1>2, <2>1
        <4> QED BY <4>1
      <3>2. m \in S /\ m + 1 <= Len(ss)
        BY <2>1, <2>8, <3>1
      <3>3. P(m + 1)
        BY <3>2
      <3> QED BY <3>1, <3>3
    <2>10. DOMAIN ss = 1..Len(ss) /\ flat = f[Len(ss)]
      BY <2>2
    <2>11. flat \in Seq(E) /\ \A i, j \in DOMAIN flat : i < j => <<flat[i], flat[j]>> \in R
      BY <2>9, <2>10 DEF P
    <2>12. \A i \in DOMAIN flat : \E a \in DOMAIN ss : \E j \in DOMAIN ss[a] : flat[i] = ss[a][j]
      <3> SUFFICES ASSUME NEW i \in DOMAIN flat
                   PROVE  \E a \in DOMAIN ss : \E j \in DOMAIN ss[a] : flat[i] = ss[a][j]
        OBVIOUS
      <3>1. PICK a \in 1..Len(ss) : \E j \in DOMAIN ss[a] : f[Len(ss)][i] = ss[a][j]
        BY <2>9, <2>10 DEF P
      <3>2. PICK j \in DOMAIN ss[a] : flat[i] = ss[a][j]
        BY <2>10, <3>1
      <3> QED BY <2>10, <3>1, <3>2
    <2>13. \A a \in DOMAIN ss : \A j \in DOMAIN ss[a] : \E i \in DOMAIN flat : flat[i] = ss[a][j]
      BY <2>9, <2>10 DEF P
    <2> QED BY <2>11, <2>12, <2>13
  <1> QED BY <1>1, <1>2

\* The sums of the beginnings of a sequence of numbers.
Sums(sizes, N, sum) == sum = [n \in 0..N |-> IF n = 0 THEN 0 ELSE sum[n - 1] + sizes[n]]

\* The sums exist up to any length.
LEMMA SumsExist ==
    ASSUME NEW sizes, NEW N \in Nat
    PROVE  \E sum : Sums(sizes, N, sum)
  <1> DEFINE S == {m \in Nat : \E sum : Sums(sizes, m, sum)}
  <1>1. 0 \in S
    <2> DEFINE f == [n \in 0..0 |-> 0]
    <2>1. Sums(sizes, 0, f)
      BY DEF Sums
    <2> QED BY <2>1
  <1>2. ASSUME NEW m \in Nat, m \in S PROVE m + 1 \in S
    <2>1. PICK f : Sums(sizes, m, f)
      BY <1>2
    <2> DEFINE last == f[m] + sizes[m + 1]
               g == [n \in 0..(m + 1) |-> IF n = m + 1 THEN last ELSE f[n]]
    <2>2. ASSUME NEW n \in 0..(m + 1)
          PROVE  g[n] = IF n = 0 THEN 0 ELSE g[n - 1] + sizes[n]
      <3>1. CASE n = m + 1
        <4>1. g[n] = last /\ n # 0 /\ g[n - 1] = f[m]
          BY <3>1
        <4> QED BY <3>1, <4>1
      <3>2. CASE n # m + 1
        <4>1. n \in 0..m /\ g[n] = f[n] /\ (n # 0 => g[n - 1] = f[n - 1])
          BY <3>2
        <4>2. f[n] = IF n = 0 THEN 0 ELSE f[n - 1] + sizes[n]
          BY <2>1, <4>1 DEF Sums
        <4> QED BY <4>1, <4>2
      <3> QED BY <3>1, <3>2
    <2>3. Sums(sizes, m + 1, g)
      <3>1. g = [n \in 0..(m + 1) |-> g[n]]
        OBVIOUS
      <3> HIDE DEF g
      <3> QED BY <2>2, <3>1, Zenon DEF Sums
    <2> QED BY <2>3
  <1>3. Nat \subseteq S
    BY <1>1, <1>2, SetInduction
  <1> QED BY <1>3

\* Whatever adds up like the sums of a sequence ends with its total.
LEMMA TotalBy ==
    ASSUME NEW sizes, Len(sizes) \in Nat, NEW g, g[0] = 0,
           \A n \in 1..Len(sizes) : g[n] = g[n - 1] + sizes[n]
    PROVE  Total(sizes) = g[Len(sizes)]
  <1> DEFINE N == Len(sizes)
             f == CHOOSE sum : Sums(sizes, N, sum)
             S == {n \in Nat : n <= N => f[n] = g[n]}
  <1>1. Sums(sizes, N, f)
    BY SumsExist
  <1>2. Total(sizes) = f[N]
    BY DEF Total, Sums
  <1> HIDE DEF f
  <1>3. \A n \in 0..N : f[n] = IF n = 0 THEN 0 ELSE f[n - 1] + sizes[n]
    BY <1>1 DEF Sums
  <1>4. 0 \in S
    BY <1>3
  <1>5. ASSUME NEW n \in Nat, n \in S PROVE n + 1 \in S
    <2>1. n + 1 <= N => f[n + 1] = f[n] + sizes[n + 1] /\ g[n + 1] = g[n] + sizes[n + 1]
      <3> SUFFICES ASSUME n + 1 <= N
                   PROVE  f[n + 1] = f[n] + sizes[n + 1] /\ g[n + 1] = g[n] + sizes[n + 1]
        OBVIOUS
      <3>1. n + 1 \in 0..N /\ n + 1 \in 1..Len(sizes) /\ n + 1 # 0 /\ (n + 1) - 1 = n
        OBVIOUS
      <3> QED BY <1>3, <3>1
    <2> QED BY <1>5, <2>1
  <1>6. Nat \subseteq S
    BY <1>4, <1>5, SetInduction
  <1> QED BY <1>2, <1>6

\* The total of a sequence is that of its beginning and its end; one more size adds to it.
LEMMA TotalParts ==
    ASSUME NEW sizes \in Seq(Nat)
    PROVE  /\ Total(sizes) \in Nat
           /\ \A n \in 0..Len(sizes) :
                 Total(sizes) = Total(SubSeq(sizes, 1, n)) + Total(SubSeq(sizes, n + 1, Len(sizes)))
           /\ \A x \in Nat : Total(Append(sizes, x)) = Total(sizes) + x
  <1> DEFINE N == Len(sizes)
             g == CHOOSE sum : Sums(sizes, N, sum)
  <1>1. N \in Nat /\ \A n \in 1..N : sizes[n] \in Nat
    OBVIOUS
  <1>2. Sums(sizes, N, g)
    BY <1>1, SumsExist
  <1> HIDE DEF g
  <1>3. \A n \in 0..N : g[n] = IF n = 0 THEN 0 ELSE g[n - 1] + sizes[n]
    BY <1>2 DEF Sums
  <1>4. g[0] = 0 /\ \A n \in 1..N : g[n] = g[n - 1] + sizes[n]
    BY <1>1, <1>3
  <1>5. \A n \in 0..N : g[n] \in Nat
    <2> DEFINE S == {n \in Nat : n <= N => g[n] \in Nat}
    <2>1. 0 \in S
      BY <1>4
    <2>2. ASSUME NEW n \in Nat, n \in S PROVE n + 1 \in S
      <3>1. CASE n + 1 <= N
        <4>1. n + 1 \in 1..N /\ (n + 1) - 1 = n
          BY <1>1, <3>1
        <4>2. g[n + 1] = g[n] + sizes[n + 1]
          BY <1>4, <4>1
        <4>3. g[n] \in Nat /\ sizes[n + 1] \in Nat
          BY <1>1, <2>2, <3>1, <4>1
        <4> QED BY <4>2, <4>3
      <3> QED BY <1>1, <3>1
    <2>3. Nat \subseteq S
      BY <2>1, <2>2, SetInduction
    <2> QED BY <1>1, <2>3
  <1>6. Total(sizes) = g[N]
    BY <1>1, <1>4, TotalBy
  <1>7. ASSUME NEW n \in 0..N
        PROVE  Total(sizes) = Total(SubSeq(sizes, 1, n)) + Total(SubSeq(sizes, n + 1, N))
    <2> DEFINE a == SubSeq(sizes, 1, n)
               b == SubSeq(sizes, n + 1, N)
               h == [m \in 0..(N - n) |-> g[n + m] - g[n]]
    <2>1. Len(a) = n /\ \A m \in 1..n : a[m] = sizes[m]
      BY <1>1
    <2>2. Len(b) = N - n /\ \A m \in 1..(N - n) : b[m] = sizes[n + m]
      BY <1>1
    <2>3. Total(a) = g[n]
      <3>1. \A m \in 1..Len(a) : g[m] = g[m - 1] + a[m]
        BY <1>1, <1>4, <2>1
      <3>2. Len(a) \in Nat
        BY <1>1, <2>1
      <3> HIDE DEF a
      <3> QED BY <1>4, <2>1, <3>1, <3>2, TotalBy
    <2>4. Total(b) = h[N - n]
      <3>1. h[0] = 0
        BY <1>1, <1>5
      <3>2. ASSUME NEW m \in 1..(N - n) PROVE h[m] = h[m - 1] + b[m]
        <4>1. h[m] = g[n + m] - g[n] /\ h[m - 1] = g[n + (m - 1)] - g[n]
          BY <1>1
        <4>2. n + m \in 1..N /\ n + (m - 1) = (n + m) - 1 /\ n + (m - 1) \in 0..N
          BY <1>1
        <4>3. g[n + m] = g[n + (m - 1)] + sizes[n + m]
          BY <1>4, <4>2
        <4>4. g[n] \in Nat /\ g[n + m] \in Nat /\ g[n + (m - 1)] \in Nat /\ sizes[n + m] \in Nat
          BY <1>1, <1>5, <4>2
        <4>5. b[m] = sizes[n + m]
          BY <2>2
        <4> DEFINE y == g[n + m]
                   z == g[n + (m - 1)]
                   c == g[n]
                   s == sizes[n + m]
        <4>6. h[m] = y - c /\ h[m - 1] = z - c /\ y = z + s /\ b[m] = s
          BY <4>1, <4>3, <4>5
        <4>7. y \in Nat /\ z \in Nat /\ c \in Nat /\ s \in Nat
          BY <4>4
        <4> HIDE DEF b, h, y, z, c, s
        <4> QED BY <4>6, <4>7
      <3> HIDE DEF b, h
      <3>3. Len(b) \in Nat /\ \A m \in 1..Len(b) : h[m] = h[m - 1] + b[m]
        BY <1>1, <2>2, <3>2
      <3> QED BY <2>2, <3>1, <3>3, TotalBy
    <2>5. h[N - n] = g[N] - g[n] /\ g[N] \in Nat /\ g[n] \in Nat
      <3>1. N - n \in 0..(N - n) /\ n + (N - n) = N
        BY <1>1
      <3> QED BY <1>1, <1>5, <3>1
    <2> QED BY <1>6, <2>3, <2>4, <2>5
  <1>8. ASSUME NEW x \in Nat PROVE Total(Append(sizes, x)) = Total(sizes) + x
    <2> DEFINE more == Append(sizes, x)
               h == [m \in 0..(N + 1) |-> IF m = N + 1 THEN g[N] + x ELSE g[m]]
    <2>1. Len(more) = N + 1 /\ more[N + 1] = x /\ \A m \in 1..N : more[m] = sizes[m]
      BY <1>1
    <2>2. h[0] = 0 /\ h[N + 1] = g[N] + x
      BY <1>1, <1>4
    <2>3. ASSUME NEW m \in 1..(N + 1) PROVE h[m] = h[m - 1] + more[m]
      <3>1. h[m - 1] = g[m - 1]
        BY <1>1
      <3>2. CASE m = N + 1
        <4>1. h[m] = g[N] + x /\ m - 1 = N /\ more[m] = x
          BY <1>1, <2>1, <3>2
        <4> QED BY <3>1, <4>1
      <3>3. CASE m # N + 1
        <4>1. m \in 1..N /\ h[m] = g[m] /\ more[m] = sizes[m]
          BY <1>1, <2>1, <3>3
        <4> QED BY <1>4, <3>1, <4>1
      <3> QED BY <3>2, <3>3
    <2> HIDE DEF more, h
    <2>4. Len(more) \in Nat /\ \A m \in 1..Len(more) : h[m] = h[m - 1] + more[m]
      BY <1>1, <2>1, <2>3
    <2>5. Total(more) = h[N + 1]
      BY <2>1, <2>2, <2>4, TotalBy
    <2> QED BY <1>6, <2>2, <2>5 DEF more
  <1>9. Total(sizes) \in Nat
    BY <1>1, <1>5, <1>6
  <1> QED BY <1>7, <1>8, <1>9

---------------------------------------------------------------------------
(* Segments.                                                               *)

\* The records of a segment.
LEMMA SegmentFields ==
    ASSUME NEW s \in SegmentSet
    PROVE  /\ s.recs \in Seq(RecordSet) /\ Len(s.recs) \in Nat /\ DOMAIN s.recs = 1..Len(s.recs)
           /\ \A i \in DOMAIN s.recs : s.recs[i] \in RecordSet /\ s.recs[i].id \in 1..MaxId
           /\ s.torn \in BOOLEAN /\ s.synced \in Nat /\ s.linked \in BOOLEAN
           /\ Size(s) \in Nat
  <1>1. s.recs \in Seq(RecordSet) /\ s.torn \in BOOLEAN /\ s.synced \in Nat /\ s.linked \in BOOLEAN
    BY DEF SegmentSet
  <1>2. Len(s.recs) \in Nat /\ DOMAIN s.recs = 1..Len(s.recs)
    BY <1>1
  <1>3. \A i \in DOMAIN s.recs : s.recs[i] \in RecordSet
    BY <1>1
  <1>4. \A r \in RecordSet : r.id \in 1..MaxId
    BY DEF RecordSet
  <1>5. Size(s) \in Nat
    <2> DEFINE size == Len(s.recs)
    <2>1. Size(s) = IF s.torn THEN size + 1 ELSE size + 0
      BY DEF Size
    <2> HIDE DEF size
    <2> QED BY <1>2, <2>1 DEF size
  <1> QED BY <1>1, <1>2, <1>3, <1>4, <1>5

\* The IDs on disk are those of the records.
LEMMA IdsMember ==
    ASSUME NEW ss \in Seq(SegmentSet)
    PROVE  /\ IdsOf(ss) \in SUBSET (1..MaxId)
           /\ \A id : id \in IdsOf(ss) <=>
                 \E a \in DOMAIN ss : \E i \in DOMAIN ss[a].recs : ss[a].recs[i].id = id
  <1>1. \A id : id \in IdsOf(ss) <=>
           \E a \in DOMAIN ss : \E i \in DOMAIN ss[a].recs : ss[a].recs[i].id = id
    <2>1. \A id : id \in IdsOf(ss) <=> \E s \in ToSet(ss) : \E i \in DOMAIN s.recs : s.recs[i].id = id
      BY DEF IdsOf
    <2>2. \A s : s \in ToSet(ss) <=> \E a \in DOMAIN ss : s = ss[a]
      BY DEF ToSet
    <2> QED BY <2>1, <2>2
  <1>2. ASSUME NEW a \in DOMAIN ss, NEW i \in DOMAIN ss[a].recs
        PROVE  ss[a].recs[i].id \in 1..MaxId
    <2>1. ss[a] \in SegmentSet
      OBVIOUS
    <2> QED BY <2>1, SegmentFields
  <1>3. \A id : id \in IdsOf(ss) => id \in 1..MaxId
    BY <1>1, <1>2, Zenon
  <1> QED BY <1>1, <1>3

\* The last ID evicted is not before one of those evicted now or earlier.
LEMMA NewestBound ==
    ASSUME NEW ss \in Seq(SegmentSet), gone \in 0..MaxId
    PROVE  /\ Newest(ss) \in 0..MaxId /\ gone <= Newest(ss)
           /\ \A id \in IdsOf(ss) : id <= Newest(ss)
  <1> DEFINE S == {gone} \cup IdsOf(ss)
  <1>1. S \in SUBSET (0..MaxId) /\ S # {} /\ MaxId \in Nat
    BY IdsMember, RecorderAssumption
  <1>2. Max(S) \in S /\ \A y \in S : y <= Max(S)
    BY <1>1, MaxOf
  <1>3. Newest(ss) = Max(S)
    BY DEF Newest
  <1> QED BY <1>1, <1>2, <1>3

\* Segments with the same records, no less of them synced and linked, are as good.
LEMMA SameRecords ==
    ASSUME NEW ss \in Seq(SegmentSet), NEW tt \in Seq(SegmentSet), SegmentsOK(ss),
           Len(tt) = Len(ss),
           \A a \in 1..Len(ss) : /\ tt[a].recs = ss[a].recs
                                 /\ ss[a].synced <= tt[a].synced
                                 /\ tt[a].synced <= Len(ss[a].recs)
                                 /\ ss[a].linked => tt[a].linked
    PROVE  /\ SegmentsOK(tt) /\ IdsOf(tt) = IdsOf(ss)
           /\ \A id \in Nat : /\ Held(ss, id) => Held(tt, id)
                              /\ Synced(ss, id) => Synced(tt, id)
                              /\ Written(ss, id) => Written(tt, id)
  <1>1. DOMAIN ss = 1..Len(ss) /\ DOMAIN tt = 1..Len(ss) /\ Len(ss) \in Nat
    OBVIOUS
  <1>2. \A a \in 1..Len(ss) : ss[a] \in SegmentSet /\ tt[a] \in SegmentSet
    BY <1>1
  <1>3. \A a \in 1..Len(ss) : ss[a].synced \in Nat /\ tt[a].synced \in Nat
    BY <1>2, SegmentFields
  <1>4. \A a \in 1..Len(ss) : \A i \in 1..ss[a].synced : i \in 1..tt[a].synced
    BY <1>3
  <1>5. \A a \in 1..Len(ss) : SegmentOK(tt[a])
    <2> SUFFICES ASSUME NEW a \in 1..Len(ss) PROVE SegmentOK(tt[a])
      OBVIOUS
    <2>1. SegmentOK(ss[a])
      BY <1>1 DEF SegmentsOK
    <2> QED BY <2>1 DEF SegmentOK
  <1>6. ASSUME NEW a \in 1..Len(ss), NEW b \in 1..Len(ss), a < b
        PROVE  <<tt[a], tt[b]>> \in Before
    <2>1. <<ss[a], ss[b]>> \in Before
      BY <1>1, <1>6 DEF SegmentsOK
    <2>2. \A i \in DOMAIN ss[a].recs, j \in DOMAIN ss[b].recs : ss[a].recs[i].id < ss[b].recs[j].id
      BY <2>1 DEF Before
    <2>3. \A i \in DOMAIN tt[a].recs, j \in DOMAIN tt[b].recs : tt[a].recs[i].id < tt[b].recs[j].id
      BY <2>2
    <2> QED BY <1>2, <2>3 DEF Before
  <1>7. SegmentsOK(tt)
    BY <1>1, <1>5, <1>6 DEF SegmentsOK
  <1>8. \A id : id \in IdsOf(tt) <=> id \in IdsOf(ss)
    BY <1>1, IdsMember
  <1>9. ASSUME NEW id \in Nat PROVE Held(ss, id) => Held(tt, id)
    BY <1>1, <1>4 DEF Held
  <1>10. ASSUME NEW id \in Nat PROVE Synced(ss, id) => Synced(tt, id)
    BY <1>1, <1>4 DEF Synced
  <1>11. ASSUME NEW id \in Nat PROVE Written(ss, id) => Written(tt, id)
    <2> SUFFICES ASSUME Written(ss, id) PROVE Written(tt, id)
      OBVIOUS
    <2>1. PICK a \in 1..Len(ss) : \E i \in DOMAIN ss[a].recs :
             ss[a].recs[i].id = id /\ (i <= ss[a].synced \/ a = Len(ss))
      BY <1>1 DEF Written
    <2> PICK i \in DOMAIN ss[a].recs :
             ss[a].recs[i].id = id /\ (i <= ss[a].synced \/ a = Len(ss))
      BY <2>1
    <2>2. i \in 1..Len(ss[a].recs)
      BY <1>2, SegmentFields
    <2>3. i <= tt[a].synced \/ a = Len(tt)
      BY <1>3, <2>1, <2>2
    <2> QED BY <1>1, <2>1, <2>3 DEF Written
  <1> QED BY <1>7, <1>8, <1>9, <1>10, <1>11

\* What is left when the oldest segments are evicted.
LEMMA RestKeeps ==
    ASSUME NEW ss \in Seq(SegmentSet), SegmentsOK(ss), gone \in 0..MaxId, NEW n \in 0..Len(ss),
           NEW tt, tt = SubSeq(ss, n + 1, Len(ss)), NEW h, h = Newest(SubSeq(ss, 1, n))
    PROVE  /\ tt \in Seq(SegmentSet) /\ Len(tt) = Len(ss) - n
           /\ \A a \in 1..(Len(ss) - n) : tt[a] = ss[n + a]
           /\ SegmentsOK(tt) /\ IdsOf(tt) \subseteq IdsOf(ss)
           /\ h \in 0..MaxId /\ gone <= h
           /\ \A id \in Nat : /\ Held(ss, id) => Held(tt, id) \/ id <= h
                              /\ Synced(ss, id) => Synced(tt, id) \/ id <= h
                              /\ Written(ss, id) => Written(tt, id) \/ id <= h
  <1> DEFINE N == Len(ss)
             out == SubSeq(ss, 1, n)
  <1>1. N \in Nat /\ DOMAIN ss = 1..N /\ n \in Nat
    OBVIOUS
  <1>2. out \in Seq(SegmentSet) /\ Len(out) = n /\ \A a \in 1..n : out[a] = ss[a]
    BY <1>1
  <1>3. tt \in Seq(SegmentSet) /\ Len(tt) = N - n /\ \A a \in 1..(N - n) : tt[a] = ss[n + a]
    <2>1. tt \in Seq(SegmentSet)
      BY <1>1
    <2>2. Len(tt) = N - n
      <3>1. /\ n + 1 \in Int /\ N \in Int /\ n <= N
            /\ \A i \in (n + 1)..N : ss[i] \in SegmentSet
        BY <1>1
      <3>2. Len(tt) = IF n + 1 <= N THEN N - (n + 1) + 1 ELSE 0
        BY <3>1, SubSeqProperties
      <3> HIDE DEF N
      <3> QED BY <1>1, <3>1, <3>2
    <2>3. \A a \in 1..(N - n) : tt[a] = ss[n + a]
      BY <1>1
    <2> QED BY <2>1, <2>2, <2>3
  <1>4. DOMAIN tt = 1..(N - n) /\ DOMAIN out = 1..n
    BY <1>2, <1>3
  <1>5. h \in 0..MaxId /\ gone <= h /\ \A id \in IdsOf(out) : id <= h
    BY <1>2, NewestBound
  <1> HIDE DEF out
  <1>6. \A a \in 1..(N - n) : n + a \in 1..N
    BY <1>1
  <1>7. \A a \in 1..N : a \in 1..n \/ (a - n \in 1..(N - n) /\ n + (a - n) = a)
    BY <1>1
  <1>8. SegmentsOK(tt)
    <2>1. \A a \in DOMAIN tt : SegmentOK(tt[a])
      BY <1>1, <1>3, <1>4, <1>6 DEF SegmentsOK
    <2>2. ASSUME NEW a \in DOMAIN tt, NEW b \in DOMAIN tt, a < b PROVE <<tt[a], tt[b]>> \in Before
      <3>1. n + a \in DOMAIN ss /\ n + b \in DOMAIN ss /\ n + a < n + b
        BY <1>1, <1>4, <1>6, <2>2
      <3>2. <<ss[n + a], ss[n + b]>> \in Before
        BY <3>1 DEF SegmentsOK
      <3> QED BY <1>3, <1>4, <3>2
    <2> QED BY <2>1, <2>2 DEF SegmentsOK
  <1>9. IdsOf(tt) \subseteq IdsOf(ss)
    <2> SUFFICES ASSUME NEW id \in IdsOf(tt) PROVE id \in IdsOf(ss)
      OBVIOUS
    <2>1. PICK a \in DOMAIN tt : \E i \in DOMAIN tt[a].recs : tt[a].recs[i].id = id
      BY <1>3, IdsMember
    <2>2. n + a \in DOMAIN ss /\ tt[a] = ss[n + a]
      BY <1>1, <1>3, <1>4, <1>6
    <2> QED BY <2>1, <2>2, IdsMember
  <1>10. ASSUME NEW a \in 1..n, NEW i \in DOMAIN ss[a].recs PROVE ss[a].recs[i].id <= h
    <2>1. ss[a].recs[i].id \in IdsOf(out)
      BY <1>2, <1>4, IdsMember
    <2> QED BY <1>5, <2>1
  <1>11. \A a \in 1..N : ss[a] \in SegmentSet /\ ss[a].synced <= Len(ss[a].recs)
    BY <1>1 DEF SegmentsOK, SegmentOK
  <1>12. \A a \in 1..N : \A i \in 1..ss[a].synced : i \in DOMAIN ss[a].recs
    <2> SUFFICES ASSUME NEW a \in 1..N, NEW i \in 1..ss[a].synced PROVE i \in DOMAIN ss[a].recs
      OBVIOUS
    <2>1. /\ Len(ss[a].recs) \in Nat /\ DOMAIN ss[a].recs = 1..Len(ss[a].recs)
          /\ ss[a].synced \in Nat /\ ss[a].synced <= Len(ss[a].recs)
      BY <1>11, SegmentFields
    <2> QED BY <2>1
  <1>13. ASSUME NEW id \in Nat, Held(ss, id) PROVE Held(tt, id) \/ id <= h
    <2>1. PICK a \in 1..N : ss[a].linked /\ \E i \in 1..ss[a].synced : ss[a].recs[i].id = id
      BY <1>1, <1>13 DEF Held
    <2>2. CASE a \in 1..n
      BY <1>10, <1>12, <2>1, <2>2
    <2>3. CASE a - n \in 1..(N - n) /\ n + (a - n) = a
      <3>1. tt[a - n] = ss[a] /\ a - n \in DOMAIN tt
        BY <1>3, <1>4, <2>3
      <3> QED BY <2>1, <3>1 DEF Held
    <2> QED BY <1>7, <2>2, <2>3
  <1>14. ASSUME NEW id \in Nat, Synced(ss, id) PROVE Synced(tt, id) \/ id <= h
    <2>1. PICK a \in 1..N : \E i \in 1..ss[a].synced : ss[a].recs[i].id = id
      BY <1>1, <1>14 DEF Synced
    <2>2. CASE a \in 1..n
      BY <1>10, <1>12, <2>1, <2>2
    <2>3. CASE a - n \in 1..(N - n) /\ n + (a - n) = a
      <3>1. tt[a - n] = ss[a] /\ a - n \in DOMAIN tt
        BY <1>3, <1>4, <2>3
      <3> QED BY <2>1, <3>1 DEF Synced
    <2> QED BY <1>7, <2>2, <2>3
  <1>15. ASSUME NEW id \in Nat, Written(ss, id) PROVE Written(tt, id) \/ id <= h
    <2>1. PICK a \in 1..N :
             \E i \in DOMAIN ss[a].recs : ss[a].recs[i].id = id /\ (i <= ss[a].synced \/ a = N)
      BY <1>1, <1>15 DEF Written
    <2>2. CASE a \in 1..n
      BY <1>10, <2>1, <2>2
    <2>3. CASE a - n \in 1..(N - n) /\ n + (a - n) = a
      <3>1. tt[a - n] = ss[a] /\ a - n \in DOMAIN tt /\ (a = N => a - n = Len(tt))
        BY <1>3, <1>4, <2>3
      <3> QED BY <2>1, <3>1 DEF Written
    <2> QED BY <1>7, <2>2, <2>3
  <1> QED BY <1>3, <1>5, <1>8, <1>9, <1>13, <1>14, <1>15

\* One field of a segment changes.
LEMMA SegmentUpdates ==
    ASSUME NEW s \in SegmentSet, NEW t
    PROVE  /\ \A k \in Nat : t = [s EXCEPT !.synced = k] =>
                 /\ t \in SegmentSet /\ t.recs = s.recs /\ t.torn = s.torn
                 /\ t.synced = k /\ t.linked = s.linked
           /\ \A b \in BOOLEAN : t = [s EXCEPT !.torn = b] =>
                 /\ t \in SegmentSet /\ t.recs = s.recs /\ t.torn = b
                 /\ t.synced = s.synced /\ t.linked = s.linked
           /\ t = [s EXCEPT !.linked = TRUE] =>
                 /\ t \in SegmentSet /\ t.recs = s.recs /\ t.torn = s.torn
                 /\ t.synced = s.synced /\ t.linked
           /\ \A rs \in Seq(RecordSet) : t = [s EXCEPT !.recs = rs] =>
                 /\ t \in SegmentSet /\ t.recs = rs /\ t.torn = s.torn
                 /\ t.synced = s.synced /\ t.linked = s.linked
  BY DEF SegmentSet

\* One segment changes.
LEMMA SegmentReplaced ==
    ASSUME NEW ss \in Seq(SegmentSet), NEW at \in DOMAIN ss, NEW s \in SegmentSet,
           NEW tt, tt = [ss EXCEPT ![at] = s]
    PROVE  /\ tt \in Seq(SegmentSet) /\ Len(tt) = Len(ss) /\ tt[at] = s
           /\ \A a \in DOMAIN ss : a # at => tt[a] = ss[a]
  OBVIOUS

\* The sync of the directory holds what is synced.
LEMMA LinkedKeeps ==
    ASSUME NEW ss \in Seq(SegmentSet), SegmentsOK(ss), NEW tt, tt = Linked(ss)
    PROVE  /\ tt \in Seq(SegmentSet) /\ Len(tt) = Len(ss)
           /\ SegmentsOK(tt) /\ IdsOf(tt) = IdsOf(ss)
           /\ \A a \in 1..Len(ss) : Size(tt[a]) = Size(ss[a])
           /\ \A id \in Nat : Synced(ss, id) \/ Held(ss, id) => Held(tt, id)
  <1>1. DOMAIN ss = 1..Len(ss) /\ Len(ss) \in Nat /\ \A a \in 1..Len(ss) : ss[a] \in SegmentSet
    OBVIOUS
  <1>2. ASSUME NEW a \in 1..Len(ss)
        PROVE  /\ tt[a] \in SegmentSet /\ tt[a].recs = ss[a].recs /\ tt[a].torn = ss[a].torn
               /\ tt[a].synced = ss[a].synced /\ tt[a].linked
    <2>1. tt[a] = [ss[a] EXCEPT !.linked = TRUE]
      BY <1>1 DEF Linked
    <2> QED BY <1>1, <2>1, SegmentUpdates
  <1>3. tt = [a \in 1..Len(ss) |-> tt[a]]
    BY <1>1 DEF Linked
  <1>4. tt \in Seq(SegmentSet) /\ Len(tt) = Len(ss) /\ DOMAIN tt = 1..Len(ss)
    BY <1>1, <1>2, <1>3, IsASeq
  <1>5. \A a \in 1..Len(ss) : ss[a].synced \in Nat /\ ss[a].synced <= Len(ss[a].recs)
    BY <1>1, SegmentFields DEF SegmentsOK, SegmentOK
  <1>6. \A a \in 1..Len(ss) : /\ tt[a].recs = ss[a].recs
                              /\ ss[a].synced <= tt[a].synced
                              /\ tt[a].synced <= Len(ss[a].recs)
                              /\ ss[a].linked => tt[a].linked
    BY <1>2, <1>5
  <1>7. /\ SegmentsOK(tt) /\ IdsOf(tt) = IdsOf(ss)
        /\ \A id \in Nat : Held(ss, id) => Held(tt, id)
    BY <1>4, <1>6, SameRecords
  <1>8. \A a \in 1..Len(ss) : Size(tt[a]) = Size(ss[a])
    BY <1>2, Zenon DEF Size
  <1>9. ASSUME NEW id \in Nat, Synced(ss, id) PROVE Held(tt, id)
    <2>1. PICK a \in 1..Len(ss) : \E i \in 1..ss[a].synced : ss[a].recs[i].id = id
      BY <1>1, <1>9 DEF Synced
    <2>2. /\ tt[a].recs = ss[a].recs /\ tt[a].synced = ss[a].synced /\ tt[a].linked
          /\ a \in DOMAIN tt
      BY <1>2, <1>4
    <2> QED BY <2>1, <2>2, Zenon DEF Held
  <1> QED BY <1>4, <1>7, <1>8, <1>9

\* The sync of the current segment covers all its records.
LEMMA SyncLastKeeps ==
    ASSUME NEW ss \in Seq(SegmentSet), SegmentsOK(ss), ss # <<>>, NEW tt, tt = SyncLast(ss)
    PROVE  /\ tt \in Seq(SegmentSet) /\ Len(tt) = Len(ss)
           /\ SegmentsOK(tt) /\ IdsOf(tt) = IdsOf(ss)
           /\ \A a \in 1..Len(ss) : Size(tt[a]) = Size(ss[a])
           /\ \A id \in Nat : /\ Held(ss, id) => Held(tt, id)
                              /\ Synced(ss, id) => Synced(tt, id)
                              /\ Written(ss, id) => Synced(tt, id)
  <1> DEFINE N == Len(ss)
             s == [ss[N] EXCEPT !.synced = Len(ss[N].recs)]
  <1>1. DOMAIN ss = 1..N /\ N \in Nat /\ N \in 1..N /\ \A a \in 1..N : ss[a] \in SegmentSet
    OBVIOUS
  <1>2. \A a \in 1..N : /\ ss[a].synced \in Nat /\ ss[a].synced <= Len(ss[a].recs)
                        /\ Len(ss[a].recs) \in Nat /\ DOMAIN ss[a].recs = 1..Len(ss[a].recs)
    BY <1>1, SegmentFields DEF SegmentsOK, SegmentOK
  <1>3. /\ s \in SegmentSet /\ s.recs = ss[N].recs /\ s.torn = ss[N].torn
        /\ s.synced = Len(ss[N].recs) /\ s.linked = ss[N].linked
    <2> DEFINE u == ss[N]
               k == Len(ss[N].recs)
    <2>1. u \in SegmentSet /\ k \in Nat /\ s = [u EXCEPT !.synced = k]
      BY <1>1, <1>2
    <2> HIDE DEF s, u, k
    <2>2. /\ s \in SegmentSet /\ s.recs = u.recs /\ s.torn = u.torn
          /\ s.synced = k /\ s.linked = u.linked
      BY <2>1, SegmentUpdates
    <2> QED BY <2>2 DEF u, k
  <1>4. tt = [ss EXCEPT ![N] = s]
    BY DEF SyncLast
  <1> HIDE DEF s
  <1>5. /\ tt \in Seq(SegmentSet) /\ Len(tt) = N /\ tt[N] = s
        /\ \A a \in 1..N : a # N => tt[a] = ss[a]
    BY <1>1, <1>3, <1>4, SegmentReplaced
  <1>6. ASSUME NEW a \in 1..N
        PROVE  /\ tt[a].recs = ss[a].recs /\ tt[a].torn = ss[a].torn
               /\ ss[a].synced <= tt[a].synced /\ tt[a].synced <= Len(ss[a].recs)
               /\ ss[a].linked => tt[a].linked
    <2>1. CASE a = N
      BY <1>2, <1>3, <1>5, <2>1
    <2>2. CASE a # N
      BY <1>2, <1>5, <2>2
    <2> QED BY <2>1, <2>2
  <1>7. /\ SegmentsOK(tt) /\ IdsOf(tt) = IdsOf(ss)
        /\ \A id \in Nat : /\ Held(ss, id) => Held(tt, id)
                           /\ Synced(ss, id) => Synced(tt, id)
    BY <1>5, <1>6, SameRecords
  <1>8. \A a \in 1..N : Size(tt[a]) = Size(ss[a])
    BY <1>6, Zenon DEF Size
  <1>9. ASSUME NEW id \in Nat, Written(ss, id) PROVE Synced(tt, id)
    <2>1. PICK a \in 1..N : \E i \in DOMAIN ss[a].recs :
             ss[a].recs[i].id = id /\ (i <= ss[a].synced \/ a = N)
      BY <1>1, <1>9 DEF Written
    <2> PICK i \in DOMAIN ss[a].recs : ss[a].recs[i].id = id /\ (i <= ss[a].synced \/ a = N)
      BY <2>1
    <2>2. i \in 1..Len(ss[a].recs) /\ tt[a].recs = ss[a].recs /\ a \in DOMAIN tt
      BY <1>2, <1>5, <1>6
    <2>3. i \in 1..tt[a].synced
      <3>1. CASE a = N
        BY <1>3, <1>5, <2>2, <3>1
      <3>2. CASE a # N
        <4>1. tt[a] = ss[a] /\ ss[a].synced \in Nat /\ i <= ss[a].synced
          BY <1>2, <1>5, <3>2
        <4> QED BY <2>2, <4>1
      <3> QED BY <3>1, <3>2
    <2> QED BY <2>2, <2>3 DEF Synced
  <1> QED BY <1>5, <1>7, <1>8, <1>9

\* A new segment adds no record.
LEMMA NewSegmentKeeps ==
    ASSUME NEW ss \in Seq(SegmentSet), SegmentsOK(ss), NEW tt, tt = Append(ss, NewSegment)
    PROVE  /\ tt \in Seq(SegmentSet) /\ Len(tt) = Len(ss) + 1
           /\ SegmentsOK(tt) /\ IdsOf(tt) = IdsOf(ss)
           /\ \A a \in 1..Len(ss) : Size(tt[a]) = Size(ss[a])
           /\ Size(tt[Len(ss) + 1]) = 0
           /\ \A id \in Nat : /\ Held(ss, id) => Held(tt, id)
                              /\ Synced(ss, id) => Written(tt, id)
  <1> DEFINE N == Len(ss)
             s == NewSegment
  <1>1. DOMAIN ss = 1..N /\ N \in Nat /\ \A a \in 1..N : ss[a] \in SegmentSet
    OBVIOUS
  <1>2. /\ s \in SegmentSet /\ s.recs = <<>> /\ ~s.torn /\ s.synced = 0
        /\ DOMAIN s.recs = {} /\ Len(s.recs) = 0
    BY DEF SegmentSet, NewSegment
  <1> HIDE DEF s
  <1>3. /\ tt \in Seq(SegmentSet) /\ Len(tt) = N + 1 /\ DOMAIN tt = 1..(N + 1)
        /\ tt[N + 1] = s /\ \A a \in 1..N : tt[a] = ss[a]
    BY <1>1, <1>2, AppendProperties DEF s
  <1>4. \A a \in 1..(N + 1) : a \in 1..N \/ a = N + 1
    BY <1>1
  <1>5. SegmentOK(s)
    BY <1>2 DEF SegmentOK
  <1>6. SegmentsOK(tt)
    <2>1. \A a \in DOMAIN tt : SegmentOK(tt[a])
      BY <1>1, <1>3, <1>4, <1>5 DEF SegmentsOK
    <2>2. ASSUME NEW a \in DOMAIN tt, NEW b \in DOMAIN tt, a < b PROVE <<tt[a], tt[b]>> \in Before
      <3>1. a \in 1..N /\ tt[a] \in SegmentSet /\ tt[b] \in SegmentSet
        BY <1>1, <1>3, <2>2
      <3>2. CASE b \in 1..N
        BY <1>1, <1>3, <2>2, <3>1, <3>2 DEF SegmentsOK
      <3>3. CASE b = N + 1
        <4>1. DOMAIN tt[b].recs = {}
          BY <1>2, <1>3, <3>3
        <4> QED BY <3>1, <4>1 DEF Before
      <3> QED BY <1>3, <1>4, <3>2, <3>3
    <2> QED BY <2>1, <2>2 DEF SegmentsOK
  <1>7. ASSUME NEW id PROVE id \in IdsOf(tt) <=> id \in IdsOf(ss)
    <2>1. id \in IdsOf(tt) <=> \E a \in DOMAIN tt : \E i \in DOMAIN tt[a].recs : tt[a].recs[i].id = id
      BY <1>3, IdsMember
    <2>2. id \in IdsOf(ss) <=> \E a \in 1..N : \E i \in DOMAIN ss[a].recs : ss[a].recs[i].id = id
      BY <1>1, IdsMember
    <2>3. \A a \in 1..N : a \in 1..(N + 1)
      BY <1>1
    <2>4. DOMAIN tt[N + 1].recs = {}
      BY <1>2, <1>3
    <2> QED BY <1>3, <1>4, <2>1, <2>2, <2>3, <2>4
  <1>8. \A a \in 1..N : Size(tt[a]) = Size(ss[a])
    BY <1>3
  <1>9. Size(tt[N + 1]) = 0
    BY <1>2, <1>3 DEF Size
  <1>10. \A a \in 1..N : a \in DOMAIN tt /\ tt[a] = ss[a]
    BY <1>1, <1>3
  <1>11. ASSUME NEW id \in Nat, Held(ss, id) PROVE Held(tt, id)
    BY <1>1, <1>10, <1>11 DEF Held
  <1>12. ASSUME NEW id \in Nat, Synced(ss, id) PROVE Written(tt, id)
    <2>1. PICK a \in 1..N : \E i \in 1..ss[a].synced : ss[a].recs[i].id = id
      BY <1>1, <1>12 DEF Synced
    <2> PICK i \in 1..ss[a].synced : ss[a].recs[i].id = id
      BY <2>1
    <2>2. /\ Len(ss[a].recs) \in Nat /\ DOMAIN ss[a].recs = 1..Len(ss[a].recs)
          /\ ss[a].synced \in Nat /\ ss[a].synced <= Len(ss[a].recs)
      BY <1>1, SegmentFields DEF SegmentsOK, SegmentOK
    <2>3. i \in DOMAIN tt[a].recs /\ i <= tt[a].synced /\ tt[a].recs[i].id = id /\ a \in DOMAIN tt
      BY <1>10, <2>2
    <2> QED BY <2>3 DEF Written
  <1> QED BY <1>3, <1>6, <1>7, <1>8, <1>9, <1>11, <1>12

\* Which of two segments is the older one.
LEMMA BeforeMeans ==
    ASSUME NEW s \in SegmentSet, NEW t \in SegmentSet
    PROVE  <<s, t>> \in Before <=>
              \A i \in DOMAIN s.recs, j \in DOMAIN t.recs : s.recs[i].id < t.recs[j].id
  BY DEF Before

\* What WriteEntry does to the segments it found ready.
WithRecord(ss, r) == [ss EXCEPT ![Len(ss)].recs = Append(@, r)]

\* The current segment takes a record that follows all others.
LEMMA RecordKeeps ==
    ASSUME NEW ss \in Seq(SegmentSet), SegmentsOK(ss), ss # <<>>,
           NEW r \in RecordSet, r.secret => r.masked, \A id \in IdsOf(ss) : id < r.id,
           NEW tt, tt = WithRecord(ss, r)
    PROVE  /\ tt \in Seq(SegmentSet) /\ Len(tt) = Len(ss)
           /\ SegmentsOK(tt) /\ \A id \in IdsOf(tt) : id \in IdsOf(ss) \/ id = r.id
           /\ \A a \in 1..Len(ss) :
                 Size(tt[a]) = IF a = Len(ss) THEN Size(ss[a]) + 1 ELSE Size(ss[a])
           /\ \A id \in Nat : /\ Held(ss, id) => Held(tt, id)
                              /\ Written(ss, id) => Written(tt, id)
           /\ Written(tt, r.id)
  <1> DEFINE N == Len(ss)
             u == ss[N]
             rs == Append(u.recs, r)
             s == [u EXCEPT !.recs = rs]
             K == Len(u.recs)
  <1>1. /\ N = Len(ss) /\ DOMAIN ss = 1..N /\ N \in Nat /\ N \in 1..N
        /\ \A a \in 1..N : ss[a] \in SegmentSet
    OBVIOUS
  <1> HIDE DEF N
  <1>2. /\ u \in SegmentSet /\ u.recs \in Seq(RecordSet) /\ K \in Nat /\ DOMAIN u.recs = 1..K
        /\ \A i \in 1..K : u.recs[i].id \in 1..MaxId
        /\ u.synced \in Nat /\ u.synced <= K /\ Size(u) \in Nat
    BY <1>1, SegmentFields DEF SegmentsOK, SegmentOK
  <1> HIDE DEF u, K
  <1>3. /\ rs \in Seq(RecordSet) /\ Len(rs) = K + 1 /\ DOMAIN rs = 1..(K + 1)
        /\ rs[K + 1] = r /\ \A i \in 1..K : rs[i] = u.recs[i]
    BY <1>2, AppendProperties DEF K
  <1>4. tt = [ss EXCEPT ![N] = s]
    BY <1>1 DEF u, WithRecord
  <1> HIDE DEF rs
  <1>5. /\ s \in SegmentSet /\ s.recs = rs /\ s.torn = u.torn
        /\ s.synced = u.synced /\ s.linked = u.linked
    BY <1>2, <1>3, SegmentUpdates
  <1> HIDE DEF s
  <1>6. /\ tt \in Seq(SegmentSet) /\ Len(tt) = N /\ tt[N] = s /\ DOMAIN tt = 1..N
        /\ \A a \in 1..N : a # N => tt[a] = ss[a]
    <2>1. /\ tt \in Seq(SegmentSet) /\ Len(tt) = N /\ tt[N] = s
          /\ \A a \in 1..N : a # N => tt[a] = ss[a]
      <3>1. N \in DOMAIN ss /\ DOMAIN ss = 1..N
        BY <1>1
      <3>2. /\ tt \in Seq(SegmentSet) /\ Len(tt) = Len(ss) /\ tt[N] = s
            /\ \A a \in DOMAIN ss : a # N => tt[a] = ss[a]
        BY <1>4, <1>5, <3>1, SegmentReplaced
      <3> QED BY <1>1, <3>1, <3>2
    <2>2. DOMAIN tt = 1..N
      BY <1>1, <1>4
    <2> QED BY <2>1, <2>2
  <1>7. \A i \in 1..(K + 1) : i \in 1..K \/ i = K + 1
    BY <1>2
  <1>8. \A a \in 1..N : a # N => a < N
    BY <1>1
  <1>9. \A a \in 1..N : \A i \in DOMAIN ss[a].recs : ss[a].recs[i].id < r.id
    <2>1. \A a \in 1..N : \A i \in DOMAIN ss[a].recs : ss[a].recs[i].id \in IdsOf(ss)
      BY <1>1, IdsMember
    <2> QED BY <2>1
  <1>10. \A i \in 1..K : u.recs[i].id < r.id
    BY <1>1, <1>2, <1>9 DEF u
  <1>11. r.id \in 1..MaxId
    BY DEF RecordSet
  <1>12. SegmentOK(s)
    <2>1. SegmentOK(u)
      BY <1>1 DEF SegmentsOK, u
    <2>2. ASSUME NEW i \in DOMAIN s.recs, NEW j \in DOMAIN s.recs, i < j
          PROVE  s.recs[i].id < s.recs[j].id
      <3>1. i \in 1..K /\ rs[i] = u.recs[i]
        BY <1>2, <1>3, <1>5, <2>2
      <3>2. CASE j = K + 1
        BY <1>3, <1>5, <1>10, <3>1, <3>2
      <3>3. CASE j \in 1..K
        BY <1>2, <1>3, <1>5, <2>1, <2>2, <3>1, <3>3 DEF SegmentOK
      <3> QED BY <1>3, <1>5, <1>7, <3>2, <3>3
    <2>3. s.synced <= Len(s.recs)
      BY <1>2, <1>3, <1>5
    <2>4. \A i \in DOMAIN s.recs : s.recs[i].secret => s.recs[i].masked
      BY <1>2, <1>3, <1>5, <1>7, <2>1 DEF SegmentOK
    <2> QED BY <2>2, <2>3, <2>4 DEF SegmentOK
  <1>13. SegmentsOK(tt)
    <2>1. \A a \in DOMAIN tt : SegmentOK(tt[a])
      BY <1>1, <1>6, <1>12 DEF SegmentsOK
    <2>2. ASSUME NEW a \in DOMAIN tt, NEW b \in DOMAIN tt, a < b PROVE <<tt[a], tt[b]>> \in Before
      <3>1. a # N /\ tt[a] = ss[a] /\ ss[a] \in SegmentSet /\ tt[b] \in SegmentSet
        BY <1>1, <1>6, <2>2
      <3>2. <<ss[a], ss[b]>> \in Before
        BY <1>1, <1>6, <2>2 DEF SegmentsOK
      <3>3. CASE b # N
        BY <1>6, <3>1, <3>2, <3>3
      <3>4. CASE b = N
        <4>1. \A i \in DOMAIN ss[a].recs, j \in DOMAIN u.recs : ss[a].recs[i].id < u.recs[j].id
          BY <3>2, <3>4 DEF Before, u
        <4>2. \A i \in DOMAIN ss[a].recs : ss[a].recs[i].id < r.id
          BY <1>6, <1>9
        <4>3. \A i \in DOMAIN tt[a].recs, j \in DOMAIN tt[b].recs :
                 tt[a].recs[i].id < tt[b].recs[j].id
          <5> SUFFICES ASSUME NEW i \in DOMAIN tt[a].recs, NEW j \in DOMAIN tt[b].recs
                       PROVE  tt[a].recs[i].id < tt[b].recs[j].id
            OBVIOUS
          <5>1. tt[b] = s /\ j \in 1..(K + 1) /\ tt[b].recs[j] = rs[j]
            BY <1>3, <1>5, <1>6, <3>4
          <5>2. i \in DOMAIN ss[a].recs /\ tt[a].recs[i] = ss[a].recs[i]
            BY <3>1
          <5>3. CASE j = K + 1
            BY <1>3, <4>2, <5>1, <5>2, <5>3
          <5>4. CASE j \in 1..K
            BY <1>2, <1>3, <4>1, <5>1, <5>2, <5>4
          <5> QED BY <1>7, <5>1, <5>3, <5>4
        <4> QED BY <3>1, <4>3, BeforeMeans
      <3> QED BY <3>3, <3>4
    <2> QED BY <2>1, <2>2 DEF SegmentsOK
  <1>14. ASSUME NEW id \in IdsOf(tt) PROVE id \in IdsOf(ss) \/ id = r.id
    <2>0. PICK a \in DOMAIN tt : \E i \in DOMAIN tt[a].recs : tt[a].recs[i].id = id
      BY <1>6, <1>14, IdsMember
    <2>1. a \in 1..N /\ \E i \in DOMAIN tt[a].recs : tt[a].recs[i].id = id
      BY <1>6, <2>0
    <2> PICK i \in DOMAIN tt[a].recs : tt[a].recs[i].id = id
      BY <2>1
    <2>2. CASE a # N
      BY <1>1, <1>6, <2>2, IdsMember
    <2>3. CASE a = N /\ i \in 1..K
      <3>1. u.recs[i].id = id /\ i \in DOMAIN ss[N].recs
        BY <1>2, <1>3, <1>5, <1>6, <2>3 DEF u
      <3> QED BY <1>1, <3>1, IdsMember DEF u
    <2>4. CASE a = N /\ i = K + 1
      BY <1>3, <1>5, <1>6, <2>4
    <2> QED BY <1>3, <1>5, <1>6, <1>7, <2>2, <2>3, <2>4
  <1>15. ASSUME NEW a \in 1..N PROVE Size(tt[a]) = IF a = N THEN Size(ss[a]) + 1 ELSE Size(ss[a])
    <2>1. CASE a # N
      BY <1>6, <2>1
    <2>2. CASE a = N
      <3>1. Size(s) = K + 1 + (IF u.torn THEN 1 ELSE 0)
        BY <1>3, <1>5 DEF Size
      <3>2. Size(u) = K + (IF u.torn THEN 1 ELSE 0)
        BY DEF Size, K
      <3>3. Size(s) = Size(u) + 1
        BY <1>2, <3>1, <3>2
      <3> QED BY <1>6, <2>2, <3>3 DEF u
    <2> QED BY <2>1, <2>2
  <1>16. ASSUME NEW a \in 1..N
         PROVE  /\ tt[a].synced = ss[a].synced /\ tt[a].linked = ss[a].linked
                /\ \A i \in DOMAIN ss[a].recs : i \in DOMAIN tt[a].recs /\ tt[a].recs[i] = ss[a].recs[i]
    <2>1. CASE a # N
      BY <1>6, <2>1
    <2>2. CASE a = N
      <3>1. \A i \in 1..K : i \in 1..(K + 1)
        BY <1>2
      <3>2. DOMAIN ss[a].recs = 1..K /\ DOMAIN tt[a].recs = 1..(K + 1) /\ tt[a].recs = rs
        BY <1>2, <1>3, <1>5, <1>6, <2>2 DEF u
      <3> QED BY <1>3, <1>5, <1>6, <2>2, <3>1, <3>2 DEF u
    <2> QED BY <2>1, <2>2
  <1>17. \A a \in 1..N : \A i \in 1..ss[a].synced : i \in DOMAIN ss[a].recs
    <2> SUFFICES ASSUME NEW a \in 1..N, NEW i \in 1..ss[a].synced PROVE i \in DOMAIN ss[a].recs
      OBVIOUS
    <2>1. /\ Len(ss[a].recs) \in Nat /\ DOMAIN ss[a].recs = 1..Len(ss[a].recs)
          /\ ss[a].synced \in Nat /\ ss[a].synced <= Len(ss[a].recs)
      BY <1>1, SegmentFields DEF SegmentsOK, SegmentOK
    <2> QED BY <2>1
  <1>18. ASSUME NEW id \in Nat, Held(ss, id) PROVE Held(tt, id)
    <2>1. PICK a \in 1..N : ss[a].linked /\ \E i \in 1..ss[a].synced : ss[a].recs[i].id = id
      BY <1>1, <1>18 DEF Held
    <2>2. tt[a].linked /\ \E i \in 1..tt[a].synced : tt[a].recs[i].id = id
      BY <1>16, <1>17, <2>1
    <2> QED BY <1>6, <2>2 DEF Held
  <1>19. ASSUME NEW id \in Nat, Written(ss, id) PROVE Written(tt, id)
    <2>1. PICK a \in 1..N : \E i \in DOMAIN ss[a].recs :
             ss[a].recs[i].id = id /\ (i <= ss[a].synced \/ a = N)
      BY <1>1, <1>19 DEF Written
    <2>2. \E i \in DOMAIN tt[a].recs : tt[a].recs[i].id = id /\ (i <= tt[a].synced \/ a = N)
      BY <1>16, <2>1
    <2> QED BY <1>6, <2>2 DEF Written
  <1>20. Written(tt, r.id)
    <2>1. K + 1 \in DOMAIN tt[N].recs /\ tt[N].recs[K + 1].id = r.id
      <3>1. K + 1 \in 1..(K + 1)
        BY <1>2
      <3>2. tt[N].recs = rs
        BY <1>5, <1>6
      <3> QED BY <1>3, <3>1, <3>2
    <2> QED BY <1>1, <1>6, <2>1 DEF Written
  <1> QED BY <1>1, <1>6, <1>13, <1>14, <1>15, <1>18, <1>19, <1>20

---------------------------------------------------------------------------
(* The recorder in memory, and session.json.                               *)

\* The fields of a recorder.
LEMMA RecorderFields ==
    ASSUME NEW r \in RecorderSet
    PROVE  /\ r.last \in 0..MaxId /\ r.keys \in KeySets /\ r.closed \in BOOLEAN
           /\ r.pending \in BOOLEAN /\ r.writer \in BOOLEAN /\ r.file \in BOOLEAN
           /\ r.sizes \in Seq(Nat) /\ r.bytes \in Int /\ r.metaBytes \in Nat
           /\ Len(r.sizes) \in Nat /\ DOMAIN r.sizes = 1..Len(r.sizes)
           /\ \A a \in 1..Len(r.sizes) : r.sizes[a] \in Nat
  <1>1. /\ r.last \in 0..MaxId /\ r.keys \in KeySets /\ r.closed \in BOOLEAN
        /\ r.pending \in BOOLEAN /\ r.writer \in BOOLEAN /\ r.file \in BOOLEAN
        /\ r.sizes \in Seq(Nat) /\ r.bytes \in Int /\ r.metaBytes \in Nat
    BY DEF RecorderSet
  <1> QED BY <1>1

\* The fields of session.json.
LEMMA MetaFields ==
    ASSUME NEW m \in MetaSet
    PROVE  /\ m.last \in 0..MaxId /\ m.keys \in KeySets /\ m.closed \in BOOLEAN
           /\ m.pending \in BOOLEAN /\ m.writer \in BOOLEAN /\ m.bytes \in Nat
  BY DEF MetaSet

\* What session.json has of a recorder.
LEMMA MetaOfFields ==
    ASSUME NEW r \in RecorderSet, NEW m, m = MetaOf(r)
    PROVE  /\ m \in MetaSet /\ m.last = r.last /\ m.keys = r.keys /\ m.closed = r.closed
           /\ m.pending = r.pending /\ m.writer = r.writer /\ m.bytes \in Nat
  <1>1. 1 + Cardinality(r.keys) \in Nat
    <2>1. IsFiniteSet(r.keys)
      BY RecorderFields DEF KeySets
    <2>2. Cardinality(r.keys) \in Nat
      BY <2>1, FS_CardinalityType
    <2> HIDE DEF KeySets
    <2> QED BY <2>2
  <1>2. /\ m.last = r.last /\ m.keys = r.keys /\ m.closed = r.closed
        /\ m.pending = r.pending /\ m.writer = r.writer /\ m.bytes = 1 + Cardinality(r.keys)
    BY DEF MetaOf
  <1>3. m \in MetaSet
    BY <1>1, RecorderFields DEF MetaOf, MetaSet
  <1> QED BY <1>1, <1>2, <1>3

\* What a batch knows of the recorder, and no eviction changes.
SameSession(r, k) ==
    /\ r.last = k.last /\ r.keys = k.keys /\ r.closed = k.closed
    /\ r.pending = k.pending /\ r.writer = k.writer

\* A recorder whose bytes are those of session.json and of the segments it counts.
Adds(r) == r.bytes = r.metaBytes + Total(r.sizes)

\* The new session.json is counted in place of the old one.
LEMMA CountedFields ==
    ASSUME NEW r \in RecorderSet, NEW w, w = Counted(r)
    PROVE  /\ w \in RecorderSet /\ SameSession(w, r)
           /\ w.sizes = r.sizes /\ w.file = r.file /\ w.metaBytes = MetaOf(r).bytes
           /\ Adds(r) => Adds(w)
  <1> DEFINE size == MetaOf(r).bytes
  <1>1. size \in Nat
    BY MetaOfFields
  <1>2. /\ r.sizes \in Seq(Nat) /\ r.bytes \in Int /\ r.metaBytes \in Nat /\ r.file \in BOOLEAN
    BY RecorderFields
  <1>3. w = [r EXCEPT !.bytes = r.bytes + size - r.metaBytes, !.metaBytes = size]
    BY DEF Counted
  <1> HIDE DEF size
  <1>4. r.bytes + size - r.metaBytes \in Int
    BY <1>1, <1>2
  <1> DEFINE bytes == r.bytes + size - r.metaBytes
  <1> HIDE DEF bytes
  <1>5. w = [r EXCEPT !.bytes = bytes, !.metaBytes = size] /\ bytes \in Int
    BY <1>3, <1>4 DEF bytes
  <1>6. w \in RecorderSet
    BY <1>1, <1>5 DEF RecorderSet
  <1>7. /\ w.sizes = r.sizes /\ w.bytes = bytes /\ w.file = r.file /\ w.metaBytes = size
        /\ w.last = r.last /\ w.keys = r.keys /\ w.closed = r.closed
        /\ w.pending = r.pending /\ w.writer = r.writer
    BY <1>5 DEF RecorderSet
  <1>8. Adds(r) => Adds(w)
    <2>1. Total(r.sizes) \in Nat
      BY <1>2, TotalParts
    <2> QED BY <1>1, <1>2, <1>7, <2>1 DEF Adds, bytes
  <1> QED BY <1>6, <1>7, <1>8 DEF SameSession, size

\* The oldest segments are no longer counted.
LEMMA WithoutFields ==
    ASSUME NEW r \in RecorderSet, NEW n \in 0..Len(r.sizes), NEW w, w = Without(r, n)
    PROVE  /\ w \in RecorderSet /\ SameSession(w, r)
           /\ Len(w.sizes) = Len(r.sizes) - n
           /\ \A a \in 1..(Len(r.sizes) - n) : w.sizes[a] = r.sizes[n + a]
           /\ w.file = (r.file /\ n < Len(r.sizes)) /\ w.metaBytes = r.metaBytes
           /\ Adds(r) => Adds(w)
           /\ n = Len(r.sizes) => Total(w.sizes) = 0
  <1> DEFINE N == Len(r.sizes)
             rest == SubSeq(r.sizes, n + 1, N)
             bytes == r.bytes - Total(SubSeq(r.sizes, 1, n))
             file == r.file /\ n < N
  <1>1. /\ r.sizes \in Seq(Nat) /\ r.bytes \in Int /\ r.metaBytes \in Nat /\ r.file \in BOOLEAN
        /\ N \in Nat /\ n \in Nat /\ n <= N /\ \A a \in 1..N : r.sizes[a] \in Nat
    BY RecorderFields
  <1>2. rest \in Seq(Nat) /\ SubSeq(r.sizes, 1, n) \in Seq(Nat)
    BY <1>1
  <1>3. Len(rest) = N - n
    <2>1. n + 1 \in Int /\ N \in Int /\ \A i \in (n + 1)..N : r.sizes[i] \in Nat
      BY <1>1
    <2>2. Len(rest) = IF n + 1 <= N THEN N - (n + 1) + 1 ELSE 0
      BY <2>1, SubSeqProperties
    <2> HIDE DEF N, rest
    <2> QED BY <1>1, <2>2
  <1>4. \A a \in 1..(N - n) : rest[a] = r.sizes[n + a]
    BY <1>1
  <1>5. /\ Total(r.sizes) = Total(SubSeq(r.sizes, 1, n)) + Total(rest)
        /\ Total(r.sizes) \in Nat /\ Total(rest) \in Nat /\ Total(SubSeq(r.sizes, 1, n)) \in Nat
    BY <1>1, <1>2, TotalParts
  <1>6. n = N => Total(rest) = 0
    <2> SUFFICES ASSUME n = N PROVE Total(rest) = 0
      OBVIOUS
    <2>1. Len(rest) = 0
      BY <1>1, <1>3
    <2> DEFINE g == [m \in 0..0 |-> 0]
    <2>2. g[0] = 0 /\ \A m \in 1..Len(rest) : g[m] = g[m - 1] + rest[m]
      BY <2>1
    <2> HIDE DEF rest, g
    <2> QED BY <2>1, <2>2, TotalBy
  <1>7. bytes \in Int /\ file \in BOOLEAN
    BY <1>1, <1>5
  <1>8. w = [r EXCEPT !.sizes = rest, !.bytes = bytes, !.file = file]
    BY DEF Without
  <1> HIDE DEF rest, bytes, file
  <1>9. w \in RecorderSet
    BY <1>2, <1>7, <1>8 DEF RecorderSet
  <1>10. /\ w.sizes = rest /\ w.bytes = bytes /\ w.file = file /\ w.metaBytes = r.metaBytes
         /\ w.last = r.last /\ w.keys = r.keys /\ w.closed = r.closed
         /\ w.pending = r.pending /\ w.writer = r.writer
    BY <1>8 DEF RecorderSet
  <1>11. Adds(r) => Adds(w)
    BY <1>1, <1>5, <1>10 DEF Adds, bytes
  <1> QED BY <1>3, <1>4, <1>6, <1>9, <1>10, <1>11 DEF SameSession, file

\* The file is closed, or stays as it is.
LEMMA FileFields ==
    ASSUME NEW r \in RecorderSet, NEW P \in BOOLEAN, NEW w, w = [r EXCEPT !.file = r.file /\ P]
    PROVE  /\ w \in RecorderSet /\ SameSession(w, r) /\ w.sizes = r.sizes
           /\ w.file = (r.file /\ P)
  <1> DEFINE b == r.file /\ P
  <1>1. b \in BOOLEAN /\ w = [r EXCEPT !.file = b]
    OBVIOUS
  <1> HIDE DEF b
  <1>2. w \in RecorderSet /\ w.file = b /\ w.sizes = r.sizes
    BY <1>1 DEF RecorderSet
  <1>3. /\ w.last = r.last /\ w.keys = r.keys /\ w.closed = r.closed
        /\ w.pending = r.pending /\ w.writer = r.writer
    BY <1>1 DEF RecorderSet
  <1> QED BY <1>2, <1>3 DEF SameSession, b

\* The recorder has a size for each segment, and a current one if the file is open.
Fits(r, ss) == Len(r.sizes) = Len(ss) /\ (r.file => ss # <<>>)

\* The sizes are those on disk.
Measures(r, ss) == \A a \in DOMAIN ss : r.sizes[a] = Size(ss[a])

\* What a step leaves of the segments ss: what was evicted is at most h.
Keeps(ss, g, tt, h) ==
    /\ tt \in Seq(SegmentSet) /\ SegmentsOK(tt) /\ IdsOf(tt) \subseteq IdsOf(ss)
    /\ h \in 0..MaxId /\ g <= h
    /\ \A id \in Nat : Held(ss, id) => Held(tt, id) \/ id <= h

\* The n oldest segments are gone, and with them the IDs up to h.
Leaves(ss, n, tt, h) == tt = SubSeq(ss, n + 1, Len(ss)) /\ h = Newest(SubSeq(ss, 1, n))

\* The oldest segments are evicted, on disk and from the recorder.
LEMMA EvictKeeps ==
    ASSUME NEW ss \in Seq(SegmentSet), SegmentsOK(ss), gone \in 0..MaxId,
           NEW r \in RecorderSet, Fits(r, ss), NEW n \in 0..Len(ss),
           NEW tt, NEW h, Leaves(ss, n, tt, h), NEW w, w = Without(r, n)
    PROVE  /\ Keeps(ss, gone, tt, h)
           /\ \A id \in Nat : /\ Synced(ss, id) => Synced(tt, id) \/ id <= h
                              /\ Written(ss, id) => Written(tt, id) \/ id <= h
           /\ w \in RecorderSet /\ SameSession(w, r) /\ Fits(w, tt) /\ (n = Len(ss) => tt = <<>>)
           /\ Measures(r, ss) => Measures(w, tt)
           /\ w.metaBytes = r.metaBytes /\ w.file = (r.file /\ n < Len(r.sizes))
           /\ Adds(r) => Adds(w)
           /\ n = Len(r.sizes) => Total(w.sizes) = 0
  <1>2. /\ tt \in Seq(SegmentSet) /\ Len(tt) = Len(ss) - n
        /\ \A a \in 1..(Len(ss) - n) : tt[a] = ss[n + a]
        /\ SegmentsOK(tt) /\ IdsOf(tt) \subseteq IdsOf(ss)
        /\ h \in 0..MaxId /\ gone <= h
        /\ \A id \in Nat : /\ Held(ss, id) => Held(tt, id) \/ id <= h
                           /\ Synced(ss, id) => Synced(tt, id) \/ id <= h
                           /\ Written(ss, id) => Written(tt, id) \/ id <= h
    BY RestKeeps DEF Leaves
  <1>3. Len(r.sizes) = Len(ss) /\ Len(ss) \in Nat /\ n \in Nat /\ n <= Len(ss)
    BY DEF Fits
  <1>4. /\ w \in RecorderSet /\ SameSession(w, r)
        /\ Len(w.sizes) = Len(r.sizes) - n
        /\ \A a \in 1..(Len(r.sizes) - n) : w.sizes[a] = r.sizes[n + a]
        /\ w.file = (r.file /\ n < Len(r.sizes)) /\ w.metaBytes = r.metaBytes
        /\ Adds(r) => Adds(w)
        /\ n = Len(r.sizes) => Total(w.sizes) = 0
    BY <1>3, WithoutFields
  <1>5. Fits(w, tt)
    <2>0. w.file => n < Len(ss)
      BY <1>3, <1>4
    <2>1. w.file => Len(tt) # 0
      BY <1>2, <1>3, <2>0
    <2>2. w.file => tt # <<>>
      BY <1>2, <2>1
    <2> QED BY <1>2, <1>3, <1>4, <2>2 DEF Fits
  <1>6. ASSUME Measures(r, ss) PROVE Measures(w, tt)
    <2> SUFFICES ASSUME NEW a \in DOMAIN tt PROVE w.sizes[a] = Size(tt[a])
      BY DEF Measures
    <2>1. a \in 1..(Len(ss) - n)
      BY <1>2
    <2>2. n + a \in DOMAIN ss
      BY <1>3, <2>1
    <2> QED BY <1>2, <1>3, <1>4, <1>6, <2>1, <2>2 DEF Measures
  <1>7. n = Len(ss) => tt = <<>>
    BY <1>2, <1>3
  <1> QED BY <1>2, <1>4, <1>5, <1>6, <1>7 DEF Keeps

\* A step that leaves the segments alone.
LEMMA SameKeeps ==
    ASSUME NEW ss \in Seq(SegmentSet), SegmentsOK(ss), NEW g \in 0..MaxId
    PROVE  Keeps(ss, g, ss, g)
  <1>1. g <= g
    BY RecorderAssumption
  <1> QED BY <1>1 DEF Keeps

\* One step after the other.
LEMMA KeepsTwice ==
    ASSUME NEW ss, NEW g \in 0..MaxId, NEW tt, NEW h, NEW uu, NEW k,
           Keeps(ss, g, tt, h), Keeps(tt, h, uu, k)
    PROVE  Keeps(ss, g, uu, k)
  <1>1. h \in Nat /\ k \in Nat /\ g \in Nat /\ k \in 0..MaxId /\ g <= k /\ h <= k
    BY RecorderAssumption DEF Keeps
  <1>2. ASSUME NEW id \in Nat, Held(ss, id) PROVE Held(uu, id) \/ id <= k
    BY <1>1, <1>2 DEF Keeps
  <1>3. IdsOf(uu) \subseteq IdsOf(ss)
    BY DEF Keeps
  <1> QED BY <1>1, <1>2, <1>3 DEF Keeps

\* The sync of the directory, and then eviction.
LEMMA LinkedEvict ==
    ASSUME segs \in Seq(SegmentSet), SegmentsOK(segs), gone \in 0..MaxId,
           NEW r \in RecorderSet, Fits(r, segs), NEW n \in 0..Len(segs), Evict(n, Linked(segs)),
           NEW w, w = Without(Counted(r), n)
    PROVE  /\ Keeps(segs, gone, segs', gone')
           /\ \A id \in Nat : Synced(segs, id) => Held(segs', id) \/ id <= gone'
           /\ w \in RecorderSet /\ SameSession(w, r) /\ Fits(w, segs')
           /\ Measures(r, segs) => Measures(w, segs')
           /\ w.metaBytes = MetaOf(r).bytes /\ w.file = (r.file /\ n < Len(segs))
           /\ Adds(r) => Adds(w)
           /\ n = Len(segs) => Total(w.sizes) = 0
  <1> DEFINE ss == Linked(segs)
             c == Counted(r)
  <1>1. /\ ss \in Seq(SegmentSet) /\ Len(ss) = Len(segs) /\ Len(segs) \in Nat
        /\ SegmentsOK(ss) /\ IdsOf(ss) = IdsOf(segs)
        /\ \A a \in 1..Len(segs) : Size(ss[a]) = Size(segs[a])
        /\ \A id \in Nat : Synced(segs, id) \/ Held(segs, id) => Held(ss, id)
    BY LinkedKeeps
  <1>2. /\ c \in RecorderSet /\ SameSession(c, r)
        /\ c.sizes = r.sizes /\ c.file = r.file /\ c.metaBytes = MetaOf(r).bytes
        /\ Adds(r) => Adds(c)
    BY CountedFields
  <1>3. /\ w = Without(c, n) /\ n \in 0..Len(ss)
        /\ segs' = SubSeq(ss, n + 1, Len(ss)) /\ gone' = Newest(SubSeq(ss, 1, n))
    BY <1>1 DEF Evict
  <1> HIDE DEF ss, c
  <1>4. Fits(c, ss)
    <2>1. segs # <<>> => ss # <<>>
      BY <1>1
    <2> QED BY <1>1, <1>2, <2>1 DEF Fits
  <1>5. /\ Keeps(ss, gone, segs', gone')
        /\ w \in RecorderSet /\ SameSession(w, c) /\ Fits(w, segs')
        /\ Measures(c, ss) => Measures(w, segs')
        /\ w.metaBytes = c.metaBytes /\ w.file = (c.file /\ n < Len(c.sizes))
        /\ Adds(c) => Adds(w)
        /\ n = Len(c.sizes) => Total(w.sizes) = 0
    <2> DEFINE tt == segs'
               h == gone'
    <2>1. /\ ss \in Seq(SegmentSet) /\ SegmentsOK(ss) /\ gone \in 0..MaxId
          /\ c \in RecorderSet /\ Fits(c, ss) /\ n \in 0..Len(ss)
          /\ Leaves(ss, n, tt, h) /\ w = Without(c, n)
      BY <1>1, <1>2, <1>3, <1>4 DEF Leaves
    <2> HIDE DEF tt, h
    <2>2. /\ Keeps(ss, gone, tt, h)
          /\ w \in RecorderSet /\ SameSession(w, c) /\ Fits(w, tt)
          /\ Measures(c, ss) => Measures(w, tt)
          /\ w.metaBytes = c.metaBytes /\ w.file = (c.file /\ n < Len(c.sizes))
          /\ Adds(c) => Adds(w)
          /\ n = Len(c.sizes) => Total(w.sizes) = 0
      BY <2>1, EvictKeeps
    <2> QED BY <2>2 DEF tt, h
  <1>6. Keeps(segs, gone, ss, gone)
    <2>1. gone <= gone
      BY RecorderAssumption
    <2> QED BY <1>1, <2>1 DEF Keeps
  <1>7. Keeps(segs, gone, segs', gone')
    BY <1>5, <1>6, KeepsTwice
  <1>8. \A id \in Nat : Synced(segs, id) => Held(segs', id) \/ id <= gone'
    BY <1>1, <1>5 DEF Keeps
  <1>9. Len(c.sizes) = Len(segs)
    BY <1>1, <1>4 DEF Fits
  <1>10. Measures(r, segs) => Measures(c, ss)
    <2>1. DOMAIN ss = 1..Len(segs) /\ DOMAIN segs = 1..Len(segs)
      BY <1>1
    <2> QED BY <1>1, <1>2, <2>1 DEF Measures
  <1>11. SameSession(w, r)
    BY <1>2, <1>5 DEF SameSession
  <1> QED BY <1>2, <1>5, <1>7, <1>8, <1>9, <1>10, <1>11

\* session.json is saved.
LEMMA SaveMetaEffect ==
    ASSUME segs \in Seq(SegmentSet), SegmentsOK(segs), gone \in 0..MaxId,
           NEW r \in RecorderSet, Fits(r, segs), SaveMeta(r)
    PROVE  /\ meta' = MetaOf(r) /\ durable' = MetaOf(r)
           /\ Keeps(segs, gone, segs', gone')
           /\ \A id \in Nat : Synced(segs, id) => Held(segs', id) \/ id <= gone'
           /\ rec' \in RecorderSet /\ SameSession(rec', r) /\ Fits(rec', segs')
           /\ Measures(r, segs) => Measures(rec', segs')
           /\ rec'.metaBytes = meta'.bytes
           /\ Adds(r) => Adds(rec') /\ rec'.bytes <= MaxBytes
  <1>1. meta' = MetaOf(r) /\ durable' = MetaOf(r) /\ MetaOf(r).bytes <= MaxBytes
    BY DEF SaveMeta
  <1>2. PICK n \in 0..Len(segs) : /\ MayStop(Counted(r), n, 0)
                                  /\ Evict(n, Linked(segs))
                                  /\ rec' = Without(Counted(r), n)
    BY DEF SaveMeta
  <1>3. /\ Keeps(segs, gone, segs', gone')
        /\ \A id \in Nat : Synced(segs, id) => Held(segs', id) \/ id <= gone'
        /\ rec' \in RecorderSet /\ SameSession(rec', r) /\ Fits(rec', segs')
        /\ Measures(r, segs) => Measures(rec', segs')
        /\ rec'.metaBytes = MetaOf(r).bytes
        /\ Adds(r) => Adds(rec')
        /\ n = Len(segs) => Total(rec'.sizes) = 0
    BY <1>2, LinkedEvict
  <1>4. ASSUME Adds(r) PROVE rec'.bytes <= MaxBytes
    <2>1. Adds(rec') /\ rec'.bytes \in Int /\ rec'.metaBytes \in Nat /\ MaxBytes \in Nat
      BY <1>3, <1>4, RecorderFields, RecorderAssumption
    <2>2. CASE n = Len(segs)
      BY <1>1, <1>3, <2>1, <2>2 DEF Adds
    <2>3. CASE n # Len(segs)
      <3>1. Counted(r).sizes = r.sizes /\ Len(r.sizes) = Len(segs)
        BY CountedFields DEF Fits
      <3>2. rec'.bytes + 0 <= MaxBytes
        BY <1>2, <2>3, <3>1 DEF MayStop
      <3> QED BY <2>1, <3>2
    <2> QED BY <2>2, <2>3
  <1> QED BY <1>1, <1>3, <1>4

\* The save of session.json fails.
LEMMA SaveFailsEffect ==
    ASSUME segs \in Seq(SegmentSet), SegmentsOK(segs), gone \in 0..MaxId,
           NEW r \in RecorderSet, NEW k \in RecorderSet, Fits(k, segs), SaveFails(r, k)
    PROVE  /\ meta' \in {meta, MetaOf(r)} /\ durable' \in {durable, MetaOf(r)}
           /\ Keeps(segs, gone, segs', gone')
           /\ rec' \in RecorderSet /\ SameSession(rec', k) /\ Fits(rec', segs')
  <1>1. CASE rec' = k /\ UNCHANGED disk
    <2>1. meta' = meta /\ durable' = durable /\ segs' = segs /\ gone' = gone
      BY <1>1 DEF disk
    <2>2. Keeps(segs, gone, segs', gone')
      BY <2>1, SameKeeps
    <2> QED BY <1>1, <2>1, <2>2 DEF SameSession
  <1>2. CASE /\ meta' = MetaOf(r) /\ rec' = Counted(k)
             /\ UNCHANGED <<durable, segs, gone>>
    <2>1. durable' = durable /\ segs' = segs /\ gone' = gone
      BY <1>2
    <2>2. Keeps(segs, gone, segs', gone')
      BY <2>1, SameKeeps
    <2>3. /\ rec' \in RecorderSet /\ SameSession(rec', k)
          /\ rec'.sizes = k.sizes /\ rec'.file = k.file
      BY <1>2, CountedFields
    <2>4. Fits(rec', segs')
      BY <2>1, <2>3 DEF Fits
    <2> QED BY <1>2, <2>1, <2>2, <2>3, <2>4
  <1>3. CASE /\ meta' = MetaOf(r) /\ durable' = MetaOf(r)
             /\ \E n \in 0..(Len(segs) - 1) :
                   /\ Evict(n, Linked(segs))
                   /\ rec' = [Without(Counted(k), n) EXCEPT !.file = @ /\ n + 1 < Len(segs)]
    <2>1. PICK n \in 0..(Len(segs) - 1) :
             /\ Evict(n, Linked(segs))
             /\ rec' = [Without(Counted(k), n) EXCEPT !.file = @ /\ n + 1 < Len(segs)]
      BY <1>3
    <2>2. n \in 0..Len(segs)
      OBVIOUS
    <2> DEFINE w == Without(Counted(k), n)
    <2>3. /\ Keeps(segs, gone, segs', gone')
          /\ w \in RecorderSet /\ SameSession(w, k) /\ Fits(w, segs')
      BY <2>1, <2>2, LinkedEvict
    <2> DEFINE more == n + 1 < Len(segs)
    <2>4. rec' = [w EXCEPT !.file = w.file /\ more] /\ more \in BOOLEAN
      BY <2>1
    <2> HIDE DEF w, more
    <2>5. /\ rec' \in RecorderSet /\ rec'.sizes = w.sizes
          /\ rec'.file = (w.file /\ more) /\ SameSession(rec', w)
      BY <2>3, <2>4, FileFields
    <2>6. Fits(rec', segs')
      BY <2>3, <2>5 DEF Fits
    <2>7. SameSession(rec', k)
      BY <2>3, <2>5 DEF SameSession
    <2> QED BY <1>3, <2>3, <2>5, <2>6, <2>7
  <1> QED BY <1>1, <1>2, <1>3 DEF SaveFails

\* A batch failed.
LEMMA FailedFields ==
    ASSUME NEW r \in RecorderSet, NEW w, w = Failed(r)
    PROVE  /\ w \in RecorderSet /\ w.closed /\ w.pending
           /\ w.last = r.last /\ w.writer = r.writer
           /\ w.file = r.file /\ w.sizes = r.sizes
  BY DEF Failed, RecorderSet

\* A batch begins, or its records are synced.
LEMMA PendingFields ==
    ASSUME NEW r \in RecorderSet, NEW b \in BOOLEAN, NEW w, w = [r EXCEPT !.pending = b]
    PROVE  /\ w \in RecorderSet /\ w.pending = b /\ w.closed = r.closed /\ w.keys = r.keys
           /\ w.last = r.last /\ w.writer = r.writer
           /\ w.file = r.file /\ w.sizes = r.sizes
           /\ w.bytes = r.bytes /\ w.metaBytes = r.metaBytes
  BY DEF RecorderSet

\* The open keys after a line.
KeysAfter(keys, line) ==
    IF line.text = "begin" THEN keys \cup {line.source}
    ELSE IF line.text = "end" THEN keys \ {line.source} ELSE keys

\* The redactor follows a line, or is closed.
LEMMA TrackFields ==
    ASSUME NEW r \in RecorderSet, NEW line \in Lines, NEW w, w = Track(r, line)
    PROVE  /\ w \in RecorderSet /\ w.pending = r.pending
           /\ w.last = r.last /\ w.writer = r.writer
           /\ w.file = r.file /\ w.sizes = r.sizes
           /\ w.bytes = r.bytes /\ w.metaBytes = r.metaBytes
           /\ ~w.closed => ~r.closed /\ w.keys = KeysAfter(r.keys, line)
  <1>1. line.source \in Sources /\ line.text \in {"plain", "begin", "end"}
    BY DEF Lines
  <1>2. r.keys \in SUBSET Sources /\ IsFiniteSet(r.keys)
    BY RecorderFields DEF KeySets
  <1> DEFINE room == line.source \in r.keys \/ Cardinality(r.keys) < KeyLimit
  <1>3. CASE line.text = "begin" /\ room
    <2> DEFINE keys == r.keys \cup {line.source}
    <2>1. w = [r EXCEPT !.keys = keys]
      BY <1>3 DEF Track
    <2>2. keys \in KeySets
      BY <1>1, <1>2, FS_AddElement DEF KeySets
    <2>3. keys = KeysAfter(r.keys, line)
      BY <1>3 DEF KeysAfter
    <2> HIDE DEF keys
    <2> QED BY <2>1, <2>2, <2>3 DEF RecorderSet
  <1>4. CASE line.text = "begin" /\ ~room
    <2>1. w = [r EXCEPT !.closed = TRUE]
      BY <1>4 DEF Track
    <2> QED BY <2>1 DEF RecorderSet
  <1>5. CASE line.text = "end"
    <2> DEFINE keys == r.keys \ {line.source}
    <2>1. w = [r EXCEPT !.keys = keys]
      BY <1>5 DEF Track
    <2>2. keys \in KeySets
      BY <1>1, <1>2, FS_RemoveElement DEF KeySets
    <2>3. keys = KeysAfter(r.keys, line)
      BY <1>5 DEF KeysAfter
    <2> HIDE DEF keys
    <2> QED BY <2>1, <2>2, <2>3 DEF RecorderSet
  <1>6. CASE line.text = "plain"
    <2>1. w = r
      BY <1>6 DEF Track
    <2>2. r.keys = KeysAfter(r.keys, line)
      BY <1>6 DEF KeysAfter
    <2> QED BY <2>1, <2>2
  <1> QED BY <1>1, <1>3, <1>4, <1>5, <1>6

\* Following the first line and then the others is following all of them.
LEMMA InsideTail ==
    ASSUME NEW t \in Seq(EntrySet), t # <<>>, NEW keys, NEW s,
           NEW n \in Nat, n + 1 <= Len(t)
    PROVE  Inside(KeysAfter(keys, Head(t).line), Tail(t), n, s) <=> Inside(keys, t, n + 1, s)
  <1> DEFINE u == Tail(t)
             more == KeysAfter(keys, t[1].line)
             D(j) == Delimits(t, j, s)
             B(j) == D(j) /\ t[j].line.text = "begin"
  <1>1. Head(t) = t[1] /\ \A j \in 1..n : u[j] = t[j + 1]
    <2>1. Head(t) = t[1] /\ Len(u) = Len(t) - 1 /\ Len(t) \in Nat
      BY HeadTailProperties
    <2>2. \A j \in 1..Len(u) : u[j] = t[j + 1]
      BY HeadTailProperties
    <2> HIDE DEF u
    <2> QED BY <2>1, <2>2
  <1> HIDE DEF u
  <1>2. \A j \in 1..n : /\ Delimits(u, j, s) <=> D(j + 1)
                        /\ Delimits(u, j, s) /\ u[j].line.text = "begin" <=> B(j + 1)
    BY <1>1 DEF Delimits
  <1>3. s \in more <=> (s \in keys /\ ~D(1)) \/ B(1)
    <2> DEFINE line == t[1].line
    <2>1. t[1] \in EntrySet
      OBVIOUS
    <2>2. line.text \in {"plain", "begin", "end"}
      BY <2>1 DEF EntrySet, Lines
    <2>3. /\ D(1) <=> line.source = s /\ line.text # "plain"
          /\ B(1) <=> line.source = s /\ line.text = "begin"
      BY DEF Delimits
    <2>4. s \in more <=> IF line.text = "begin" THEN s \in keys \/ s = line.source
                       ELSE IF line.text = "end" THEN s \in keys /\ s # line.source
                       ELSE s \in keys
      BY DEF KeysAfter
    <2> HIDE DEF line, D, B, more
    <2> QED BY <2>2, <2>3, <2>4
  <1> HIDE DEF D, B, more
  <1>4. \A j \in 1..n : j + 1 \in 1..(n + 1)
    OBVIOUS
  <1>5. \A j \in 1..(n + 1) : j = 1 \/ (j - 1 \in 1..n /\ (j - 1) + 1 = j)
    OBVIOUS
  <1>6. Inside(more, u, n, s) <=>
           \/ s \in more /\ \A j \in 1..n : ~D(j + 1)
           \/ \E j \in 1..n : B(j + 1) /\ \A k \in (j + 1)..n : ~D(k + 1)
    <2>1. \A j \in 1..n : \A k \in (j + 1)..n : k \in 1..n
      OBVIOUS
    <2>2. \A j \in 1..n : (\A k \in (j + 1)..n : ~Delimits(u, k, s)) <=>
                          (\A k \in (j + 1)..n : ~D(k + 1))
      BY <1>2, <2>1
    <2> QED BY <1>2, <2>2 DEF Inside
  <1>7. Inside(keys, t, n + 1, s) <=>
           \/ s \in keys /\ \A j \in 1..(n + 1) : ~D(j)
           \/ \E j \in 1..(n + 1) : B(j) /\ \A k \in (j + 1)..(n + 1) : ~D(k)
    BY DEF Inside, D, B
  <1>8. \A j \in 0..n : (\A k \in (j + 1)..n : ~D(k + 1)) <=>
                        (\A k \in (j + 2)..(n + 1) : ~D(k))
    <2> SUFFICES ASSUME NEW j \in 0..n
                 PROVE  (\A k \in (j + 1)..n : ~D(k + 1)) <=> (\A k \in (j + 2)..(n + 1) : ~D(k))
      OBVIOUS
    <2>1. ASSUME \A k \in (j + 1)..n : ~D(k + 1), NEW k \in (j + 2)..(n + 1) PROVE ~D(k)
      <3>1. k - 1 \in (j + 1)..n /\ (k - 1) + 1 = k
        OBVIOUS
      <3>2. ~D((k - 1) + 1)
        BY <2>1, <3>1
      <3> QED BY <3>1, <3>2
    <2>2. ASSUME \A k \in (j + 2)..(n + 1) : ~D(k), NEW k \in (j + 1)..n PROVE ~D(k + 1)
      <3>1. k + 1 \in (j + 2)..(n + 1)
        OBVIOUS
      <3> QED BY <2>2, <3>1
    <2> QED BY <2>1, <2>2
  <1>9. (\A j \in 1..n : ~D(j + 1)) <=> (\A k \in 2..(n + 1) : ~D(k))
    <2>1. 0 \in 0..n /\ 0 + 1 = 1 /\ 0 + 2 = 2
      OBVIOUS
    <2> QED BY <1>8, <2>1
  <1>10. (\A j \in 1..(n + 1) : ~D(j)) <=> ~D(1) /\ \A k \in 2..(n + 1) : ~D(k)
    OBVIOUS
  <1>11. (\E j \in 1..(n + 1) : B(j) /\ \A k \in (j + 1)..(n + 1) : ~D(k)) <=>
            \/ B(1) /\ \A k \in 2..(n + 1) : ~D(k)
            \/ \E j \in 1..n : B(j + 1) /\ \A k \in (j + 2)..(n + 1) : ~D(k)
    <2> DEFINE Q(j) == B(j) /\ \A k \in (j + 1)..(n + 1) : ~D(k)
    <2>1. Q(1) <=> B(1) /\ \A k \in 2..(n + 1) : ~D(k)
      OBVIOUS
    <2>2. \A j \in 1..n : Q(j + 1) <=> B(j + 1) /\ \A k \in (j + 2)..(n + 1) : ~D(k)
      <3>1. \A j \in 1..n : (j + 1) + 1 = j + 2
        OBVIOUS
      <3> QED BY <3>1
    <2> HIDE DEF Q
    <2>3. (\E j \in 1..(n + 1) : Q(j)) <=> Q(1) \/ \E j \in 1..n : Q(j + 1)
      <3>1. 1 \in 1..(n + 1)
        OBVIOUS
      <3>2. ASSUME NEW j \in 1..(n + 1), Q(j) PROVE Q(1) \/ \E m \in 1..n : Q(m + 1)
        BY <1>5, <3>2
      <3> QED BY <1>4, <3>1, <3>2
    <2> QED BY <2>1, <2>2, <2>3 DEF Q
  <1>12. \A j \in 1..n : (\A k \in (j + 1)..n : ~D(k + 1)) <=>
                         (\A k \in (j + 2)..(n + 1) : ~D(k))
    BY <1>8
  <1>13. Inside(more, u, n, s) <=> Inside(keys, t, n + 1, s)
    <2>1. (\E j \in 1..n : B(j + 1) /\ \A k \in (j + 1)..n : ~D(k + 1)) <=>
          (\E j \in 1..n : B(j + 1) /\ \A k \in (j + 2)..(n + 1) : ~D(k))
      BY <1>12
    <2> DEFINE A == \A k \in 2..(n + 1) : ~D(k)
               X == \E j \in 1..n : B(j + 1) /\ \A k \in (j + 2)..(n + 1) : ~D(k)
    <2>2. Inside(more, u, n, s) <=> (s \in more /\ A) \/ X
      BY <1>6, <1>9, <2>1
    <2>3. Inside(keys, t, n + 1, s) <=> (s \in keys /\ ~D(1) /\ A) \/ (B(1) /\ A) \/ X
      BY <1>7, <1>10, <1>11
    <2> HIDE DEF A, X
    <2> QED BY <1>3, <2>2, <2>3
  <1> QED BY <1>1, <1>13 DEF u, more

\* The last delimiter of a source tells whether it is inside a key.
LEMMA InKeyMeans ==
    ASSUME NEW batch, NEW t, NEW N \in Nat, \A i \in 1..N : t[i].line = batch[i],
           NEW n \in 0..N, NEW s
    PROVE  InKey(batch, n, s) <=> Inside(truth, t, n, s)
  <1> DEFINE D(j) == Delimits(t, j, s)
             ds == {j \in 1..n : batch[j].source = s /\ batch[j].text # "plain"}
  <1>1. \A j \in 1..n : t[j].line = batch[j]
    OBVIOUS
  <1>2. \A j : j \in ds <=> j \in 1..n /\ D(j)
    BY <1>1 DEF Delimits
  <1>3. InKey(batch, n, s) <=> IF ds = {} THEN s \in truth ELSE batch[Max(ds)].text = "begin"
    BY DEF InKey
  <1>4. ds \in SUBSET (0..n) /\ n \in Nat
    OBVIOUS
  <1> HIDE DEF D, ds
  <1>5. Inside(truth, t, n, s) <=>
           \/ s \in truth /\ \A j \in 1..n : ~D(j)
           \/ \E j \in 1..n : /\ D(j) /\ t[j].line.text = "begin"
                              /\ \A k \in (j + 1)..n : ~D(k)
    BY DEF Inside, D
  <1>6. CASE ds = {}
    BY <1>2, <1>3, <1>5, <1>6
  <1>7. CASE ds # {}
    <2> DEFINE m == Max(ds)
    <2>1. m \in ds /\ \A y \in ds : y <= m
      BY <1>4, <1>7, MaxOf
    <2> HIDE DEF m
    <2>2. m \in 1..n /\ D(m) /\ t[m].line = batch[m]
      BY <1>1, <1>2, <2>1
    <2>3. \A k \in (m + 1)..n : ~D(k)
      <3> SUFFICES ASSUME NEW k \in (m + 1)..n, D(k) PROVE FALSE
        OBVIOUS
      <3>1. k \in ds
        BY <1>2, <2>2
      <3> QED BY <2>1, <2>2, <3>1
    <2>4. ASSUME NEW j \in 1..n, D(j), \A k \in (j + 1)..n : ~D(k) PROVE j = m
      <3>1. j <= m
        BY <1>2, <2>1, <2>4
      <3>2. ~(m \in (j + 1)..n)
        BY <2>2, <2>4
      <3> QED BY <2>2, <3>1, <3>2
    <2>5. Inside(truth, t, n, s) <=> t[m].line.text = "begin"
      BY <1>5, <2>2, <2>3, <2>4
    <2> QED BY <1>3, <1>7, <2>2, <2>5 DEF m
  <1> QED BY <1>6, <1>7

\* One more byte of the current segment is one more byte.
LEMMA LastGrows ==
    ASSUME NEW sizes \in Seq(Nat), sizes # <<>>,
           NEW more, more = [sizes EXCEPT ![Len(sizes)] = @ + 1]
    PROVE  /\ more \in Seq(Nat) /\ Len(more) = Len(sizes)
           /\ \A a \in 1..Len(sizes) :
                 more[a] = IF a = Len(sizes) THEN sizes[a] + 1 ELSE sizes[a]
           /\ Total(more) = Total(sizes) + 1
  <1> DEFINE N == Len(sizes)
             front == SubSeq(sizes, 1, N - 1)
             x == sizes[N]
  <1>1. N = Len(sizes) /\ N \in Nat /\ N # 0 /\ \A a \in 1..N : sizes[a] \in Nat
    OBVIOUS
  <1> HIDE DEF N
  <1>2. N \in 1..N /\ x \in Nat
    BY <1>1
  <1>3. /\ more \in Seq(Nat) /\ Len(more) = N
        /\ \A a \in 1..N : more[a] = IF a = N THEN sizes[a] + 1 ELSE sizes[a]
    BY <1>1, <1>2
  <1>4. front \in Seq(Nat) /\ Len(front) = N - 1 /\ \A a \in 1..(N - 1) : front[a] = sizes[a]
    <2>1. 1 \in Int /\ N - 1 \in Int /\ \A a \in 1..(N - 1) : sizes[a] \in Nat
      BY <1>1
    <2>2. /\ front \in Seq(Nat)
          /\ Len(front) = IF 1 <= N - 1 THEN (N - 1) - 1 + 1 ELSE 0
          /\ \A a \in 1..((N - 1) - 1 + 1) : front[a] = sizes[1 + a - 1]
      BY <2>1, SubSeqProperties
    <2> HIDE DEF front
    <2>3. Len(front) = N - 1
      BY <1>1, <2>2
    <2>4. \A a \in 1..(N - 1) : a \in 1..((N - 1) - 1 + 1) /\ 1 + a - 1 = a
      BY <1>1
    <2> QED BY <2>2, <2>3, <2>4
  <1> HIDE DEF front, x
  <1>5. \A a \in 1..N : a = N \/ a \in 1..(N - 1)
    BY <1>1
  <1>6. sizes = Append(front, x)
    <2> DEFINE s == Append(front, x)
    <2>1. s \in Seq(Nat) /\ Len(s) = N /\ s[N] = x /\ \A a \in 1..(N - 1) : s[a] = front[a]
      BY <1>1, <1>2, <1>4, AppendProperties
    <2> HIDE DEF s
    <2>2. \A a \in 1..N : s[a] = sizes[a]
      BY <1>4, <1>5, <2>1 DEF x
    <2>3. s = sizes
      BY <1>1, <2>1, <2>2, SeqEqual
    <2> QED BY <2>3 DEF s
  <1>7. more = Append(front, x + 1)
    <2> DEFINE s == Append(front, x + 1)
    <2>1. s \in Seq(Nat) /\ Len(s) = N /\ s[N] = x + 1 /\ \A a \in 1..(N - 1) : s[a] = front[a]
      BY <1>1, <1>2, <1>4, AppendProperties
    <2> HIDE DEF s
    <2>2. \A a \in 1..N : s[a] = more[a]
      <3> SUFFICES ASSUME NEW a \in 1..N PROVE s[a] = more[a]
        OBVIOUS
      <3>1. CASE a = N
        BY <1>3, <2>1, <3>1 DEF x
      <3>2. CASE a # N
        <4>1. a \in 1..(N - 1)
          BY <1>5, <3>2
        <4> QED BY <1>3, <1>4, <2>1, <3>2, <4>1
      <3> QED BY <3>1, <3>2
    <2>3. s = more
      BY <1>1, <1>3, <2>1, <2>2, SeqEqual
    <2> QED BY <2>3 DEF s
  <1>8. Total(sizes) = Total(front) + x /\ Total(more) = Total(front) + (x + 1)
    <2>1. \A y \in Nat : Total(Append(front, y)) = Total(front) + y
      BY <1>4, TotalParts
    <2>2. x \in Nat /\ x + 1 \in Nat
      BY <1>2
    <2>3. Total(Append(front, x)) = Total(front) + x
      BY <2>1, <2>2
    <2>4. Total(Append(front, x + 1)) = Total(front) + (x + 1)
      BY <2>1, <2>2
    <2> QED BY <1>6, <1>7, <2>3, <2>4
  <1>9. Total(front) \in Nat
    BY <1>4, TotalParts
  <1> QED BY <1>1, <1>2, <1>3, <1>8, <1>9

\* The rotation adds a new segment to those there are, with the current one synced.
LEMMA ReadyKeeps ==
    ASSUME NEW ss \in Seq(SegmentSet), SegmentsOK(ss), NEW r \in RecorderSet, Fits(r, ss),
           NEW tt, tt = Ready(r, ss).ss, NEW w, w = Ready(r, ss).r
    PROVE  /\ tt \in Seq(SegmentSet) /\ SegmentsOK(tt) /\ IdsOf(tt) = IdsOf(ss) /\ tt # <<>>
           /\ \A id \in Nat : /\ Held(ss, id) => Held(tt, id)
                              /\ Written(ss, id) /\ r.file => Written(tt, id)
           /\ w \in RecorderSet /\ SameSession(w, r) /\ Fits(w, tt) /\ w.file
           /\ Measures(r, ss) => Measures(w, tt)
           /\ w.metaBytes = r.metaBytes
           /\ Adds(r) => Adds(w)
  <1>1. /\ r.sizes \in Seq(Nat) /\ r.bytes \in Int /\ r.metaBytes \in Nat /\ r.file \in BOOLEAN
        /\ Len(r.sizes) = Len(ss) /\ Len(ss) \in Nat
        /\ DOMAIN ss = 1..Len(ss) /\ DOMAIN r.sizes = 1..Len(ss)
    BY RecorderFields DEF Fits
  <1>2. CASE r.file /\ ~Full(r)
    <2>1. tt = ss /\ w = r
      BY <1>2 DEF Ready
    <2> QED BY <1>2, <2>1 DEF Fits, SameSession
  <1>3. CASE ~(r.file /\ ~Full(r))
    <2> DEFINE uu == IF r.file THEN SyncLast(ss) ELSE ss
               sizes == Append(r.sizes, 0)
    <2>1. tt = Append(uu, NewSegment) /\ w = [r EXCEPT !.file = TRUE, !.sizes = sizes]
      BY <1>3 DEF Ready
    <2>2. /\ uu \in Seq(SegmentSet) /\ Len(uu) = Len(ss)
          /\ SegmentsOK(uu) /\ IdsOf(uu) = IdsOf(ss)
          /\ \A a \in 1..Len(ss) : Size(uu[a]) = Size(ss[a])
          /\ \A id \in Nat : /\ Held(ss, id) => Held(uu, id)
                             /\ Written(ss, id) /\ r.file => Synced(uu, id)
      <3>1. CASE r.file
        <4>1. uu = SyncLast(ss) /\ ss # <<>>
          BY <3>1 DEF Fits
        <4> HIDE DEF uu
        <4> QED BY <4>1, SyncLastKeeps
      <3>2. CASE ~r.file
        BY <3>2
      <3> QED BY <3>1, <3>2
    <2>3. sizes \in Seq(Nat) /\ Len(sizes) = Len(ss) + 1 /\ sizes[Len(ss) + 1] = 0
          /\ \A a \in 1..Len(ss) : sizes[a] = r.sizes[a]
      BY <1>1, AppendProperties
    <2>4. Total(sizes) = Total(r.sizes) + 0 /\ Total(r.sizes) \in Nat
      BY <1>1, TotalParts
    <2> HIDE DEF uu, sizes
    <2>5. /\ w \in RecorderSet /\ w.sizes = sizes /\ w.file = TRUE /\ w.bytes = r.bytes
          /\ w.metaBytes = r.metaBytes /\ w.last = r.last /\ w.keys = r.keys
          /\ w.closed = r.closed /\ w.pending = r.pending /\ w.writer = r.writer
      BY <2>1, <2>3 DEF RecorderSet
    <2>6. /\ tt \in Seq(SegmentSet) /\ Len(tt) = Len(uu) + 1
          /\ SegmentsOK(tt) /\ IdsOf(tt) = IdsOf(uu)
          /\ \A a \in 1..Len(uu) : Size(tt[a]) = Size(uu[a])
          /\ Size(tt[Len(uu) + 1]) = 0
          /\ \A id \in Nat : /\ Held(uu, id) => Held(tt, id)
                             /\ Synced(uu, id) => Written(tt, id)
      BY <2>1, <2>2, NewSegmentKeeps
    <2>7. tt # <<>>
      BY <1>1, <2>2, <2>6
    <2>8. Fits(w, tt)
      BY <2>2, <2>3, <2>5, <2>6, <2>7 DEF Fits
    <2>9. ASSUME Measures(r, ss) PROVE Measures(w, tt)
      <3> SUFFICES ASSUME NEW a \in DOMAIN tt PROVE w.sizes[a] = Size(tt[a])
        BY DEF Measures
      <3>1. a \in 1..Len(ss) \/ a = Len(ss) + 1
        BY <1>1, <2>2, <2>6
      <3>2. CASE a \in 1..Len(ss)
        BY <1>1, <2>2, <2>3, <2>5, <2>6, <2>9, <3>2 DEF Measures
      <3>3. CASE a = Len(ss) + 1
        BY <2>2, <2>3, <2>5, <2>6, <3>3
      <3> QED BY <3>1, <3>2, <3>3
    <2>10. Adds(r) => Adds(w)
      BY <1>1, <2>4, <2>5 DEF Adds
    <2>11. SameSession(w, r)
      BY <2>5 DEF SameSession
    <2> QED BY <2>2, <2>5, <2>6, <2>7, <2>8, <2>9, <2>10, <2>11
  <1> QED BY <1>2, <1>3

\* What WriteEntry does to the recorder it found ready.
Wrote(r, id) == [r EXCEPT !.sizes[Len(r.sizes)] = @ + 1, !.bytes = @ + 1, !.last = id]

\* The record is counted.
LEMMA WroteFields ==
    ASSUME NEW r \in RecorderSet, r.sizes # <<>>, NEW id \in 1..MaxId, NEW w, w = Wrote(r, id)
    PROVE  /\ w \in RecorderSet /\ w.last = id /\ w.keys = r.keys /\ w.closed = r.closed
           /\ w.pending = r.pending /\ w.writer = r.writer
           /\ w.file = r.file /\ w.metaBytes = r.metaBytes /\ Len(w.sizes) = Len(r.sizes)
           /\ \A a \in 1..Len(r.sizes) :
                 w.sizes[a] = IF a = Len(r.sizes) THEN r.sizes[a] + 1 ELSE r.sizes[a]
           /\ Adds(r) => Adds(w)
  <1> DEFINE sizes == [r.sizes EXCEPT ![Len(r.sizes)] = @ + 1]
             bytes == r.bytes + 1
  <1>1. r.sizes \in Seq(Nat) /\ r.bytes \in Int /\ r.metaBytes \in Nat
    BY RecorderFields
  <1>2. /\ sizes \in Seq(Nat) /\ Len(sizes) = Len(r.sizes)
        /\ \A a \in 1..Len(r.sizes) :
              sizes[a] = IF a = Len(r.sizes) THEN r.sizes[a] + 1 ELSE r.sizes[a]
        /\ Total(sizes) = Total(r.sizes) + 1
    BY <1>1, LastGrows
  <1>3. Total(r.sizes) \in Nat
    BY <1>1, TotalParts
  <1>4. w = [r EXCEPT !.sizes = sizes, !.bytes = bytes, !.last = id]
    BY DEF Wrote
  <1>5. bytes \in Int /\ bytes = r.bytes + 1 /\ id \in 0..MaxId
    BY <1>1, RecorderAssumption
  <1> HIDE DEF sizes, bytes
  <1>6. w \in RecorderSet
    BY <1>2, <1>4, <1>5 DEF RecorderSet
  <1>7. /\ w.sizes = sizes /\ w.bytes = bytes /\ w.last = id /\ w.keys = r.keys
        /\ w.closed = r.closed /\ w.pending = r.pending /\ w.writer = r.writer
        /\ w.file = r.file /\ w.metaBytes = r.metaBytes
    BY <1>4 DEF RecorderSet
  <1>8. Adds(r) => Adds(w)
    BY <1>1, <1>2, <1>3, <1>5, <1>7 DEF Adds
  <1> QED BY <1>2, <1>6, <1>7, <1>8

---------------------------------------------------------------------------
(* The steps.                                                              *)

\* The parts of the invariant that most steps need.
LEMMA WhenRecording ==
    ASSUME RecorderInv
    PROVE  /\ meta \in MetaSet /\ durable \in MetaSet
           /\ segs \in Seq(SegmentSet) /\ SegmentsOK(segs) /\ rec \in RecorderSet
           /\ todo \in Seq(EntrySet) /\ truth \in SUBSET Sources /\ acked \in SUBSET Nat
           /\ gone \in 0..MaxId /\ opens \in Nat
           /\ rec.last \in 0..MaxId /\ meta.last \in 0..MaxId /\ durable.last \in 0..MaxId
           /\ pc # "none" => Fits(rec, segs)
           /\ Live => rec.writer
           /\ IdsOf(segs) \in SUBSET (1..MaxId)
  <1>1. RecorderTypeOK /\ SegmentsOK(segs) /\ PhaseOK
    BY DEF RecorderInv
  <1>2. /\ meta \in MetaSet /\ durable \in MetaSet
        /\ segs \in Seq(SegmentSet) /\ rec \in RecorderSet
        /\ todo \in Seq(EntrySet) /\ truth \in SUBSET Sources /\ acked \in SUBSET Nat
        /\ gone \in 0..MaxId /\ opens \in Nat
    BY <1>1 DEF RecorderTypeOK
  <1>3. rec.last \in 0..MaxId /\ meta.last \in 0..MaxId /\ durable.last \in 0..MaxId
    BY <1>2, RecorderFields, MetaFields
  <1>4. pc # "none" => Fits(rec, segs)
    BY <1>1 DEF PhaseOK, Fits
  <1>5. Live => rec.writer
    BY <1>1 DEF PhaseOK
  <1> QED BY <1>1, <1>2, <1>3, <1>4, <1>5, IdsMember

\* What was acknowledged is still held, or was evicted.
LEMMA AckedKept ==
    ASSUME RecorderInv, Keeps(segs, gone, segs', gone'), acked' = acked
    PROVE  AckedOK'
  <1>1. gone' \in Nat /\ gone \in Nat /\ gone <= gone' /\ acked \in SUBSET Nat
    BY WhenRecording, RecorderAssumption DEF Keeps
  <1>2. ASSUME NEW id \in acked PROVE id <= gone' \/ Held(segs', id)
    <2>1. id \in Nat /\ (id <= gone \/ Held(segs, id))
      BY <1>1 DEF RecorderInv, AckedOK
    <2>2. Held(segs, id) => Held(segs', id) \/ id <= gone'
      BY <2>1 DEF Keeps
    <2> QED BY <1>1, <2>1, <2>2
  <1> QED BY <1>2 DEF AckedOK, Held

\* The recorder is closed, or closing, whatever is left of the segments.
LEMMA StopKeeps ==
    ASSUME RecorderInv, pc' \in {"none", "closing"}, Keeps(segs, gone, segs', gone'),
           meta' \in MetaSet, durable' \in MetaSet, Exact(meta'), Exact(durable'),
           \A id \in acked : id <= meta'.last /\ id <= durable'.last,
           rec' \in RecorderSet, pc' # "none" => Fits(rec', segs'),
           todo' = <<>>, UNCHANGED <<ghosts, opens>>
    PROVE  RecorderInv'
  <1>1. truth' = truth /\ acked' = acked /\ opens' = opens
    BY DEF ghosts
  <1>2. RecorderTypeOK'
    <2>1. todo' \in Seq(EntrySet) /\ pc' \in Phases
      BY DEF Phases
    <2> QED BY <1>1, <2>1, WhenRecording DEF RecorderTypeOK, Keeps
  <1>3. ~Live' /\ pc' \notin {"intent", "entries", "checkpoint"}
    BY DEF Live
  <1>4. PhaseOK'
    <2>1. rec'.last \in 0..MaxId /\ Len(todo') = 0 /\ DOMAIN todo' = {}
      BY RecorderFields
    <2>2. rec'.last + Len(todo') <= MaxId
      BY <2>1, RecorderAssumption
    <2> QED BY <1>3, <2>1, <2>2 DEF PhaseOK, Fits
  <1>5. SegmentsOK(segs)'
    BY DEF Keeps
  <1>6. KeysOK' /\ BytesOK'
    BY <1>3 DEF KeysOK, BytesOK
  <1>7. MetaOK'
    BY <1>1, <1>3 DEF MetaOK, Exact
  <1>8. LastOK'
    BY <1>1, <1>3 DEF LastOK
  <1>9. AckedOK'
    BY <1>1, AckedKept
  <1>10. BatchOK'
    BY <1>3 DEF BatchOK
  <1> QED BY <1>2, <1>4, <1>5, <1>6, <1>7, <1>8, <1>9, <1>10 DEF RecorderInv

\* A batch failed, whatever is left of the segments.
LEMMA FailKeeps ==
    ASSUME RecorderInv, pc' = "idle", Keeps(segs, gone, segs', gone'), Live,
           meta' \in MetaSet, durable' \in MetaSet, meta'.writer, durable'.writer,
           meta'.last <= rec.last,
           \A id \in acked : id <= meta'.last /\ id <= durable'.last,
           rec' \in RecorderSet, Fits(rec', segs'), rec'.closed, rec'.pending,
           rec'.writer, rec'.last = rec.last,
           todo' = <<>>, UNCHANGED <<ghosts, opens>>
    PROVE  RecorderInv'
  <1>1. truth' = truth /\ acked' = acked /\ opens' = opens
    BY DEF ghosts
  <1>2. RecorderTypeOK'
    <2>1. todo' \in Seq(EntrySet) /\ pc' \in Phases
      BY DEF Phases
    <2> QED BY <1>1, <2>1, WhenRecording DEF RecorderTypeOK, Keeps
  <1>3. Live' /\ pc' \notin {"intent", "entries", "checkpoint"}
    BY DEF Live
  <1>4. PhaseOK'
    <2>1. rec'.last \in 0..MaxId /\ Len(todo') = 0 /\ DOMAIN todo' = {}
      BY RecorderFields
    <2>2. rec'.last + Len(todo') <= MaxId
      BY <2>1, RecorderAssumption
    <2> QED BY <1>3, <2>1, <2>2 DEF PhaseOK, Fits
  <1>5. SegmentsOK(segs)'
    BY DEF Keeps
  <1>6. KeysOK' /\ BytesOK'
    BY DEF KeysOK, BytesOK
  <1>7. MetaOK'
    BY DEF MetaOK, Exact
  <1>8. LastOK'
    <2>1. \A id \in IdsOf(segs') : id <= rec.last
      BY DEF RecorderInv, LastOK, Keeps
    <2> QED BY <1>1, <2>1 DEF LastOK
  <1>9. AckedOK'
    BY <1>1, AckedKept
  <1>10. BatchOK'
    BY <1>3 DEF BatchOK
  <1> QED BY <1>2, <1>4, <1>5, <1>6, <1>7, <1>8, <1>9, <1>10 DEF RecorderInv

\* A session.json that a failed save may leave.
LEMMA MetaKept ==
    ASSUME RecorderInv, Live, NEW r \in RecorderSet, r.last = rec.last,
           meta' \in {meta, MetaOf(r)}, durable' \in {durable, MetaOf(r)}
    PROVE  /\ meta' \in MetaSet /\ durable' \in MetaSet
           /\ meta'.last <= rec.last
           /\ \A id \in acked : id <= meta'.last /\ id <= durable'.last
           /\ r.writer /\ pc # "opening" => meta'.writer /\ durable'.writer
           /\ r.writer => Exact(meta') /\ Exact(durable')
  <1>1. MetaOf(r) \in MetaSet /\ MetaOf(r).last = rec.last /\ MetaOf(r).writer = r.writer
    BY MetaOfFields
  <1>2. /\ \A id \in acked : id <= meta.last /\ id <= durable.last
        /\ meta.last <= rec.last
    BY DEF RecorderInv, LastOK
  <1>3. Exact(meta) /\ Exact(durable) /\ (pc # "opening" => meta.writer /\ durable.writer)
    BY DEF RecorderInv, MetaOK
  <1>4. acked \in SUBSET Nat /\ rec.last \in Nat /\ meta.last \in Nat /\ durable.last \in Nat
    BY WhenRecording, RecorderAssumption
  <1>5. \A id \in acked : id <= rec.last
    BY <1>2, <1>4
  <1>6. meta'.last <= rec.last /\ \A id \in acked : id <= meta'.last /\ id <= durable'.last
    <2>1. meta'.last = meta.last \/ meta'.last = rec.last
      BY <1>1
    <2>2. durable'.last = durable.last \/ durable'.last = rec.last
      BY <1>1
    <2>3. meta'.last <= rec.last /\ \A id \in acked : id <= meta'.last
      BY <1>2, <1>4, <1>5, <2>1
    <2>4. \A id \in acked : id <= durable'.last
      BY <1>2, <1>5, <2>2
    <2> QED BY <2>3, <2>4
  <1>7. r.writer /\ pc # "opening" => meta'.writer /\ durable'.writer
    BY <1>1, <1>3
  <1>8. r.writer => Exact(meta') /\ Exact(durable')
    BY <1>1, <1>3 DEF Exact
  <1> QED BY <1>1, <1>6, <1>7, <1>8, WhenRecording

\* The intent or the checkpoint of a batch cannot be saved.
LEMMA SaveFailsStops ==
    ASSUME RecorderInv, Live, pc # "opening", SaveFails(rec, Failed(rec)), pc' = "idle",
           todo' = <<>>, UNCHANGED <<ghosts, opens>>
    PROVE  RecorderInv'
  <1> DEFINE k == Failed(rec)
  <1>1. /\ rec \in RecorderSet /\ rec.writer /\ Fits(rec, segs) /\ SaveFails(rec, k)
        /\ segs \in Seq(SegmentSet) /\ SegmentsOK(segs) /\ gone \in 0..MaxId
    BY WhenRecording DEF Live
  <1>2. /\ k \in RecorderSet /\ k.closed /\ k.pending
        /\ k.last = rec.last /\ k.writer = rec.writer
        /\ k.file = rec.file /\ k.sizes = rec.sizes
    BY <1>1, FailedFields
  <1> HIDE DEF k
  <1>3. Fits(k, segs)
    BY <1>1, <1>2 DEF Fits
  <1>4. /\ meta' \in {meta, MetaOf(rec)} /\ durable' \in {durable, MetaOf(rec)}
        /\ Keeps(segs, gone, segs', gone')
        /\ rec' \in RecorderSet /\ SameSession(rec', k) /\ Fits(rec', segs')
    BY <1>1, <1>2, <1>3, SaveFailsEffect
  <1>5. rec'.closed /\ rec'.pending /\ rec'.writer /\ rec'.last = rec.last
    BY <1>1, <1>2, <1>4 DEF SameSession
  <1>6. /\ meta' \in MetaSet /\ durable' \in MetaSet
        /\ meta'.last <= rec.last
        /\ \A id \in acked : id <= meta'.last /\ id <= durable'.last
        /\ meta'.writer /\ durable'.writer
    BY <1>1, <1>4, MetaKept
  <1> QED BY <1>4, <1>5, <1>6, FailKeeps

\* The session.json of a recording that is opened cannot be saved.
LEMMA OpenMetaFailsStep == RecorderInv /\ OpenMetaFails => RecorderInv'
  <1> SUFFICES ASSUME RecorderInv, OpenMetaFails PROVE RecorderInv'
    OBVIOUS
  <1>1. /\ pc = "opening" /\ SaveFails(rec, rec) /\ pc' = "none"
        /\ todo' = todo /\ UNCHANGED <<ghosts, opens>>
    BY DEF OpenMetaFails
  <1>2. Live /\ rec.writer /\ Fits(rec, segs) /\ todo' = <<>>
    BY <1>1, WhenRecording DEF Live, RecorderInv, PhaseOK
  <1>3. /\ meta' \in {meta, MetaOf(rec)} /\ durable' \in {durable, MetaOf(rec)}
        /\ Keeps(segs, gone, segs', gone') /\ rec' \in RecorderSet
    BY <1>1, <1>2, WhenRecording, SaveFailsEffect
  <1> QED BY <1>1, <1>2, <1>3, WhenRecording, MetaKept, StopKeeps

\* The intent cannot be saved.
LEMMA IntentFailsStep == RecorderInv /\ IntentFails => RecorderInv'
  <1> SUFFICES ASSUME RecorderInv, IntentFails PROVE RecorderInv'
    OBVIOUS
  <1>1. /\ pc = "intent" /\ SaveFails(rec, Failed(rec)) /\ pc' = "idle"
        /\ todo' = <<>> /\ UNCHANGED <<ghosts, opens>>
    BY DEF IntentFails, GiveUp
  <1> QED BY <1>1, SaveFailsStops DEF Live

\* The checkpoint cannot be saved.
LEMMA CheckpointFailsStep == RecorderInv /\ CheckpointFails => RecorderInv'
  <1> SUFFICES ASSUME RecorderInv, CheckpointFails PROVE RecorderInv'
    OBVIOUS
  <1>1. /\ pc = "checkpoint" /\ SaveFails(rec, Failed(rec)) /\ pc' = "idle"
        /\ todo' = <<>> /\ UNCHANGED <<ghosts, opens>>
    BY DEF CheckpointFails, GiveUp
  <1> QED BY <1>1, SaveFailsStops DEF Live

\* A segment is cut off at its last whole record, or torn.
LEMMA TornKeeps ==
    ASSUME NEW ss \in Seq(SegmentSet), SegmentsOK(ss), NEW g \in 0..MaxId,
           NEW tt, tt = [a \in DOMAIN ss |-> tt[a]],
           \A a \in DOMAIN ss :
              \/ tt[a] = ss[a]
              \/ \E b \in BOOLEAN : tt[a] = [ss[a] EXCEPT !.torn = b]
    PROVE  Keeps(ss, g, tt, g) /\ Len(tt) = Len(ss)
  <1>1. DOMAIN ss = 1..Len(ss) /\ Len(ss) \in Nat /\ \A a \in 1..Len(ss) : ss[a] \in SegmentSet
    OBVIOUS
  <1>2. ASSUME NEW a \in 1..Len(ss)
        PROVE  /\ tt[a] \in SegmentSet /\ tt[a].recs = ss[a].recs
               /\ tt[a].synced = ss[a].synced /\ tt[a].linked = ss[a].linked
    <2>1. CASE tt[a] = ss[a]
      BY <1>1, <2>1
    <2>2. CASE \E b \in BOOLEAN : tt[a] = [ss[a] EXCEPT !.torn = b]
      <3>1. PICK b \in BOOLEAN : tt[a] = [ss[a] EXCEPT !.torn = b]
        BY <2>2
      <3> QED BY <1>1, <3>1, SegmentUpdates
    <2> QED BY <1>1, <2>1, <2>2
  <1>3. tt \in Seq(SegmentSet) /\ Len(tt) = Len(ss)
    BY <1>1, <1>2, IsASeq
  <1>4. \A a \in 1..Len(ss) : ss[a].synced \in Nat /\ ss[a].synced <= Len(ss[a].recs)
    BY <1>1, SegmentFields DEF SegmentsOK, SegmentOK
  <1>5. \A a \in 1..Len(ss) : /\ tt[a].recs = ss[a].recs
                              /\ ss[a].synced <= tt[a].synced
                              /\ tt[a].synced <= Len(ss[a].recs)
                              /\ ss[a].linked => tt[a].linked
    <2> SUFFICES ASSUME NEW a \in 1..Len(ss)
                 PROVE  /\ tt[a].recs = ss[a].recs
                        /\ ss[a].synced <= tt[a].synced
                        /\ tt[a].synced <= Len(ss[a].recs)
                        /\ ss[a].linked => tt[a].linked
      OBVIOUS
    <2>1. /\ tt[a].recs = ss[a].recs
          /\ tt[a].synced = ss[a].synced /\ tt[a].linked = ss[a].linked
      BY <1>2
    <2>2. ss[a].synced \in Nat /\ ss[a].synced <= Len(ss[a].recs)
      BY <1>4
    <2> QED BY <2>1, <2>2
  <1>6. /\ SegmentsOK(tt) /\ IdsOf(tt) = IdsOf(ss)
        /\ \A id \in Nat : Held(ss, id) => Held(tt, id)
    BY <1>3, <1>5, SameRecords
  <1>7. g <= g
    BY RecorderAssumption
  <1> QED BY <1>3, <1>6, <1>7 DEF Keeps

\* The redactor follows the next line, and the oldest segments are evicted.
LEMMA Evicted ==
    ASSUME RecorderInv, pc = "entries", todo # <<>>, NEW n \in 0..Len(segs),
           NEW tt, tt = Rest(n), NEW h, h = Newest(SubSeq(segs, 1, n)),
           NEW w, w = Without(Tracked, n)
    PROVE  /\ Keeps(segs, gone, tt, h)
           /\ \A id \in Nat : Written(segs, id) => Written(tt, id) \/ id <= h
           /\ w \in RecorderSet /\ Fits(w, tt)
           /\ w.last = rec.last /\ w.writer = rec.writer /\ w.pending = rec.pending
           /\ w.file = (rec.file /\ n < Len(segs)) /\ (n = Len(segs) => tt = <<>>)
           /\ ~w.closed => ~rec.closed /\ w.keys = KeysAfter(rec.keys, Head(todo).line)
           /\ Measures(rec, segs) => Measures(w, tt)
           /\ w.metaBytes = rec.metaBytes
           /\ Adds(rec) => Adds(w)
  <1> DEFINE line == Head(todo).line
             r == Tracked
  <1>1. /\ rec \in RecorderSet /\ Fits(rec, segs) /\ gone \in 0..MaxId
        /\ segs \in Seq(SegmentSet) /\ SegmentsOK(segs) /\ todo \in Seq(EntrySet)
    BY WhenRecording
  <1>2. line \in Lines
    <2>1. Head(todo) \in EntrySet
      BY <1>1
    <2> QED BY <2>1 DEF EntrySet
  <1>3. r = Track(rec, line)
    BY DEF Tracked
  <1> HIDE DEF line, r
  <1>4. /\ r \in RecorderSet /\ r.pending = rec.pending
        /\ r.last = rec.last /\ r.writer = rec.writer
        /\ r.file = rec.file /\ r.sizes = rec.sizes
        /\ r.bytes = rec.bytes /\ r.metaBytes = rec.metaBytes
        /\ ~r.closed => ~rec.closed /\ r.keys = KeysAfter(rec.keys, line)
    BY <1>1, <1>2, <1>3, TrackFields
  <1>5. Fits(r, segs) /\ (Measures(rec, segs) => Measures(r, segs)) /\ (Adds(rec) => Adds(r))
    BY <1>1, <1>4 DEF Fits, Measures, Adds
  <1>6. Leaves(segs, n, tt, h) /\ w = Without(r, n)
    BY DEF Leaves, Rest, r
  <1>7. /\ Keeps(segs, gone, tt, h)
        /\ \A id \in Nat : Written(segs, id) => Written(tt, id) \/ id <= h
        /\ w \in RecorderSet /\ SameSession(w, r) /\ Fits(w, tt) /\ (n = Len(segs) => tt = <<>>)
        /\ Measures(r, segs) => Measures(w, tt)
        /\ w.metaBytes = r.metaBytes /\ w.file = (r.file /\ n < Len(r.sizes))
        /\ Adds(r) => Adds(w)
    <2>1. /\ segs \in Seq(SegmentSet) /\ SegmentsOK(segs) /\ gone \in 0..MaxId
          /\ r \in RecorderSet /\ Fits(r, segs) /\ n \in 0..Len(segs)
      BY <1>1, <1>4, <1>5
    <2> QED BY <1>6, <2>1, EvictKeeps
  <1>8. Len(r.sizes) = Len(segs)
    BY <1>5 DEF Fits
  <1> QED BY <1>4, <1>5, <1>7, <1>8 DEF SameSession, line

\* A batch fails while its entries are written; session.json stays as it is.
LEMMA EntriesFail ==
    ASSUME RecorderInv, pc = "entries", UNCHANGED <<meta, durable>>, GiveUp,
           Keeps(segs, gone, segs', gone'),
           rec' \in RecorderSet, Fits(rec', segs'), rec'.closed, rec'.pending,
           rec'.writer = rec.writer, rec'.last = rec.last
    PROVE  RecorderInv'
  <1>1. Live /\ pc # "opening" /\ rec \in RecorderSet /\ rec.writer
    BY WhenRecording DEF Live
  <1>2. /\ meta' \in MetaSet /\ durable' \in MetaSet
        /\ meta'.last <= rec.last
        /\ \A id \in acked : id <= meta'.last /\ id <= durable'.last
        /\ meta'.writer /\ durable'.writer
    BY <1>1, MetaKept
  <1>3. pc' = "idle" /\ todo' = <<>> /\ UNCHANGED <<ghosts, opens>>
    BY DEF GiveUp
  <1> QED BY <1>1, <1>2, <1>3, FailKeeps

\* An entry is too large.
LEMMA EntryRefusedStep == RecorderInv /\ EntryRefused => RecorderInv'
  <1> SUFFICES ASSUME RecorderInv, EntryRefused PROVE RecorderInv'
    OBVIOUS
  <1> DEFINE r == Tracked
  <1>1. /\ pc = "entries" /\ todo # <<>> /\ rec' = Failed(r) /\ GiveUp
        /\ meta' = meta /\ durable' = durable /\ segs' = segs /\ gone' = gone
    BY DEF EntryRefused, disk
  <1>2. /\ rec \in RecorderSet /\ Fits(rec, segs) /\ gone \in 0..MaxId
        /\ segs \in Seq(SegmentSet) /\ SegmentsOK(segs) /\ todo \in Seq(EntrySet)
    BY <1>1, WhenRecording
  <1>3. Head(todo).line \in Lines
    <2>1. Head(todo) \in EntrySet
      BY <1>1, <1>2
    <2> QED BY <2>1 DEF EntrySet
  <1>4. /\ r \in RecorderSet /\ r.last = rec.last /\ r.writer = rec.writer
        /\ r.file = rec.file /\ r.sizes = rec.sizes
    BY <1>2, <1>3, TrackFields DEF Tracked
  <1> HIDE DEF r
  <1>5. /\ rec' \in RecorderSet /\ rec'.closed /\ rec'.pending
        /\ rec'.last = rec.last /\ rec'.writer = rec.writer
        /\ rec'.file = rec.file /\ rec'.sizes = rec.sizes
    BY <1>1, <1>4, FailedFields
  <1>6. Fits(rec', segs')
    BY <1>1, <1>2, <1>5 DEF Fits
  <1>7. Keeps(segs, gone, segs', gone')
    BY <1>1, <1>2, SameKeeps
  <1> QED BY <1>1, <1>5, <1>6, <1>7, EntriesFail

\* The records of a batch cannot be synced.
LEMMA SyncFailsStep == RecorderInv /\ SyncFails => RecorderInv'
  <1> SUFFICES ASSUME RecorderInv, SyncFails PROVE RecorderInv'
    OBVIOUS
  <1>1. /\ pc = "entries" /\ rec' = Failed(rec) /\ GiveUp
        /\ meta' = meta /\ durable' = durable /\ segs' = segs /\ gone' = gone
    BY DEF SyncFails, disk
  <1>2. /\ rec \in RecorderSet /\ Fits(rec, segs) /\ gone \in 0..MaxId
        /\ segs \in Seq(SegmentSet) /\ SegmentsOK(segs)
    BY <1>1, WhenRecording
  <1>3. /\ rec' \in RecorderSet /\ rec'.closed /\ rec'.pending
        /\ rec'.last = rec.last /\ rec'.writer = rec.writer
        /\ rec'.file = rec.file /\ rec'.sizes = rec.sizes
    BY <1>1, <1>2, FailedFields
  <1>4. Fits(rec', segs')
    BY <1>1, <1>2, <1>3 DEF Fits
  <1>5. Keeps(segs, gone, segs', gone')
    BY <1>1, <1>2, SameKeeps
  <1> QED BY <1>1, <1>3, <1>4, <1>5, EntriesFail

\* A removal, the rotation or the new segment fails.
LEMMA NoRoomStep == RecorderInv /\ NoRoom => RecorderInv'
  <1> SUFFICES ASSUME RecorderInv, NoRoom PROVE RecorderInv'
    OBVIOUS
  <1>1. pc = "entries" /\ todo # <<>> /\ GiveUp /\ meta' = meta /\ durable' = durable
    BY DEF NoRoom
  <1>2. PICK n \in 0..Len(segs), open \in BOOLEAN :
           /\ Evict(n, segs)
           /\ rec' = [Failed(Without(Tracked, n)) EXCEPT !.file = @ /\ open]
    BY DEF NoRoom
  <1>3. segs' = Rest(n) /\ gone' = Newest(SubSeq(segs, 1, n))
    BY <1>2 DEF Evict, Rest
  <1> DEFINE w == Without(Tracked, n)
             k == Failed(w)
  <1>4. /\ Keeps(segs, gone, segs', gone')
        /\ w \in RecorderSet /\ Fits(w, segs')
        /\ w.last = rec.last /\ w.writer = rec.writer
    BY <1>1, <1>3, Evicted
  <1> HIDE DEF w
  <1>5. /\ k \in RecorderSet /\ k.closed /\ k.pending
        /\ k.last = w.last /\ k.writer = w.writer
        /\ k.file = w.file /\ k.sizes = w.sizes
    BY <1>4, FailedFields
  <1>6. rec' = [k EXCEPT !.file = k.file /\ open]
    BY <1>2 DEF w
  <1> HIDE DEF k
  <1>7. /\ rec' \in RecorderSet /\ SameSession(rec', k) /\ rec'.sizes = k.sizes
        /\ rec'.file = (k.file /\ open)
    BY <1>5, <1>6, FileFields
  <1>8. /\ rec'.closed /\ rec'.pending /\ rec'.writer = rec.writer /\ rec'.last = rec.last
    BY <1>4, <1>5, <1>7 DEF SameSession
  <1>9. Fits(rec', segs')
    BY <1>4, <1>5, <1>7 DEF Fits
  <1> QED BY <1>1, <1>4, <1>7, <1>8, <1>9, EntriesFail

\* The write of a record fails or is short.
LEMMA WriteFailsStep == RecorderInv /\ WriteFails => RecorderInv'
  <1> SUFFICES ASSUME RecorderInv, WriteFails PROVE RecorderInv'
    OBVIOUS
  <1>1. pc = "entries" /\ todo # <<>> /\ GiveUp /\ meta' = meta /\ durable' = durable
    BY DEF WriteFails
  <1>2. PICK n \in 0..Len(segs), torn \in BOOLEAN :
           /\ gone' = Newest(SubSeq(segs, 1, n))
           /\ LET ready == Ready(Without(Tracked, n), Rest(n))
              IN  /\ segs' = [ready.ss EXCEPT ![Len(ready.ss)].torn = torn]
                  /\ rec' = Failed(ready.r)
    BY DEF WriteFails
  <1> DEFINE w == Without(Tracked, n)
             tt == Rest(n)
             uu == Ready(w, tt).ss
             k == Ready(w, tt).r
  <1>3. /\ Keeps(segs, gone, tt, gone')
        /\ w \in RecorderSet /\ Fits(w, tt)
        /\ w.last = rec.last /\ w.writer = rec.writer
    BY <1>1, <1>2, Evicted
  <1>4. segs' = [uu EXCEPT ![Len(uu)].torn = torn] /\ rec' = Failed(k)
    BY <1>2
  <1> HIDE DEF w, tt
  <1>5. tt \in Seq(SegmentSet) /\ SegmentsOK(tt)
    BY <1>3 DEF Keeps
  <1>6. /\ uu \in Seq(SegmentSet) /\ SegmentsOK(uu) /\ IdsOf(uu) = IdsOf(tt) /\ uu # <<>>
        /\ \A id \in Nat : Held(tt, id) => Held(uu, id)
        /\ k \in RecorderSet /\ SameSession(k, w) /\ Fits(k, uu)
    BY <1>3, <1>5, ReadyKeeps
  <1> HIDE DEF uu, k
  <1>7. gone' \in 0..MaxId /\ gone \in 0..MaxId
    BY <1>3, WhenRecording DEF Keeps
  <1>8. Keeps(tt, gone', uu, gone')
    <2>1. gone' <= gone'
      BY <1>7, RecorderAssumption
    <2> QED BY <1>6, <1>7, <2>1 DEF Keeps
  <1>9. Keeps(uu, gone', segs', gone') /\ Len(segs') = Len(uu)
    <2> DEFINE s == [uu[Len(uu)] EXCEPT !.torn = torn]
    <2>1. segs' = [uu EXCEPT ![Len(uu)] = s] /\ Len(uu) \in DOMAIN uu
      BY <1>4, <1>6
    <2>2. segs' = [a \in DOMAIN uu |-> segs'[a]]
      BY <2>1
    <2>3. ASSUME NEW a \in DOMAIN uu
          PROVE  segs'[a] = uu[a] \/ \E b \in BOOLEAN : segs'[a] = [uu[a] EXCEPT !.torn = b]
      <3>1. CASE a = Len(uu)
        BY <2>1, <3>1
      <3>2. CASE a # Len(uu)
        BY <2>1, <3>2
      <3> QED BY <3>1, <3>2
    <2> HIDE DEF s
    <2> QED BY <1>6, <1>7, <2>2, <2>3, TornKeeps
  <1>10. Keeps(segs, gone, segs', gone')
    BY <1>3, <1>7, <1>8, <1>9, KeepsTwice
  <1>11. /\ rec' \in RecorderSet /\ rec'.closed /\ rec'.pending
         /\ rec'.last = k.last /\ rec'.writer = k.writer
         /\ rec'.file = k.file /\ rec'.sizes = k.sizes
    BY <1>4, <1>6, FailedFields
  <1>12. rec'.last = rec.last /\ rec'.writer = rec.writer
    BY <1>3, <1>6, <1>11 DEF SameSession
  <1>13. Fits(rec', segs')
    <2>1. segs' # <<>>
      BY <1>6, <1>9
    <2> QED BY <1>6, <1>9, <1>11, <2>1 DEF Fits
  <1> QED BY <1>1, <1>10, <1>11, <1>12, <1>13, EntriesFail

\* No recorder.
LEMMA NoRecorderType == NoRecorder \in RecorderSet
  <1>1. {} \in KeySets /\ <<>> \in Seq(Nat) /\ 0 \in 0..MaxId
    BY FS_EmptySet, RecorderAssumption DEF KeySets
  <1> QED BY <1>1 DEF NoRecorder, RecorderSet

\* What is acknowledged is covered by session.json, which tells the open keys.
LEMMA WhenStopping ==
    ASSUME RecorderInv
    PROVE  /\ \A id \in acked : id <= meta.last /\ id <= durable.last
           /\ Exact(meta) /\ Exact(durable)
           /\ pc \notin {"intent", "entries"} => todo = <<>>
  BY DEF RecorderInv, LastOK, MetaOK, PhaseOK

\* The end of a torn segment cannot be cut off.
LEMMA RepairFailsStep == RecorderInv /\ RepairFails => RecorderInv'
  <1> SUFFICES ASSUME RecorderInv, RepairFails PROVE RecorderInv'
    OBVIOUS
  <1>1. /\ pc = "repair" /\ pc' = "none" /\ todo' = todo /\ rec' = rec
        /\ meta' = meta /\ durable' = durable /\ gone' = gone /\ UNCHANGED <<ghosts, opens>>
    BY DEF RepairFails
  <1>2. PICK n \in 0..(Len(segs) - 1) :
           segs' = [i \in DOMAIN segs |->
                       IF i <= n THEN [segs[i] EXCEPT !.torn = FALSE] ELSE segs[i]]
    BY DEF RepairFails
  <1>3. /\ segs \in Seq(SegmentSet) /\ SegmentsOK(segs) /\ gone \in 0..MaxId
        /\ meta \in MetaSet /\ durable \in MetaSet /\ rec \in RecorderSet
    BY WhenRecording
  <1>4. Keeps(segs, gone, segs', gone')
    <2> DEFINE tt == segs'
    <2>1. tt = [a \in DOMAIN segs |-> tt[a]]
      BY <1>2
    <2>2. ASSUME NEW a \in DOMAIN segs
          PROVE  tt[a] = segs[a] \/ \E b \in BOOLEAN : tt[a] = [segs[a] EXCEPT !.torn = b]
      <3>1. tt[a] = segs[a] \/ tt[a] = [segs[a] EXCEPT !.torn = FALSE]
        BY <1>2
      <3> HIDE DEF tt
      <3> QED BY <3>1
    <2> HIDE DEF tt
    <2>3. Keeps(segs, gone, tt, gone)
      BY <1>3, <2>1, <2>2, TornKeeps
    <2> QED BY <1>1, <2>3 DEF tt
  <1> QED BY <1>1, <1>3, <1>4, WhenStopping, StopKeeps

\* The current file is closed, synced or not.
LEMMA CloseFileStep == RecorderInv /\ CloseFile => RecorderInv'
  <1> SUFFICES ASSUME RecorderInv, CloseFile PROVE RecorderInv'
    OBVIOUS
  <1>1. /\ pc = "closing" /\ pc' = "none" /\ todo' = todo /\ rec' = NoRecorder
        /\ meta' = meta /\ durable' = durable /\ gone' = gone /\ UNCHANGED <<ghosts, opens>>
        /\ segs' = segs \/ (rec.file /\ segs' = SyncLast(segs))
    BY DEF CloseFile
  <1>2. /\ segs \in Seq(SegmentSet) /\ SegmentsOK(segs) /\ gone \in 0..MaxId
        /\ meta \in MetaSet /\ durable \in MetaSet /\ Fits(rec, segs)
    BY <1>1, WhenRecording
  <1>3. Keeps(segs, gone, segs', gone')
    <2>1. CASE segs' = segs
      BY <1>1, <1>2, <2>1, SameKeeps
    <2>2. CASE rec.file /\ segs' = SyncLast(segs)
      <3>1. segs # <<>>
        BY <1>2, <2>2 DEF Fits
      <3>2. /\ segs' \in Seq(SegmentSet) /\ SegmentsOK(segs') /\ IdsOf(segs') = IdsOf(segs)
            /\ \A id \in Nat : Held(segs, id) => Held(segs', id)
        BY <1>2, <2>2, <3>1, SyncLastKeeps
      <3>3. gone <= gone
        BY <1>2, RecorderAssumption
      <3> QED BY <1>1, <1>2, <3>2, <3>3 DEF Keeps
    <2> QED BY <1>1, <2>1, <2>2
  <1> QED BY <1>1, <1>2, <1>3, NoRecorderType, WhenStopping, StopKeeps

\* Between batches a redactor that is not closed knows exactly the open keys.
LEMMA IdleKeys ==
    ASSUME RecorderInv, Live, todo = <<>>, ~rec.closed
    PROVE  rec.keys = truth
  <1>1. \A s \in Sources : s \in truth <=> Inside(rec.keys, todo, Len(todo), s)
    BY DEF RecorderInv, KeysOK
  <1>2. Len(todo) = 0
    OBVIOUS
  <1>3. \A s : Inside(rec.keys, todo, 0, s) <=> s \in rec.keys
    BY DEF Inside
  <1>4. rec.keys \in SUBSET Sources /\ truth \in SUBSET Sources
    BY WhenRecording, RecorderFields DEF KeySets
  <1> QED BY <1>1, <1>2, <1>3, <1>4

\* The last session.json of a recorder tells the open keys, or fails.
LEMMA CloseStep == RecorderInv /\ Close => RecorderInv'
  <1> SUFFICES ASSUME RecorderInv, Close PROVE RecorderInv'
    OBVIOUS
  <1> DEFINE r == [rec EXCEPT !.writer = FALSE]
  <1>1. /\ pc = "idle" /\ pc' = "closing" /\ todo' = todo /\ UNCHANGED <<ghosts, opens>>
        /\ SaveMeta(r) \/ SaveFails(r, r)
    BY DEF Close
  <1>2. /\ segs \in Seq(SegmentSet) /\ SegmentsOK(segs) /\ gone \in 0..MaxId
        /\ rec \in RecorderSet /\ Fits(rec, segs)
    BY <1>1, WhenRecording
  <1>3. /\ r \in RecorderSet /\ r.last = rec.last /\ r.keys = rec.keys /\ r.closed = rec.closed
        /\ r.pending = rec.pending /\ r.file = rec.file /\ r.sizes = rec.sizes
    BY <1>2 DEF RecorderSet
  <1> HIDE DEF r
  <1>4. Fits(r, segs)
    BY <1>2, <1>3 DEF Fits
  <1>5. /\ meta' \in {meta, MetaOf(r)} /\ durable' \in {durable, MetaOf(r)}
        /\ Keeps(segs, gone, segs', gone')
        /\ rec' \in RecorderSet /\ Fits(rec', segs')
    BY <1>1, <1>2, <1>3, <1>4, SaveMetaEffect, SaveFailsEffect
  <1>6. Live /\ todo = <<>>
    BY <1>1, WhenStopping DEF Live
  <1>7. /\ meta' \in MetaSet /\ durable' \in MetaSet
        /\ \A id \in acked : id <= meta'.last /\ id <= durable'.last
    BY <1>3, <1>5, <1>6, MetaKept
  <1>8. Exact(MetaOf(r))
    <2>1. /\ MetaOf(r).keys = rec.keys /\ MetaOf(r).closed = rec.closed
      BY <1>3, MetaOfFields
    <2> QED BY <1>6, <2>1, IdleKeys DEF Exact
  <1>9. Exact(meta') /\ Exact(durable')
    BY <1>5, <1>8, WhenStopping
  <1> QED BY <1>1, <1>5, <1>6, <1>7, <1>9, StopKeeps

\* A segment that a crash may have made shorter.
Shorter(t, s) ==
    /\ t \in SegmentSet /\ SegmentOK(t) /\ t.synced = s.synced /\ t.linked = s.linked
    /\ Len(t.recs) <= Len(s.recs)
    /\ \A i \in 1..Len(t.recs) : t.recs[i] = s.recs[i]

\* What a crash leaves of a segment: a shorter one, or nothing of one not yet linked.
LEMMA RemainsMeans ==
    ASSUME NEW s \in SegmentSet, SegmentOK(s), NEW p \in Remains(s)
    PROVE  \/ p = <<>> /\ ~s.linked
           \/ \E t : p = <<t>> /\ Shorter(t, s)
  <1>1. /\ s.recs \in Seq(RecordSet) /\ Len(s.recs) \in Nat /\ DOMAIN s.recs = 1..Len(s.recs)
        /\ s.synced \in Nat /\ s.synced <= Len(s.recs)
    BY SegmentFields DEF SegmentOK
  <1>2. Shorter(s, s)
    BY <1>1 DEF Shorter
  <1>3. ASSUME NEW k \in s.synced..(Len(s.recs) - 1), NEW torn \in BOOLEAN,
               NEW t, t = [s EXCEPT !.recs = SubSeq(@, 1, k), !.torn = torn]
        PROVE  Shorter(t, s)
    <2> DEFINE rs == SubSeq(s.recs, 1, k)
    <2>1. k \in Nat /\ k <= Len(s.recs) /\ s.synced <= k
      BY <1>1
    <2>2. rs \in Seq(RecordSet) /\ Len(rs) = k /\ \A i \in 1..k : rs[i] = s.recs[i]
      BY <1>1, <2>1
    <2>3. t = [s EXCEPT !.recs = rs, !.torn = torn]
      BY <1>3
    <2> HIDE DEF rs
    <2>4. /\ t \in SegmentSet /\ t.recs = rs /\ t.synced = s.synced /\ t.linked = s.linked
      BY <2>2, <2>3 DEF SegmentSet
    <2>5. DOMAIN rs = 1..k /\ \A i \in 1..k : i \in 1..Len(s.recs)
      BY <1>1, <2>1, <2>2
    <2>6. SegmentOK(t)
      <3>1. \A i, j \in 1..k : i < j => rs[i].id < rs[j].id
        BY <1>1, <2>2, <2>5 DEF SegmentOK
      <3>2. \A i \in 1..k : rs[i].secret => rs[i].masked
        BY <1>1, <2>2, <2>5 DEF SegmentOK
      <3> QED BY <2>1, <2>2, <2>4, <2>5, <3>1, <3>2 DEF SegmentOK
    <2> QED BY <2>1, <2>2, <2>4, <2>6 DEF Shorter
  <1>4. ASSUME NEW t, t = [s EXCEPT !.torn = FALSE] PROVE Shorter(t, s)
    <2>1. /\ t \in SegmentSet /\ t.recs = s.recs /\ t.synced = s.synced /\ t.linked = s.linked
      BY <1>4, SegmentUpdates
    <2>2. SegmentOK(t)
      BY <2>1 DEF SegmentOK
    <2> QED BY <1>1, <2>1, <2>2 DEF Shorter
  <1>5. CASE \E k \in s.synced..(Len(s.recs) - 1), torn \in BOOLEAN : p = <<Cut(s, k, torn)>>
    <2>1. PICK k \in s.synced..(Len(s.recs) - 1), torn \in BOOLEAN : p = <<Cut(s, k, torn)>>
      BY <1>5
    <2> DEFINE t == Cut(s, k, torn)
    <2>2. Shorter(t, s) /\ p = <<t>>
      BY <1>3, <2>1 DEF Cut
    <2> HIDE DEF t
    <2> QED BY <2>2
  <1>6. CASE p = <<[s EXCEPT !.torn = FALSE]>>
    <2> DEFINE t == [s EXCEPT !.torn = FALSE]
    <2>1. Shorter(t, s) /\ p = <<t>>
      BY <1>4, <1>6
    <2> HIDE DEF t
    <2> QED BY <2>1
  <1>7. CASE p = <<s>>
    BY <1>2, <1>7
  <1>8. CASE p = <<>> /\ ~s.linked
    BY <1>8
  <1>9. \/ \E k \in s.synced..(Len(s.recs) - 1), torn \in BOOLEAN : p = <<Cut(s, k, torn)>>
        \/ p = <<[s EXCEPT !.torn = FALSE]>>
        \/ p = <<s>>
        \/ p = <<>> /\ ~s.linked
    BY DEF Remains
  <1> QED BY <1>5, <1>6, <1>7, <1>8, <1>9

\* The records of a shorter segment.
LEMMA ShorterRecords ==
    ASSUME NEW s \in SegmentSet, NEW t, Shorter(t, s)
    PROVE  \A k \in DOMAIN t.recs : k \in DOMAIN s.recs /\ t.recs[k] = s.recs[k]
  <1>1. /\ t \in SegmentSet /\ Len(t.recs) <= Len(s.recs)
        /\ \A i \in 1..Len(t.recs) : t.recs[i] = s.recs[i]
    BY DEF Shorter
  <1>2. DOMAIN t.recs = 1..Len(t.recs) /\ Len(t.recs) \in Nat
    BY <1>1, SegmentFields
  <1>3. DOMAIN s.recs = 1..Len(s.recs) /\ Len(s.recs) \in Nat
    BY SegmentFields
  <1> QED BY <1>1, <1>2, <1>3

\* What a crash leaves of the segments is ordered as they were and has what is held.
LEMMA LeftKeeps ==
    ASSUME NEW ss \in Seq(SegmentSet), SegmentsOK(ss), NEW g \in 0..MaxId,
           NEW parts \in [DOMAIN ss -> Seq(SegmentSet)],
           \A a \in DOMAIN ss : \/ parts[a] = <<>> /\ ~ss[a].linked
                                \/ \E t : parts[a] = <<t>> /\ Shorter(t, ss[a]),
           NEW tt, tt = FlattenSeq(parts)
    PROVE  Keeps(ss, g, tt, g)
  <1>1. Len(ss) \in Nat /\ DOMAIN ss = 1..Len(ss) /\ \A a \in DOMAIN ss : ss[a] \in SegmentSet
    OBVIOUS
  <1>2. ASSUME NEW a \in DOMAIN ss
        PROVE  /\ parts[a] \in Seq(SegmentSet)
               /\ \A i \in DOMAIN parts[a] : i = 1 /\ Shorter(parts[a][i], ss[a])
               /\ ss[a].linked => DOMAIN parts[a] = {1}
    <2>1. CASE parts[a] = <<>> /\ ~ss[a].linked
      BY <2>1
    <2>2. CASE \E t : parts[a] = <<t>> /\ Shorter(t, ss[a])
      <3>1. PICK t : parts[a] = <<t>> /\ Shorter(t, ss[a])
        BY <2>2
      <3>2. t \in SegmentSet
        BY <3>1 DEF Shorter
      <3> DEFINE q == <<t>>
      <3>3. q \in Seq(SegmentSet) /\ DOMAIN q = {1} /\ q[1] = t
        BY <3>2
      <3>4. parts[a] = q
        BY <3>1
      <3> HIDE DEF q
      <3> QED BY <3>1, <3>3, <3>4
    <2> QED BY <2>1, <2>2
  <1>3. parts \in Seq(Seq(SegmentSet)) /\ DOMAIN parts = DOMAIN ss
    BY <1>1
  <1>4. \A a \in DOMAIN parts : \A i, j \in DOMAIN parts[a] :
           i < j => <<parts[a][i], parts[a][j]>> \in Before
    BY <1>2, <1>3
  <1>5. ASSUME NEW a \in DOMAIN parts, NEW b \in DOMAIN parts, a < b,
               NEW i \in DOMAIN parts[a], NEW j \in DOMAIN parts[b]
        PROVE  <<parts[a][i], parts[b][j]>> \in Before
    <2> DEFINE t == parts[a][i]
               u == parts[b][j]
    <2>1. a \in DOMAIN ss /\ b \in DOMAIN ss
      BY <1>3
    <2>2. Shorter(t, ss[a]) /\ Shorter(u, ss[b])
      BY <1>2, <2>1
    <2>3. <<ss[a], ss[b]>> \in Before /\ ss[a] \in SegmentSet /\ ss[b] \in SegmentSet
      BY <1>1, <1>5, <2>1 DEF SegmentsOK
    <2> HIDE DEF t, u
    <2>4. t \in SegmentSet /\ u \in SegmentSet
      BY <2>2 DEF Shorter
    <2>5. \A k \in DOMAIN t.recs : k \in DOMAIN ss[a].recs /\ t.recs[k] = ss[a].recs[k]
      BY <2>2, <2>3, ShorterRecords
    <2>6. \A k \in DOMAIN u.recs : k \in DOMAIN ss[b].recs /\ u.recs[k] = ss[b].recs[k]
      BY <2>2, <2>3, ShorterRecords
    <2>7. \A k \in DOMAIN ss[a].recs, m \in DOMAIN ss[b].recs : ss[a].recs[k].id < ss[b].recs[m].id
      BY <2>3, BeforeMeans
    <2>8. <<t, u>> \in Before
      BY <2>4, <2>5, <2>6, <2>7, BeforeMeans
    <2> QED BY <2>8 DEF t, u
  <1>6. \A a, b \in DOMAIN parts : a < b =>
           \A i \in DOMAIN parts[a], j \in DOMAIN parts[b] : <<parts[a][i], parts[b][j]>> \in Before
    BY <1>5
  <1>7. /\ tt \in Seq(SegmentSet)
        /\ \A i, j \in DOMAIN tt : i < j => <<tt[i], tt[j]>> \in Before
        /\ \A i \in DOMAIN tt : \E a \in DOMAIN parts : \E j \in DOMAIN parts[a] : tt[i] = parts[a][j]
        /\ \A a \in DOMAIN parts : \A j \in DOMAIN parts[a] : \E i \in DOMAIN tt : tt[i] = parts[a][j]
    <2>1. Ordered(parts, Before)
      BY <1>4, <1>6 DEF Ordered
    <2> QED BY <1>3, <2>1, FlattenOrdered
  <1>8. ASSUME NEW i \in DOMAIN tt PROVE \E a \in DOMAIN ss : Shorter(tt[i], ss[a])
    <2>1. PICK a \in DOMAIN ss : \E j \in DOMAIN parts[a] : tt[i] = parts[a][j]
      BY <1>3, <1>7
    <2>2. PICK j \in DOMAIN parts[a] : tt[i] = parts[a][j]
      BY <2>1
    <2> QED BY <1>2, <2>2
  <1>9. SegmentsOK(tt)
    BY <1>7, <1>8 DEF SegmentsOK, Shorter
  <1>10. ASSUME NEW id \in IdsOf(tt) PROVE id \in IdsOf(ss)
    <2>1. PICK i \in DOMAIN tt : \E k \in DOMAIN tt[i].recs : tt[i].recs[k].id = id
      BY <1>7, IdsMember
    <2>2. PICK k \in DOMAIN tt[i].recs : tt[i].recs[k].id = id
      BY <2>1
    <2>3. PICK a \in DOMAIN ss : Shorter(tt[i], ss[a])
      BY <1>8
    <2>4. tt[i] \in SegmentSet /\ ss[a] \in SegmentSet
      BY <1>1, <1>7
    <2>5. k \in DOMAIN ss[a].recs /\ ss[a].recs[k] = tt[i].recs[k]
      BY <2>3, <2>4, ShorterRecords
    <2> QED BY <2>2, <2>5, IdsMember
  <1>11. ASSUME NEW id \in Nat, Held(ss, id) PROVE Held(tt, id)
    <2>1. PICK a \in DOMAIN ss : ss[a].linked /\ \E i \in 1..ss[a].synced : ss[a].recs[i].id = id
      BY <1>11 DEF Held
    <2>2. PICK i \in 1..ss[a].synced : ss[a].recs[i].id = id
      BY <2>1
    <2>3. 1 \in DOMAIN parts[a] /\ Shorter(parts[a][1], ss[a])
      BY <1>2, <2>1
    <2>4. PICK b \in DOMAIN tt : tt[b] = parts[a][1]
      BY <1>3, <1>7, <2>3
    <2>5. Shorter(tt[b], ss[a])
      BY <2>3, <2>4
    <2>6. tt[b].linked /\ tt[b].synced = ss[a].synced /\ tt[b].synced <= Len(tt[b].recs)
      BY <2>1, <2>5 DEF Shorter, SegmentOK
    <2>7. i \in 1..tt[b].synced
      BY <2>6
    <2>8. ss[a].synced \in Nat /\ Len(tt[b].recs) \in Nat
      <3>1. ss[a] \in SegmentSet /\ tt[b] \in SegmentSet
        BY <1>1, <1>7
      <3> QED BY <3>1, SegmentFields
    <2>9. tt[b].recs[i] = ss[a].recs[i]
      <3>1. i \in 1..Len(tt[b].recs)
        BY <2>6, <2>7, <2>8
      <3> QED BY <2>5, <3>1 DEF Shorter
    <2>10. tt[b].recs[i].id = id
      BY <2>2, <2>9
    <2> QED BY <2>6, <2>7, <2>10 DEF Held
  <1>12. g \in 0..MaxId /\ g <= g
    BY RecorderAssumption
  <1> QED BY <1>7, <1>9, <1>10, <1>11, <1>12 DEF Keeps

\* A crash.
LEMMA CrashStep == RecorderInv /\ Crash => RecorderInv'
  <1> SUFFICES ASSUME RecorderInv, Crash PROVE RecorderInv'
    OBVIOUS
  <1> DEFINE loose == {i \in DOMAIN segs : ~Settled(segs[i])}
             parts(left) == [i \in DOMAIN segs |-> IF i \in loose THEN left[i] ELSE <<segs[i]>>]
  <1>1. PICK left : (\A i \in loose : left[i] \in Remains(segs[i])) /\ segs' = FlattenSeq(parts(left))
    BY DEF Crash
  <1>2. /\ meta' \in {meta, durable} /\ durable' = durable /\ gone' = gone
        /\ rec' = NoRecorder /\ pc' = "none" /\ todo' = <<>> /\ UNCHANGED <<ghosts, opens>>
    BY DEF Crash
  <1>3. /\ segs \in Seq(SegmentSet) /\ SegmentsOK(segs) /\ gone \in 0..MaxId
        /\ meta \in MetaSet /\ durable \in MetaSet
    BY WhenRecording
  <1>4. ASSUME NEW i \in DOMAIN segs PROVE parts(left)[i] \in Remains(segs[i])
    <2>1. CASE i \in loose
      BY <1>1, <2>1
    <2>2. CASE i \notin loose
      <3>1. Remains(segs[i]) = {<<segs[i]>>}
        BY <2>2 DEF Settled
      <3> QED BY <2>2, <3>1
    <2> QED BY <2>1, <2>2
  <1>5. \A i \in DOMAIN segs : segs[i] \in SegmentSet /\ SegmentOK(segs[i])
    BY <1>3 DEF SegmentsOK
  <1>6. \A i \in DOMAIN segs : \/ parts(left)[i] = <<>> /\ ~segs[i].linked
                               \/ \E t : parts(left)[i] = <<t>> /\ Shorter(t, segs[i])
    BY <1>4, <1>5, RemainsMeans
  <1> DEFINE all == parts(left)
  <1>7. all \in [DOMAIN segs -> Seq(SegmentSet)]
    <2>1. ASSUME NEW i \in DOMAIN segs PROVE parts(left)[i] \in Seq(SegmentSet)
      <3>0. <<>> \in Seq(SegmentSet)
        OBVIOUS
      <3>1. CASE parts(left)[i] = <<>>
        BY <3>0, <3>1, Zenon
      <3>2. CASE parts(left)[i] # <<>>
        <4>1. PICK t : parts(left)[i] = <<t>> /\ Shorter(t, segs[i])
          BY <1>6, <3>2
        <4>2. t \in SegmentSet
          BY <4>1 DEF Shorter
        <4>3. <<t>> \in Seq(SegmentSet)
          BY <4>2
        <4> QED BY <4>1, <4>3
      <3> QED BY <3>1, <3>2
    <2> QED BY <2>1
  <1>8. segs' = FlattenSeq(all)
    BY <1>1
  <1> HIDE DEF all
  <1>9. Keeps(segs, gone, segs', gone)
    <2>1. \A i \in DOMAIN segs : \/ all[i] = <<>> /\ ~segs[i].linked
                                 \/ \E t : all[i] = <<t>> /\ Shorter(t, segs[i])
      BY <1>6, Zenon DEF all
    <2> QED BY <1>3, <1>7, <1>8, <2>1, LeftKeeps
  <1> QED BY <1>2, <1>3, <1>9, NoRecorderType, WhenStopping, StopKeeps

\* OpenRecorder reads what the disk says.
LEMMA OpenScanStep == RecorderInv /\ OpenScan => RecorderInv'
  <1> SUFFICES ASSUME RecorderInv, OpenScan PROVE RecorderInv'
    OBVIOUS
  <1> DEFINE sizes == [i \in DOMAIN segs |-> Size(segs[i])]
             doubt == Uncertain
             last == LastKnown
             bytes == meta.bytes + Total(sizes)
             r == [last |-> last, keys |-> meta.keys, closed |-> doubt,
                   pending |-> FALSE, writer |-> TRUE, file |-> FALSE,
                   sizes |-> sizes, bytes |-> bytes, metaBytes |-> meta.bytes]
  <1>1. /\ pc = "none" /\ pc' = "opening" /\ opens' = opens + 1 /\ rec' = r /\ todo' = todo
        /\ meta' = meta /\ durable' = durable /\ segs' = segs /\ gone' = gone
        /\ truth' = truth /\ acked' = acked
    BY DEF OpenScan, disk, ghosts
  <1>2. /\ meta \in MetaSet /\ durable \in MetaSet
        /\ segs \in Seq(SegmentSet) /\ SegmentsOK(segs) /\ gone \in 0..MaxId /\ opens \in Nat
        /\ todo = <<>> /\ truth \in SUBSET Sources /\ acked \in SUBSET Nat
        /\ IdsOf(segs) \in SUBSET (1..MaxId)
    BY <1>1, WhenRecording, WhenStopping
  <1>3. meta.last \in 0..MaxId /\ meta.keys \in KeySets /\ meta.bytes \in Nat
    BY <1>2, MetaFields
  <1>4. last \in 0..MaxId /\ meta.last <= last /\ \A id \in IdsOf(segs) : id <= last
    <2> DEFINE S == {meta.last} \cup IdsOf(segs)
    <2>1. S \in SUBSET (0..MaxId) /\ S # {} /\ MaxId \in Nat
      BY <1>2, <1>3, RecorderAssumption
    <2>2. last = Max(S)
      BY DEF LastKnown
    <2> HIDE DEF last
    <2>3. meta.last \in S /\ \A id \in IdsOf(segs) : id \in S
      OBVIOUS
    <2> HIDE DEF S
    <2>4. Max(S) \in S /\ \A y \in S : y <= Max(S)
      BY <2>1, MaxOf
    <2> QED BY <2>1, <2>2, <2>3, <2>4
  <1>5. sizes \in Seq(Nat) /\ Len(sizes) = Len(segs)
    <2>1. \A i \in DOMAIN segs : Size(segs[i]) \in Nat
      BY <1>2, SegmentFields
    <2>2. sizes \in [1..Len(segs) -> Nat] /\ Len(segs) \in Nat
      BY <1>2, <2>1
    <2> QED BY <2>2
  <1>6. \A a \in DOMAIN segs : sizes[a] = Size(segs[a])
    OBVIOUS
  <1>7. doubt \in BOOLEAN /\ (~doubt => ~meta.closed /\ ~meta.pending /\ ~meta.writer)
    BY DEF Uncertain
  <1> HIDE DEF sizes, last, doubt
  <1>8. bytes \in Int
    BY <1>3, <1>5, TotalParts
  <1>9. bytes = meta.bytes + Total(sizes)
    OBVIOUS
  <1> HIDE DEF bytes
  <1>10. /\ rec' \in RecorderSet /\ rec'.last = last /\ rec'.keys = meta.keys /\ rec'.closed = doubt
         /\ rec'.writer /\ ~rec'.file /\ rec'.sizes = sizes /\ rec'.bytes = bytes
         /\ rec'.metaBytes = meta.bytes
    BY <1>1, <1>3, <1>4, <1>5, <1>7, <1>8 DEF RecorderSet
  <1> HIDE DEF r
  <1>11. RecorderTypeOK'
    BY <1>1, <1>2, <1>10 DEF RecorderTypeOK, Phases
  <1>12. PhaseOK'
    <2>1. todo' = <<>> /\ Len(todo') = 0 /\ DOMAIN todo' = {} /\ rec'.last + Len(todo') <= MaxId
      BY <1>1, <1>2, <1>4, <1>10, RecorderAssumption
    <2> QED BY <1>1, <1>5, <1>10, <2>1 DEF PhaseOK
  <1>13. SegmentsOK(segs)'
    BY <1>1, <1>2
  <1>14. KeysOK'
    <2>1. todo' = <<>> /\ Len(todo') = 0 /\ DOMAIN todo' = {}
      BY <1>1, <1>2
    <2>2. ~rec'.closed => rec'.keys = truth'
      BY <1>1, <1>7, <1>10, WhenStopping DEF Exact
    <2>3. \A s : Inside(rec'.keys, todo', 0, s) <=> s \in rec'.keys
      BY DEF Inside
    <2> QED BY <2>1, <2>2, <2>3 DEF KeysOK
  <1>15. MetaOK'
    BY <1>1, WhenStopping DEF MetaOK, Exact
  <1>16. LastOK'
    BY <1>1, <1>4, <1>10, WhenStopping DEF LastOK
  <1>17. AckedOK'
    BY <1>1, <1>2, SameKeeps, AckedKept
  <1>18. BatchOK'
    BY <1>1 DEF BatchOK
  <1>19. BytesOK'
    BY <1>1, <1>6, <1>9, <1>10 DEF BytesOK
  <1> QED BY <1>11, <1>12, <1>13, <1>14, <1>15, <1>16, <1>17, <1>18, <1>19 DEF RecorderInv

\* A session.json was written: it says what the recorder knows.
LEMMA SavedKeeps ==
    ASSUME RecorderInv, pc \in {"opening", "intent", "checkpoint"},
           pc' \in {"repair", "entries", "idle"}, pc' # "entries" => todo = <<>>,
           SaveMeta(rec), todo' = todo, truth' = truth, opens' = opens,
           acked' \in SUBSET Nat,
           \A id \in acked' : id <= rec.last /\ (id <= gone' \/ Held(segs', id))
    PROVE  RecorderInv'
  <1>1. /\ segs \in Seq(SegmentSet) /\ SegmentsOK(segs) /\ gone \in 0..MaxId
        /\ rec \in RecorderSet /\ Fits(rec, segs) /\ rec.last \in 0..MaxId
        /\ todo \in Seq(EntrySet) /\ truth \in SUBSET Sources /\ opens \in Nat
    BY WhenRecording
  <1>2. Live /\ Live' /\ rec.writer
    BY WhenRecording DEF Live
  <1>3. /\ meta' = MetaOf(rec) /\ durable' = MetaOf(rec)
        /\ Keeps(segs, gone, segs', gone')
        /\ rec' \in RecorderSet /\ SameSession(rec', rec) /\ Fits(rec', segs')
        /\ Measures(rec, segs) => Measures(rec', segs')
        /\ rec'.metaBytes = meta'.bytes
        /\ Adds(rec) => Adds(rec') /\ rec'.bytes <= MaxBytes
    BY <1>1, SaveMetaEffect
  <1>4. /\ meta' \in MetaSet /\ durable' \in MetaSet
        /\ meta'.last = rec.last /\ durable'.last = rec.last /\ meta'.writer /\ durable'.writer
    BY <1>1, <1>2, <1>3, MetaOfFields
  <1>5. /\ rec'.last = rec.last /\ rec'.keys = rec.keys /\ rec'.closed = rec.closed
        /\ rec'.writer = rec.writer
    BY <1>3 DEF SameSession
  <1>6. RecorderTypeOK'
    BY <1>1, <1>3, <1>4 DEF RecorderTypeOK, Phases, Keeps
  <1>7. PhaseOK'
    <2>1. rec.last + Len(todo) <= MaxId /\ \A i \in DOMAIN todo : todo[i].id = rec.last + i
      BY DEF RecorderInv, PhaseOK
    <2> QED BY <1>2, <1>3, <1>5, <2>1 DEF PhaseOK, Fits
  <1>8. SegmentsOK(segs)' /\ IdsOf(segs') \subseteq IdsOf(segs)
    BY <1>3 DEF Keeps
  <1>9. KeysOK'
    BY <1>2, <1>5 DEF RecorderInv, KeysOK
  <1>10. MetaOK'
    BY <1>4 DEF MetaOK, Exact
  <1>11. LastOK'
    <2>1. \A id \in IdsOf(segs) : id <= rec.last
      BY <1>2 DEF RecorderInv, LastOK
    <2>2. rec.last <= rec.last
      BY <1>1, RecorderAssumption
    <2> QED BY <1>4, <1>5, <1>8, <2>1, <2>2 DEF LastOK
  <1>12. AckedOK'
    BY DEF AckedOK
  <1>13. BatchOK'
    <2>1. ~(rec'.last > meta'.last) /\ (meta'.last + 1)..rec'.last = {}
      BY <1>1, <1>4, <1>5, RecorderAssumption
    <2> QED BY <2>1 DEF BatchOK
  <1>14. BytesOK'
    <2>1. Measures(rec, segs) /\ Adds(rec)
      BY <1>2 DEF RecorderInv, BytesOK, Measures, Adds
    <2>2. Measures(rec', segs') /\ Adds(rec') /\ rec'.bytes <= MaxBytes
      BY <1>3, <2>1
    <2> QED BY <1>3, <2>2 DEF BytesOK, Measures, Adds
  <1> QED BY <1>6, <1>7, <1>8, <1>9, <1>10, <1>11, <1>12, <1>13, <1>14 DEF RecorderInv

\* What was acknowledged is not after the last record.
LEMMA AckedBefore ==
    ASSUME RecorderInv, Live
    PROVE  \A id \in acked : id <= rec.last
  <1>1. rec.last \in Int /\ meta.last \in Int /\ acked \in SUBSET Nat
    BY WhenRecording, RecorderAssumption
  <1>2. meta.last <= rec.last /\ \A id \in acked : id <= meta.last
    BY DEF RecorderInv, LastOK
  <1> QED BY <1>1, <1>2

\* The first session.json of a recorder.
LEMMA OpenMetaStep == RecorderInv /\ OpenMeta => RecorderInv'
  <1> SUFFICES ASSUME RecorderInv, OpenMeta PROVE RecorderInv'
    OBVIOUS
  <1>1. /\ pc = "opening" /\ pc' = "repair" /\ SaveMeta(rec)
        /\ todo' = todo /\ truth' = truth /\ acked' = acked /\ opens' = opens
    BY DEF OpenMeta, ghosts
  <1>2. /\ segs \in Seq(SegmentSet) /\ SegmentsOK(segs) /\ gone \in 0..MaxId
        /\ rec \in RecorderSet /\ Fits(rec, segs) /\ todo = <<>> /\ acked \in SUBSET Nat
    BY <1>1, WhenRecording, WhenStopping
  <1>3. Keeps(segs, gone, segs', gone')
    BY <1>1, <1>2, SaveMetaEffect
  <1>4. AckedOK'
    BY <1>1, <1>3, AckedKept
  <1>5. \A id \in acked' : id <= rec.last /\ (id <= gone' \/ Held(segs', id))
    BY <1>1, <1>4, AckedBefore DEF Live, AckedOK
  <1> QED BY <1>1, <1>2, <1>5, SavedKeeps

\* The intent of a batch.
LEMMA IntentStep == RecorderInv /\ Intent => RecorderInv'
  <1> SUFFICES ASSUME RecorderInv, Intent PROVE RecorderInv'
    OBVIOUS
  <1>1. /\ pc = "intent" /\ pc' = "entries" /\ SaveMeta(rec)
        /\ todo' = todo /\ truth' = truth /\ acked' = acked /\ opens' = opens
    BY DEF Intent, ghosts
  <1>2. /\ segs \in Seq(SegmentSet) /\ SegmentsOK(segs) /\ gone \in 0..MaxId
        /\ rec \in RecorderSet /\ Fits(rec, segs) /\ acked \in SUBSET Nat
    BY <1>1, WhenRecording
  <1>3. Keeps(segs, gone, segs', gone')
    BY <1>1, <1>2, SaveMetaEffect
  <1>4. AckedOK'
    BY <1>1, <1>3, AckedKept
  <1>5. \A id \in acked' : id <= rec.last /\ (id <= gone' \/ Held(segs', id))
    BY <1>1, <1>4, AckedBefore DEF Live, AckedOK
  <1> QED BY <1>1, <1>2, <1>5, SavedKeeps

\* The checkpoint of a batch acknowledges what was synced.
LEMMA CheckpointStep == RecorderInv /\ Checkpoint => RecorderInv'
  <1> SUFFICES ASSUME RecorderInv, Checkpoint PROVE RecorderInv'
    OBVIOUS
  <1>1. /\ pc = "checkpoint" /\ pc' = "idle" /\ SaveMeta(rec)
        /\ todo' = todo /\ truth' = truth /\ opens' = opens
        /\ acked' = acked \cup ((meta.last + 1)..rec.last)
    BY DEF Checkpoint
  <1>2. /\ segs \in Seq(SegmentSet) /\ SegmentsOK(segs) /\ gone \in 0..MaxId
        /\ rec \in RecorderSet /\ Fits(rec, segs) /\ todo = <<>> /\ acked \in SUBSET Nat
        /\ meta.last \in 0..MaxId /\ rec.last \in 0..MaxId /\ MaxId \in Nat
    BY <1>1, WhenRecording, WhenStopping, RecorderAssumption
  <1>3. /\ Keeps(segs, gone, segs', gone')
        /\ \A id \in Nat : Synced(segs, id) => Held(segs', id) \/ id <= gone'
    BY <1>1, <1>2, SaveMetaEffect
  <1>4. gone' \in Nat /\ gone <= gone' /\ gone \in Nat
    BY <1>2, <1>3 DEF Keeps
  <1>5. acked' \in SUBSET Nat
    <2>1. (meta.last + 1)..rec.last \subseteq Nat
      BY <1>2
    <2> QED BY <1>1, <1>2, <2>1
  <1>6. ASSUME NEW id \in acked PROVE id <= rec.last /\ (id <= gone' \/ Held(segs', id))
    <2>1. id \in Nat /\ (id <= gone \/ Held(segs, id))
      BY <1>2 DEF RecorderInv, AckedOK
    <2>2. Held(segs, id) => Held(segs', id) \/ id <= gone'
      BY <1>3, <2>1 DEF Keeps
    <2>3. id <= rec.last
      BY <1>1, AckedBefore DEF Live
    <2> QED BY <1>4, <2>1, <2>2, <2>3
  <1>7. ASSUME NEW id \in (meta.last + 1)..rec.last
        PROVE  id <= rec.last /\ (id <= gone' \/ Held(segs', id))
    <2>1. id \in Nat /\ id <= rec.last
      BY <1>2
    <2>2. id <= gone \/ Synced(segs, id)
      BY <1>1 DEF RecorderInv, BatchOK
    <2> QED BY <1>3, <1>4, <2>1, <2>2
  <1>8. \A id \in acked' : id <= rec.last /\ (id <= gone' \/ Held(segs', id))
    BY <1>1, <1>6, <1>7
  <1> QED BY <1>1, <1>2, <1>5, <1>8, SavedKeeps

\* The sizes of the records alone: a torn end counted for one byte.
LEMMA RepairedTotal ==
    ASSUME NEW ss \in Seq(SegmentSet), NEW sizes \in Seq(Nat), Len(sizes) = Len(ss),
           \A a \in DOMAIN ss : sizes[a] = Size(ss[a]),
           NEW more, more = [i \in DOMAIN ss |-> Len(ss[i].recs)]
    PROVE  /\ more \in Seq(Nat) /\ Len(more) = Len(ss)
           /\ Cardinality({i \in DOMAIN ss : ss[i].torn}) \in Nat
           /\ Total(more) = Total(sizes) - Cardinality({i \in DOMAIN ss : ss[i].torn})
           /\ Total(more) \in Nat
  <1> DEFINE N == Len(ss)
             Torn(n) == {i \in 1..n : ss[i].torn}
             C(n) == Cardinality(Torn(n))
  <1>1. N \in Nat /\ DOMAIN ss = 1..N /\ Len(sizes) = N
    OBVIOUS
  <1>2. \A a \in 1..N : ss[a] \in SegmentSet
    BY <1>1
  <1>3. \A a \in 1..N : Len(ss[a].recs) \in Nat /\ sizes[a] = Size(ss[a])
    BY <1>1, <1>2, SegmentFields
  <1>4. more \in Seq(Nat) /\ Len(more) = N /\ \A a \in 1..N : more[a] = Len(ss[a].recs)
    <2>1. more \in [1..N -> Nat]
      BY <1>1, <1>3
    <2> QED BY <1>1, <2>1
  <1>5. PICK m : Sums(more, N, m)
    BY <1>1, SumsExist
  <1>6. m[0] = 0 /\ \A n \in 1..N : m[n] = m[n - 1] + more[n]
    <2>1. \A n \in 0..N : m[n] = IF n = 0 THEN 0 ELSE m[n - 1] + more[n]
      BY <1>5 DEF Sums
    <2>2. 0 \in 0..N /\ \A n \in 1..N : n \in 0..N /\ n # 0
      BY <1>1
    <2> QED BY <2>1, <2>2
  <1>7. Total(more) = m[N]
    BY <1>1, <1>4, <1>6, TotalBy
  <1>8. \A n \in 0..N : m[n] \in Nat
    <2> DEFINE S == {n \in Nat : n <= N => m[n] \in Nat}
    <2>1. 0 \in S
      BY <1>6
    <2>2. ASSUME NEW n \in Nat, n \in S PROVE n + 1 \in S
      <3>1. n + 1 <= N => n + 1 \in 1..N /\ (n + 1) - 1 = n
        BY <1>1
      <3>2. ASSUME n + 1 <= N PROVE m[n + 1] \in Nat
        <4>1. m[n] \in Nat /\ more[n + 1] \in Nat
          BY <1>1, <1>4, <2>2, <3>1, <3>2
        <4>2. m[n + 1] = m[n] + more[n + 1]
          BY <1>6, <3>1, <3>2
        <4> QED BY <4>1, <4>2
      <3> QED BY <3>2
    <2>3. Nat \subseteq S
      BY <2>1, <2>2, SetInduction
    <2> QED BY <2>3
  <1>9. ASSUME NEW n \in 0..N PROVE IsFiniteSet(Torn(n)) /\ C(n) \in Nat
    <2>1. IsFiniteSet(1..n) /\ Torn(n) \subseteq 1..n
      BY <1>1, FS_Interval
    <2> QED BY <2>1, FS_Subset, FS_CardinalityType
  <1>10. C(0) = 0
    <2>1. Torn(0) = {}
      OBVIOUS
    <2> QED BY <2>1, FS_EmptySet
  <1>11. ASSUME NEW n \in 1..N PROVE C(n) = C(n - 1) + (IF ss[n].torn THEN 1 ELSE 0)
    <2>1. n - 1 \in 0..N /\ n \notin Torn(n - 1)
      BY <1>1
    <2>2. CASE ss[n].torn
      <3>1. Torn(n) = Torn(n - 1) \cup {n}
        BY <1>1, <2>2
      <3>2. IsFiniteSet(Torn(n - 1))
        BY <1>9, <2>1
      <3> HIDE DEF Torn
      <3> QED BY <2>1, <2>2, <3>1, <3>2, FS_AddElement
    <2>3. CASE ~ss[n].torn
      <3>1. Torn(n) = Torn(n - 1)
        BY <1>1, <2>3
      <3>2. C(n - 1) \in Nat
        BY <1>9, <2>1
      <3> HIDE DEF Torn
      <3> QED BY <2>3, <3>1, <3>2
    <2> QED BY <2>2, <2>3
  <1> HIDE DEF C
  <1> DEFINE h == [n \in 0..N |-> m[n] + C(n)]
  <1>12. h[0] = 0 /\ h[N] = m[N] + C(N)
    BY <1>1, <1>6, <1>10
  <1>13. ASSUME NEW n \in 1..N PROVE h[n] = h[n - 1] + sizes[n]
    <2>1. n \in 0..N /\ n - 1 \in 0..N
      BY <1>1
    <2>2. h[n] = m[n] + C(n) /\ h[n - 1] = m[n - 1] + C(n - 1)
      BY <2>1
    <2>3. m[n - 1] \in Nat /\ C(n - 1) \in Nat /\ more[n] \in Nat
      BY <1>3, <1>4, <1>8, <1>9, <2>1
    <2> DEFINE t == IF ss[n].torn THEN 1 ELSE 0
               a == m[n - 1]
               b == C(n - 1)
               c == more[n]
    <2>4. sizes[n] = c + t /\ t \in Nat
      BY <1>3, <1>4 DEF Size
    <2>5. m[n] = a + c /\ C(n) = b + t
      BY <1>6, <1>11
    <2>6. h[n] = m[n] + C(n) /\ h[n - 1] = a + b /\ a \in Nat /\ b \in Nat /\ c \in Nat
      BY <2>2, <2>3
    <2> HIDE DEF h, a, b, c, t
    <2> QED BY <2>4, <2>5, <2>6
  <1> HIDE DEF h
  <1>14. Total(sizes) = h[N]
    BY <1>1, <1>12, <1>13, TotalBy
  <1>15. C(N) = Cardinality({i \in DOMAIN ss : ss[i].torn})
    BY <1>1 DEF C
  <1>16. N \in 0..N
    BY <1>1
  <1>17. C(N) \in Nat /\ m[N] \in Nat
    BY <1>8, <1>9, <1>16
  <1>18. m[N] = Total(sizes) - C(N)
    BY <1>12, <1>14, <1>17
  <1> QED BY <1>4, <1>7, <1>15, <1>17, <1>18

\* The torn ends are cut off and no longer counted.
LEMMA RepairStep == RecorderInv /\ Repair => RecorderInv'
  <1> SUFFICES ASSUME RecorderInv, Repair PROVE RecorderInv'
    OBVIOUS
  <1> DEFINE sizes == [i \in DOMAIN segs |-> Len(segs[i].recs)]
             cut == Cardinality({i \in DOMAIN segs : segs[i].torn})
             bytes == rec.bytes - cut
  <1>1. /\ pc = "repair" /\ pc' = "idle" /\ segs' = Repaired(segs)
        /\ rec' = [rec EXCEPT !.sizes = sizes, !.bytes = bytes]
        /\ meta' = meta /\ durable' = durable /\ gone' = gone /\ todo' = todo
        /\ truth' = truth /\ acked' = acked /\ opens' = opens
    BY DEF Repair, ghosts
  <1>2. /\ segs \in Seq(SegmentSet) /\ SegmentsOK(segs) /\ gone \in 0..MaxId
        /\ meta \in MetaSet /\ durable \in MetaSet /\ rec \in RecorderSet /\ Fits(rec, segs)
        /\ rec.writer /\ todo = <<>> /\ opens \in Nat
        /\ truth \in SUBSET Sources /\ acked \in SUBSET Nat
    BY <1>1, WhenRecording, WhenStopping DEF Live
  <1>3. Live /\ Live'
    BY <1>1 DEF Live
  <1>4. rec.sizes \in Seq(Nat) /\ rec.bytes \in Int /\ rec.metaBytes \in Nat /\ MaxBytes \in Nat
    BY <1>2, RecorderFields, RecorderAssumption
  <1>5. /\ \A a \in DOMAIN segs : rec.sizes[a] = Size(segs[a])
        /\ rec.metaBytes = meta.bytes /\ rec.bytes = rec.metaBytes + Total(rec.sizes)
        /\ rec.bytes <= MaxBytes
    BY <1>1, <1>3 DEF RecorderInv, BytesOK
  <1>6. /\ sizes \in Seq(Nat) /\ Len(sizes) = Len(segs) /\ cut \in Nat
        /\ Total(sizes) = Total(rec.sizes) - cut /\ Total(sizes) \in Nat
    BY <1>2, <1>4, <1>5, RepairedTotal DEF Fits
  <1>7. \A a \in DOMAIN segs : sizes[a] = Len(segs[a].recs)
    OBVIOUS
  <1> HIDE DEF sizes, cut
  <1>8. Total(rec.sizes) \in Nat
    BY <1>4, TotalParts
  <1>9. bytes \in Int /\ bytes = rec.metaBytes + Total(sizes) /\ bytes <= MaxBytes
    BY <1>4, <1>5, <1>6, <1>8
  <1> HIDE DEF bytes
  <1>10. /\ rec' \in RecorderSet /\ rec'.sizes = sizes /\ rec'.bytes = bytes
         /\ rec'.last = rec.last /\ rec'.keys = rec.keys /\ rec'.closed = rec.closed
         /\ rec'.pending = rec.pending /\ rec'.writer = rec.writer /\ rec'.file = rec.file
         /\ rec'.metaBytes = rec.metaBytes
    BY <1>1, <1>2, <1>6, <1>9 DEF RecorderSet
  <1>11. Keeps(segs, gone, segs', gone) /\ Len(segs') = Len(segs)
    <2> DEFINE tt == segs'
    <2>1. tt = [a \in DOMAIN segs |-> tt[a]]
      BY <1>1 DEF Repaired
    <2>2. ASSUME NEW a \in DOMAIN segs
          PROVE  tt[a] = segs[a] \/ \E b \in BOOLEAN : tt[a] = [segs[a] EXCEPT !.torn = b]
      <3>1. tt[a] = [segs[a] EXCEPT !.torn = FALSE]
        BY <1>1 DEF Repaired
      <3> HIDE DEF tt
      <3> QED BY <3>1
    <2> HIDE DEF tt
    <2>3. Keeps(segs, gone, tt, gone) /\ Len(tt) = Len(segs)
      BY <1>2, <2>1, <2>2, TornKeeps
    <2> QED BY <2>3 DEF tt
  <1>12. \A a \in DOMAIN segs' : sizes[a] = Size(segs'[a])
    <2> SUFFICES ASSUME NEW a \in DOMAIN segs' PROVE sizes[a] = Size(segs'[a])
      OBVIOUS
    <2>1. a \in DOMAIN segs
      BY <1>1 DEF Repaired
    <2>2. segs'[a] = [segs[a] EXCEPT !.torn = FALSE] /\ segs[a] \in SegmentSet
      BY <1>1, <1>2, <2>1 DEF Repaired
    <2>3. segs'[a].recs = segs[a].recs /\ segs'[a].torn = FALSE /\ Len(segs[a].recs) \in Nat
      BY <2>2, SegmentUpdates, SegmentFields
    <2>4. Size(segs'[a]) = Len(segs[a].recs) + 0
      BY <2>3 DEF Size
    <2> QED BY <1>7, <2>1, <2>3, <2>4
  <1>13. RecorderTypeOK'
    BY <1>1, <1>2, <1>10, <1>11 DEF RecorderTypeOK, Phases, Keeps
  <1>14. PhaseOK'
    <2>1. rec.last + Len(todo) <= MaxId /\ \A i \in DOMAIN todo : todo[i].id = rec.last + i
      BY DEF RecorderInv, PhaseOK
    <2>2. rec'.file => segs' # <<>>
      <3>1. rec.file => Len(segs') # 0
        BY <1>2, <1>11 DEF Fits
      <3> QED BY <1>10, <3>1
    <2> QED BY <1>1, <1>2, <1>6, <1>10, <1>11, <2>1, <2>2 DEF PhaseOK
  <1>15. SegmentsOK(segs)' /\ IdsOf(segs') \subseteq IdsOf(segs)
    BY <1>11 DEF Keeps
  <1>16. KeysOK'
    BY <1>1, <1>3, <1>10 DEF RecorderInv, KeysOK
  <1>17. MetaOK'
    BY <1>1, <1>3 DEF RecorderInv, MetaOK, Exact
  <1>18. LastOK'
    BY <1>1, <1>3, <1>10, <1>15 DEF RecorderInv, LastOK
  <1>19. AckedOK'
    BY <1>1, <1>11, AckedKept
  <1>20. BatchOK'
    BY <1>1 DEF BatchOK
  <1>21. BytesOK'
    BY <1>1, <1>5, <1>9, <1>10, <1>12 DEF BytesOK
  <1> QED BY <1>13, <1>14, <1>15, <1>16, <1>17, <1>18, <1>19, <1>20, <1>21 DEF RecorderInv

\* A batch is taken: its entries follow the last record, its secrets the open keys.
LEMMA BeginStep == RecorderInv /\ Begin => RecorderInv'
  <1> SUFFICES ASSUME RecorderInv, Begin PROVE RecorderInv'
    OBVIOUS
  <1>1. /\ pc = "idle" /\ pc' = "intent" /\ rec' = [rec EXCEPT !.pending = TRUE]
        /\ ~rec.pending
        /\ meta' = meta /\ durable' = durable /\ segs' = segs /\ gone' = gone
        /\ acked' = acked /\ opens' = opens
    BY DEF Begin, disk
  <1>2. PICK batch \in BoundedSeq(Lines, MaxBatch) :
           /\ rec.last + Len(batch) <= MaxId
           /\ todo' = Entries(batch)
           /\ truth' = {s \in Sources : InKey(batch, Len(batch), s)}
    BY DEF Begin
  <1>3. /\ segs \in Seq(SegmentSet) /\ SegmentsOK(segs) /\ gone \in 0..MaxId
        /\ meta \in MetaSet /\ durable \in MetaSet /\ rec \in RecorderSet /\ Fits(rec, segs)
        /\ rec.writer /\ todo = <<>> /\ opens \in Nat /\ rec.last \in 0..MaxId /\ MaxId \in Nat
        /\ truth \in SUBSET Sources /\ acked \in SUBSET Nat
    BY <1>1, WhenRecording, WhenStopping, RecorderAssumption DEF Live
  <1>4. Live /\ Live'
    BY <1>1 DEF Live
  <1>5. batch \in Seq(Lines) /\ Len(batch) \in Nat /\ DOMAIN batch = 1..Len(batch)
    <2>1. PICK m \in 0..MaxBatch : batch \in [1..m -> Lines]
      BY DEF BoundedSeq, SeqOf
    <2> QED BY <2>1, RecorderAssumption
  <1>6. /\ rec' \in RecorderSet /\ rec'.closed = rec.closed /\ rec'.keys = rec.keys
        /\ rec'.last = rec.last /\ rec'.writer = rec.writer
        /\ rec'.file = rec.file /\ rec'.sizes = rec.sizes
        /\ rec'.bytes = rec.bytes /\ rec'.metaBytes = rec.metaBytes
    BY <1>1, <1>3, PendingFields
  <1> DEFINE t == todo'
             N == Len(batch)
             secret(i) == batch[i].text = "begin" \/ InKey(batch, i - 1, batch[i].source)
  <1>7. t = [i \in 1..N |-> [id |-> rec.last + i, line |-> batch[i], secret |-> secret(i)]]
    BY <1>2, <1>5 DEF Entries
  <1>8. \A i \in 1..N : batch[i] \in Lines /\ secret(i) \in BOOLEAN /\ rec.last + i \in Nat
    BY <1>3, <1>5
  <1> HIDE DEF secret, t
  <1>9. t \in Seq(EntrySet) /\ Len(t) = N /\ DOMAIN t = 1..N
    <2>1. \A i \in 1..N : [id |-> rec.last + i, line |-> batch[i], secret |-> secret(i)] \in EntrySet
      BY <1>8 DEF EntrySet
    <2>2. t \in [1..N -> EntrySet]
      BY <1>7, <2>1
    <2> QED BY <1>5, <2>2
  <1>10. \A i \in 1..N : /\ t[i].id = rec.last + i /\ t[i].line = batch[i]
                         /\ t[i].secret = secret(i)
    BY <1>7
  <1>11. \A n \in 0..N : \A s : InKey(batch, n, s) <=> Inside(truth, t, n, s)
    BY <1>5, <1>10, InKeyMeans
  <1>12. RecorderTypeOK'
    <2>1. truth' \in SUBSET Sources
      BY <1>2
    <2> QED BY <1>1, <1>3, <1>6, <1>9, <2>1 DEF RecorderTypeOK, Phases, t
  <1>13. PhaseOK'
    BY <1>1, <1>2, <1>3, <1>6, <1>9, <1>10 DEF PhaseOK, Fits, t
  <1>14. SegmentsOK(segs)'
    BY <1>1, <1>3
  <1>15. KeysOK'
    <2> SUFFICES ASSUME ~rec'.closed
                 PROVE  /\ \A s \in Sources : s \in truth' <=> Inside(rec'.keys, t, Len(t), s)
                        /\ \A i \in DOMAIN t : t[i].secret =>
                              t[i].line.text = "begin" \/ Inside(rec'.keys, t, i - 1, t[i].line.source)
      BY DEF KeysOK, t
    <2>1. rec'.keys = truth
      BY <1>3, <1>4, <1>6, IdleKeys
    <2>2. N \in 0..N /\ \A i \in 1..N : i - 1 \in 0..N
      BY <1>5
    <2>3. \A s \in Sources : s \in truth' <=> Inside(rec'.keys, t, Len(t), s)
      BY <1>2, <1>9, <1>11, <2>1, <2>2
    <2>4. ASSUME NEW i \in DOMAIN t, t[i].secret
          PROVE  t[i].line.text = "begin" \/ Inside(rec'.keys, t, i - 1, t[i].line.source)
      <3>1. i \in 1..N /\ t[i].line = batch[i] /\ secret(i)
        BY <1>9, <1>10, <2>4
      <3>2. batch[i].text = "begin" \/ InKey(batch, i - 1, batch[i].source)
        BY <3>1 DEF secret
      <3> QED BY <1>11, <2>1, <2>2, <3>1, <3>2
    <2> QED BY <2>3, <2>4
  <1>16. MetaOK'
    <2>1. meta.writer /\ durable.writer
      BY <1>1, <1>4 DEF RecorderInv, MetaOK
    <2> QED BY <1>1, <2>1 DEF MetaOK, Exact
  <1>17. LastOK'
    BY <1>1, <1>4, <1>6 DEF RecorderInv, LastOK
  <1>18. AckedOK'
    BY <1>1, <1>3, SameKeeps, AckedKept
  <1>19. BatchOK'
    BY <1>1 DEF BatchOK
  <1>20. BytesOK'
    BY <1>1, <1>4, <1>6 DEF RecorderInv, BytesOK
  <1> QED BY <1>12, <1>13, <1>14, <1>15, <1>16, <1>17, <1>18, <1>19, <1>20 DEF RecorderInv

\* The records of the batch are synced.
LEMMA SyncStep == RecorderInv /\ Sync => RecorderInv'
  <1> SUFFICES ASSUME RecorderInv, Sync PROVE RecorderInv'
    OBVIOUS
  <1>1. /\ pc = "entries" /\ pc' = "checkpoint" /\ rec' = [rec EXCEPT !.pending = FALSE]
        /\ todo = <<>>
        /\ segs' = (IF rec.file THEN SyncLast(segs) ELSE segs)
        /\ meta' = meta /\ durable' = durable /\ gone' = gone /\ todo' = todo
        /\ truth' = truth /\ acked' = acked /\ opens' = opens
    BY DEF Sync, ghosts
  <1>2. /\ segs \in Seq(SegmentSet) /\ SegmentsOK(segs) /\ gone \in 0..MaxId
        /\ meta \in MetaSet /\ durable \in MetaSet /\ rec \in RecorderSet /\ Fits(rec, segs)
        /\ opens \in Nat /\ rec.last \in 0..MaxId /\ meta.last \in 0..MaxId
        /\ truth \in SUBSET Sources /\ acked \in SUBSET Nat
    BY <1>1, WhenRecording
  <1>3. Live /\ Live'
    BY <1>1 DEF Live
  <1>4. /\ rec' \in RecorderSet /\ rec'.closed = rec.closed /\ rec'.keys = rec.keys
        /\ rec'.last = rec.last /\ rec'.writer = rec.writer
        /\ rec'.file = rec.file /\ rec'.sizes = rec.sizes
        /\ rec'.bytes = rec.bytes /\ rec'.metaBytes = rec.metaBytes
    BY <1>1, <1>2, PendingFields
  <1>5. /\ segs' \in Seq(SegmentSet) /\ Len(segs') = Len(segs)
        /\ SegmentsOK(segs') /\ IdsOf(segs') = IdsOf(segs)
        /\ \A a \in 1..Len(segs) : Size(segs'[a]) = Size(segs[a])
        /\ \A id \in Nat : /\ Held(segs, id) => Held(segs', id)
                           /\ rec.file => (Written(segs, id) => Synced(segs', id))
    <2>1. CASE rec.file
      <3>1. segs # <<>> /\ segs' = SyncLast(segs)
        BY <1>1, <1>2, <2>1 DEF Fits
      <3> QED BY <1>2, <3>1, SyncLastKeeps
    <2>2. CASE ~rec.file
      <3>1. segs' = segs
        BY <1>1, <2>2
      <3> QED BY <1>2, <2>2, <3>1
    <2> QED BY <2>1, <2>2
  <1>6. Keeps(segs, gone, segs', gone')
    <2>1. gone <= gone
      BY <1>2, RecorderAssumption
    <2> QED BY <1>1, <1>2, <1>5, <2>1 DEF Keeps
  <1>7. RecorderTypeOK'
    BY <1>1, <1>2, <1>4, <1>5 DEF RecorderInv, RecorderTypeOK, Phases
  <1>8. PhaseOK'
    <2>1. /\ rec.last + Len(todo) <= MaxId /\ \A i \in DOMAIN todo : todo[i].id = rec.last + i
          /\ rec.writer
      BY <1>3 DEF RecorderInv, PhaseOK
    <2>2. Len(rec'.sizes) = Len(segs') /\ (rec'.file => segs' # <<>>)
      <3>1. rec.file => Len(segs') # 0
        BY <1>2, <1>5 DEF Fits
      <3> QED BY <1>2, <1>4, <1>5, <3>1 DEF Fits
    <2> QED BY <1>1, <1>4, <2>1, <2>2 DEF PhaseOK
  <1>9. KeysOK'
    BY <1>1, <1>3, <1>4 DEF RecorderInv, KeysOK
  <1>10. MetaOK'
    BY <1>1, <1>3 DEF RecorderInv, MetaOK, Exact
  <1>11. LastOK'
    BY <1>1, <1>3, <1>4, <1>5 DEF RecorderInv, LastOK
  <1>12. AckedOK'
    BY <1>1, <1>6, AckedKept
  <1>13. BatchOK'
    <2>1. ASSUME NEW id \in (meta.last + 1)..rec.last PROVE id <= gone \/ Synced(segs', id)
      <3>1. id \in Nat /\ rec.last > meta.last
        BY <1>2, RecorderAssumption
      <3>2. rec.file /\ (id <= gone \/ Written(segs, id))
        BY <1>1, <3>1 DEF RecorderInv, BatchOK
      <3> QED BY <1>5, <3>1, <3>2
    <2> QED BY <1>1, <1>4, <2>1 DEF BatchOK
  <1>14. BytesOK'
    <2>1. /\ \A a \in DOMAIN segs : rec.sizes[a] = Size(segs[a])
          /\ rec.metaBytes = meta.bytes
          /\ rec.bytes = rec.metaBytes + Total(rec.sizes)
      BY <1>1, <1>3 DEF RecorderInv, BytesOK
    <2>2. DOMAIN segs' = 1..Len(segs) /\ DOMAIN segs = 1..Len(segs)
      BY <1>2, <1>5
    <2> QED BY <1>1, <1>4, <1>5, <2>1, <2>2 DEF BytesOK
  <1> QED BY <1>5, <1>7, <1>8, <1>9, <1>10, <1>11, <1>12, <1>13, <1>14 DEF RecorderInv

\* One record is written.
LEMMA WriteEntryStep == RecorderInv /\ WriteEntry => RecorderInv'
  <1> SUFFICES ASSUME RecorderInv, WriteEntry PROVE RecorderInv'
    OBVIOUS
  <1> DEFINE head == Head(todo)
             id == head.id
             record == [id |-> id, secret |-> head.secret, masked |-> Sensitive(rec, head.line)]
  <1>1. /\ pc = "entries" /\ pc' = pc /\ todo # <<>> /\ todo' = Tail(todo)
        /\ meta' = meta /\ durable' = durable
        /\ truth' = truth /\ acked' = acked /\ opens' = opens
    BY DEF WriteEntry, ghosts
  <1>2. PICK n \in 0..Len(segs) :
           /\ gone' = Newest(SubSeq(segs, 1, n))
           /\ LET ready == Ready(Without(Tracked, n), Rest(n))
                  at == Len(ready.ss)
              IN  /\ segs' = [ready.ss EXCEPT ![at].recs = Append(@, record)]
                  /\ rec' = [ready.r EXCEPT !.sizes[at] = @ + 1, !.bytes = @ + 1, !.last = record.id]
    BY DEF WriteEntry
  <1> DEFINE w == Without(Tracked, n)
             tt == Rest(n)
             uu == Ready(w, tt).ss
             k == Ready(w, tt).r
  <1>3. /\ Keeps(segs, gone, tt, gone')
        /\ \A m \in Nat : Written(segs, m) => Written(tt, m) \/ m <= gone'
        /\ w \in RecorderSet /\ Fits(w, tt)
        /\ w.last = rec.last /\ w.writer = rec.writer
        /\ w.file = (rec.file /\ n < Len(segs)) /\ (n = Len(segs) => tt = <<>>)
        /\ ~w.closed => ~rec.closed /\ w.keys = KeysAfter(rec.keys, head.line)
        /\ Measures(rec, segs) => Measures(w, tt)
        /\ w.metaBytes = rec.metaBytes
        /\ Adds(rec) => Adds(w)
    BY <1>1, <1>2, Evicted
  <1>4. /\ segs' = [uu EXCEPT ![Len(uu)].recs = Append(@, record)]
        /\ rec' = [k EXCEPT !.sizes[Len(uu)] = @ + 1, !.bytes = @ + 1, !.last = record.id]
    BY <1>2
  <1> HIDE DEF w, tt
  <1>5. tt \in Seq(SegmentSet) /\ SegmentsOK(tt) /\ IdsOf(tt) \subseteq IdsOf(segs)
    BY <1>3 DEF Keeps
  <1>6. /\ uu \in Seq(SegmentSet) /\ SegmentsOK(uu) /\ IdsOf(uu) = IdsOf(tt) /\ uu # <<>>
        /\ \A m \in Nat : /\ Held(tt, m) => Held(uu, m)
                          /\ Written(tt, m) /\ w.file => Written(uu, m)
        /\ k \in RecorderSet /\ SameSession(k, w) /\ Fits(k, uu) /\ k.file
        /\ Measures(w, tt) => Measures(k, uu)
        /\ k.metaBytes = w.metaBytes
        /\ Adds(w) => Adds(k)
    BY <1>3, <1>5, ReadyKeeps
  <1> HIDE DEF uu, k
  <1>7. /\ segs \in Seq(SegmentSet) /\ gone \in 0..MaxId /\ rec \in RecorderSet
        /\ todo \in Seq(EntrySet) /\ meta \in MetaSet /\ durable \in MetaSet
        /\ opens \in Nat /\ rec.last \in 0..MaxId /\ meta.last \in 0..MaxId /\ MaxId \in Nat
        /\ truth \in SUBSET Sources /\ acked \in SUBSET Nat /\ IdsOf(segs) \in SUBSET (1..MaxId)
    BY WhenRecording, RecorderAssumption
  <1>8. Live /\ Live' /\ rec.writer
    BY <1>1, WhenRecording DEF Live
  <1>9. /\ 1 \in DOMAIN todo /\ head = todo[1] /\ head \in EntrySet /\ Len(todo) \in Nat
        /\ Len(todo) >= 1 /\ DOMAIN todo = 1..Len(todo)
    BY <1>1, <1>7
  <1>10. rec.last + Len(todo) <= MaxId /\ \A i \in DOMAIN todo : todo[i].id = rec.last + i
    BY DEF RecorderInv, PhaseOK
  <1>11. id = rec.last + 1 /\ id \in 1..MaxId
    BY <1>7, <1>9, <1>10
  <1>12. record \in RecordSet /\ record.id = id /\ (record.secret => record.masked)
    <2>1. head.secret \in BOOLEAN /\ Sensitive(rec, head.line) \in BOOLEAN
      BY <1>9 DEF EntrySet, Sensitive
    <2>2. record \in RecordSet /\ record.id = id
      BY <1>11, <2>1 DEF RecordSet
    <2>3. ASSUME head.secret PROVE Sensitive(rec, head.line)
      <3>1. ASSUME ~rec.closed
            PROVE  head.line.text = "begin" \/ Inside(rec.keys, todo, 0, head.line.source)
        <4>1. head.line.text = "begin" \/ Inside(rec.keys, todo, 1 - 1, head.line.source)
          BY <1>8, <1>9, <2>3, <3>1 DEF RecorderInv, KeysOK
        <4> QED BY <4>1
      <3>2. Inside(rec.keys, todo, 0, head.line.source) => head.line.source \in rec.keys
        BY DEF Inside
      <3> QED BY <3>1, <3>2 DEF Sensitive
    <2> QED BY <2>2, <2>3
  <1>13. segs' = WithRecord(uu, record)
    BY <1>4 DEF WithRecord
  <1>14. rec' = Wrote(k, id) /\ k.sizes # <<>>
    <2>1. Len(k.sizes) = Len(uu) /\ Len(uu) # 0
      BY <1>6 DEF Fits
    <2>2. k.sizes # <<>>
      BY <2>1
    <2> QED BY <1>4, <2>1, <2>2 DEF Wrote
  <1> HIDE DEF head, record
  <1>15. \A m \in IdsOf(segs) : m <= rec.last
    BY <1>8 DEF RecorderInv, LastOK
  <1>16. \A m \in IdsOf(uu) : m < record.id
    BY <1>5, <1>6, <1>7, <1>11, <1>12, <1>15
  <1>17. /\ segs' \in Seq(SegmentSet) /\ Len(segs') = Len(uu)
         /\ SegmentsOK(segs') /\ \A m \in IdsOf(segs') : m \in IdsOf(uu) \/ m = record.id
         /\ \A a \in 1..Len(uu) :
               Size(segs'[a]) = IF a = Len(uu) THEN Size(uu[a]) + 1 ELSE Size(uu[a])
         /\ \A m \in Nat : /\ Held(uu, m) => Held(segs', m)
                           /\ Written(uu, m) => Written(segs', m)
         /\ Written(segs', record.id)
    BY <1>6, <1>12, <1>13, <1>16, RecordKeeps
  <1>18. /\ rec' \in RecorderSet /\ rec'.last = id /\ rec'.keys = k.keys /\ rec'.closed = k.closed
         /\ rec'.writer = k.writer
         /\ rec'.file = k.file /\ rec'.metaBytes = k.metaBytes /\ Len(rec'.sizes) = Len(k.sizes)
         /\ \A a \in 1..Len(k.sizes) :
               rec'.sizes[a] = IF a = Len(k.sizes) THEN k.sizes[a] + 1 ELSE k.sizes[a]
         /\ Adds(k) => Adds(rec')
    <2> DEFINE v == rec'
    <2>1. k \in RecorderSet /\ k.sizes # <<>> /\ id \in 1..MaxId /\ v = Wrote(k, id)
      BY <1>6, <1>11, <1>14
    <2> HIDE DEF id, v
    <2>2. /\ v \in RecorderSet /\ v.last = id /\ v.keys = k.keys /\ v.closed = k.closed
          /\ v.writer = k.writer
          /\ v.file = k.file /\ v.metaBytes = k.metaBytes /\ Len(v.sizes) = Len(k.sizes)
          /\ \A a \in 1..Len(k.sizes) :
                v.sizes[a] = IF a = Len(k.sizes) THEN k.sizes[a] + 1 ELSE k.sizes[a]
          /\ Adds(k) => Adds(v)
      BY <2>1, WroteFields
    <2> QED BY <2>2 DEF v
  <1>19. k.keys = w.keys /\ k.closed = w.closed /\ k.writer = w.writer
    BY <1>6 DEF SameSession
  <1>20. gone' \in 0..MaxId /\ gone <= gone'
    BY <1>3 DEF Keeps
  <1>21. todo' \in Seq(EntrySet) /\ Len(todo') = Len(todo) - 1
         /\ DOMAIN todo' = 1..(Len(todo) - 1)
         /\ \A i \in 1..(Len(todo) - 1) : todo'[i] = todo[i + 1]
    BY <1>1, <1>7, <1>9
  <1>22. RecorderTypeOK'
    BY <1>1, <1>7, <1>17, <1>18, <1>20, <1>21 DEF RecorderTypeOK, Phases
  <1>23. PhaseOK'
    <2>1. rec'.last + Len(todo') <= MaxId
      BY <1>7, <1>9, <1>10, <1>11, <1>18, <1>21
    <2>2. ASSUME NEW i \in DOMAIN todo' PROVE todo'[i].id = rec'.last + i
      <3>1. i + 1 \in DOMAIN todo /\ i \in 1..(Len(todo) - 1)
        BY <1>9, <1>21
      <3>2. todo'[i].id = rec.last + (i + 1)
        BY <1>10, <1>21, <3>1
      <3>3. rec'.last = rec.last + 1
        BY <1>11, <1>18
      <3>4. i \in Int /\ rec.last \in Int
        BY <1>7, <1>9, <3>1
      <3>5. rec.last + (i + 1) = (rec.last + 1) + i
        BY <3>4
      <3> QED BY <3>2, <3>3, <3>5
    <2>3. Len(rec'.sizes) = Len(segs') /\ segs' # <<>>
      <3>1. Len(uu) # 0 /\ Len(k.sizes) = Len(uu)
        BY <1>6 DEF Fits
      <3> QED BY <1>17, <1>18, <3>1
    <2> QED BY <1>1, <1>3, <1>8, <1>18, <1>19, <2>1, <2>2, <2>3 DEF PhaseOK
  <1>24. KeysOK'
    <2> SUFFICES ASSUME ~rec'.closed
                 PROVE  /\ \A s \in Sources : s \in truth <=> Inside(rec'.keys, todo', Len(todo'), s)
                        /\ \A i \in DOMAIN todo' : todo'[i].secret =>
                              \/ todo'[i].line.text = "begin"
                              \/ Inside(rec'.keys, todo', i - 1, todo'[i].line.source)
      BY <1>1 DEF KeysOK
    <2> DEFINE after == KeysAfter(rec.keys, head.line)
    <2>1. ~rec.closed /\ rec'.keys = after
      BY <1>3, <1>18, <1>19
    <2>2. /\ \A s \in Sources : s \in truth <=> Inside(rec.keys, todo, Len(todo), s)
          /\ \A i \in DOMAIN todo : todo[i].secret =>
                todo[i].line.text = "begin" \/ Inside(rec.keys, todo, i - 1, todo[i].line.source)
      BY <1>8, <2>1 DEF RecorderInv, KeysOK
    <2>3. \A m \in Nat : m + 1 <= Len(todo) =>
             \A s : Inside(after, todo', m, s) <=> Inside(rec.keys, todo, m + 1, s)
      BY <1>1, <1>7, InsideTail DEF head
    <2> HIDE DEF after
    <2>4. \A s : Inside(after, todo', Len(todo'), s) <=> Inside(rec.keys, todo, Len(todo), s)
      <3>1. Len(todo') \in Nat /\ Len(todo') + 1 = Len(todo)
        BY <1>9, <1>21
      <3> QED BY <1>9, <2>3, <3>1
    <2>5. ASSUME NEW i \in DOMAIN todo', todo'[i].secret
          PROVE  \/ todo'[i].line.text = "begin"
                 \/ Inside(after, todo', i - 1, todo'[i].line.source)
      <3>1. /\ i + 1 \in DOMAIN todo /\ i \in 1..(Len(todo) - 1)
            /\ i - 1 \in Nat /\ (i - 1) + 1 = i /\ (i + 1) - 1 = i /\ i <= Len(todo)
        BY <1>9, <1>21
      <3>2. todo'[i] = todo[i + 1]
        BY <1>21, <3>1
      <3>3. todo[i + 1].line.text = "begin" \/ Inside(rec.keys, todo, i, todo[i + 1].line.source)
        BY <2>2, <2>5, <3>1, <3>2
      <3>4. \A s : Inside(after, todo', i - 1, s) <=> Inside(rec.keys, todo, i, s)
        BY <2>3, <3>1
      <3> QED BY <3>2, <3>3, <3>4
    <2> QED BY <2>1, <2>2, <2>4, <2>5
  <1>25. MetaOK'
    BY <1>1, <1>8 DEF RecorderInv, MetaOK, Exact
  <1>26. LastOK'
    <2>1. \A m \in acked : m <= meta.last /\ m <= durable.last
      BY WhenStopping
    <2>2. meta.last <= rec'.last
      <3>1. meta.last <= rec.last
        BY <1>8 DEF RecorderInv, LastOK
      <3> QED BY <1>7, <1>11, <1>18, <3>1
    <2>3. ASSUME NEW m \in IdsOf(segs') PROVE m <= rec'.last
      <3>1. m = id \/ m \in IdsOf(segs)
        BY <1>5, <1>6, <1>12, <1>17
      <3>2. m \in IdsOf(segs) => m <= rec.last /\ m \in Nat
        BY <1>7, <1>15
      <3> QED BY <1>7, <1>11, <1>18, <3>1, <3>2
    <2> QED BY <1>1, <2>1, <2>2, <2>3 DEF LastOK
  <1>27. AckedOK'
    <2>1. ASSUME NEW m \in acked PROVE m <= gone' \/ Held(segs', m)
      <3>1. m \in Nat /\ (m <= gone \/ Held(segs, m))
        BY <1>7 DEF RecorderInv, AckedOK
      <3>2. Held(segs, m) => Held(tt, m) \/ m <= gone'
        BY <1>3, <3>1 DEF Keeps
      <3>3. Held(tt, m) => Held(segs', m)
        BY <1>6, <1>17, <3>1
      <3> QED BY <1>7, <1>20, <3>1, <3>2, <3>3
    <2> QED BY <1>1, <2>1 DEF AckedOK
  <1>28. BatchOK'
    <2>1. rec'.file
      BY <1>6, <1>18
    <2>2. ASSUME NEW m \in (meta.last + 1)..rec'.last PROVE m <= gone' \/ Written(segs', m)
      <3>1. CASE m = id
        BY <1>12, <1>17, <3>1
      <3>2. CASE m # id
        <4>1. m \in (meta.last + 1)..rec.last /\ m \in Nat /\ rec.last > meta.last
          BY <1>7, <1>11, <1>18, <3>2
        <4>2. rec.file /\ (m <= gone \/ Written(segs, m))
          BY <1>1, <4>1 DEF RecorderInv, BatchOK
        <4>3. Written(segs, m) => Written(tt, m) \/ m <= gone'
          BY <1>3, <4>1
        <4>4. Written(tt, m) => w.file
          <5>1. CASE n = Len(segs)
            <6>1. tt = <<>>
              BY <1>3, <5>1
            <6>2. DOMAIN tt = {}
              BY <6>1
            <6> QED BY <6>2 DEF Written
          <5>2. CASE n # Len(segs)
            <6>1. n < Len(segs)
              BY <1>7, <5>2
            <6> QED BY <1>3, <4>2, <6>1
          <5> QED BY <5>1, <5>2
        <4>5. Written(tt, m) => Written(segs', m)
          BY <1>6, <1>17, <4>1, <4>4
        <4> QED BY <1>7, <1>20, <4>1, <4>2, <4>3, <4>5
      <3> QED BY <3>1, <3>2
    <2> QED BY <1>1, <2>1, <2>2 DEF BatchOK
  <1>29. BytesOK'
    <2>1. Measures(rec, segs) /\ Adds(rec) /\ rec.metaBytes = meta.bytes
      BY <1>1, <1>8 DEF RecorderInv, BytesOK, Measures, Adds
    <2>2. Measures(k, uu) /\ Adds(rec') /\ rec'.metaBytes = meta.bytes
      BY <1>3, <1>6, <1>18, <2>1
    <2>3. ASSUME NEW a \in DOMAIN segs' PROVE rec'.sizes[a] = Size(segs'[a])
      <3>1. a \in 1..Len(uu) /\ a \in DOMAIN uu /\ Len(k.sizes) = Len(uu)
        BY <1>6, <1>17 DEF Fits
      <3>2. k.sizes[a] = Size(uu[a])
        BY <2>2, <3>1 DEF Measures
      <3> QED BY <1>17, <1>18, <3>1, <3>2
    <2> QED BY <1>1, <2>2, <2>3 DEF BytesOK, Adds
  <1> QED BY <1>17, <1>22, <1>23, <1>24, <1>25, <1>26, <1>27, <1>28, <1>29 DEF RecorderInv

---------------------------------------------------------------------------
(* The theorems.                                                           *)

\* No recording yet.
LEMMA RecorderStart == Init => RecorderInv
  <1> SUFFICES ASSUME Init PROVE RecorderInv
    OBVIOUS
  <1>1. /\ meta = NoMeta /\ durable = NoMeta /\ segs = <<>> /\ rec = NoRecorder /\ pc = "none"
        /\ todo = <<>> /\ truth = {} /\ acked = {} /\ gone = 0 /\ opens = 0
    BY DEF Init
  <1>2. ~Live /\ pc \in Phases
    BY <1>1 DEF Live, Phases
  <1>3. 0 \in 0..MaxId /\ MaxId \in Nat /\ {} \in KeySets
    BY RecorderAssumption, FS_EmptySet DEF KeySets
  <1>4. /\ NoMeta \in MetaSet /\ NoMeta.keys = {}
    BY <1>3 DEF NoMeta, MetaSet
  <1>5. segs \in Seq(SegmentSet) /\ DOMAIN segs = {} /\ todo \in Seq(EntrySet)
        /\ Len(todo) = 0 /\ DOMAIN todo = {}
    BY <1>1
  <1>6. RecorderTypeOK
    BY <1>1, <1>2, <1>3, <1>4, <1>5, NoRecorderType DEF RecorderTypeOK
  <1>7. PhaseOK
    <2>1. rec.last = 0
      BY <1>1 DEF NoRecorder
    <2> QED BY <1>1, <1>2, <1>3, <1>5, <2>1 DEF PhaseOK
  <1>8. SegmentsOK(segs)
    BY <1>5 DEF SegmentsOK
  <1>9. MetaOK
    BY <1>1, <1>2, <1>4 DEF MetaOK, Exact
  <1>10. KeysOK /\ LastOK /\ AckedOK /\ BytesOK
    BY <1>1, <1>2 DEF KeysOK, LastOK, AckedOK, BytesOK
  <1>11. BatchOK
    BY <1>1 DEF BatchOK
  <1> QED BY <1>6, <1>7, <1>8, <1>9, <1>10, <1>11 DEF RecorderInv

\* A step that changes nothing.
LEMMA RecorderStutter == RecorderInv /\ UNCHANGED vars => RecorderInv'
  <1> SUFFICES ASSUME RecorderInv, UNCHANGED vars PROVE RecorderInv'
    OBVIOUS
  <1>1. /\ meta' = meta /\ durable' = durable /\ segs' = segs /\ rec' = rec /\ pc' = pc
        /\ todo' = todo /\ truth' = truth /\ acked' = acked /\ gone' = gone /\ opens' = opens
    BY DEF vars
  <1>2. RecorderTypeOK' /\ PhaseOK' /\ SegmentsOK(segs)' /\ MetaOK'
    BY <1>1 DEF RecorderInv, RecorderTypeOK, PhaseOK, MetaOK, Exact, Live
  <1>3. KeysOK' /\ LastOK' /\ AckedOK' /\ BatchOK' /\ BytesOK'
    BY <1>1 DEF RecorderInv, KeysOK, LastOK, AckedOK, BatchOK, BytesOK, Live
  <1> QED BY <1>2, <1>3 DEF RecorderInv

\* Every step keeps the invariant.
LEMMA RecorderStep == RecorderInv /\ [Next]_vars => RecorderInv'
  <1> SUFFICES ASSUME RecorderInv, [Next]_vars PROVE RecorderInv'
    OBVIOUS
  <1>1. CASE Open
    BY <1>1, OpenScanStep, OpenMetaStep, OpenMetaFailsStep, RepairStep, RepairFailsStep DEF Open
  <1>2. CASE AppendBatch
    BY <1>2, BeginStep, IntentStep, IntentFailsStep, WriteEntryStep, EntryRefusedStep, NoRoomStep,
       WriteFailsStep, SyncStep, SyncFailsStep, CheckpointStep, CheckpointFailsStep DEF AppendBatch
  <1>3. CASE Close
    BY <1>3, CloseStep
  <1>4. CASE CloseFile
    BY <1>4, CloseFileStep
  <1>5. CASE Crash
    BY <1>5, CrashStep
  <1>6. CASE UNCHANGED vars
    BY <1>6, RecorderStutter
  <1> QED BY <1>1, <1>2, <1>3, <1>4, <1>5, <1>6 DEF Next

\* The invariant of the recorder: what the disk, the memory and the redactor know of
\* each other after any batches, failures, crashes and openings.
THEOREM RecorderInvariant == Spec => []RecorderInv
  <1>1. Init => RecorderInv
    BY RecorderStart
  <1>2. RecorderInv /\ [Next]_vars => RecorderInv'
    BY RecorderStep
  <1> QED BY <1>1, <1>2, PTL DEF Spec

\* The types of the recorder's state, on disk and in memory.
THEOREM RecorderTypeCorrect == Spec => []RecorderTypeOK
  <1>1. RecorderInv => RecorderTypeOK
    BY DEF RecorderInv
  <1> QED BY <1>1, RecorderInvariant, PTL

\* No line of a private key is on disk unmasked: a redactor that may have missed the
\* beginning of a key fails closed (recording.go, redaction.go).
THEOREM SecretsAreMaskedHolds == Spec => []SecretsAreMasked
  <1>1. RecorderInv => SecretsAreMasked
    <2> SUFFICES ASSUME RecorderInv, NEW s \in ToSet(segs), NEW i \in DOMAIN s.recs, s.recs[i].secret
                 PROVE  s.recs[i].masked
      BY DEF SecretsAreMasked
    <2>1. PICK a \in DOMAIN segs : segs[a] = s
      BY DEF ToSet
    <2>2. SegmentOK(s)
      BY <2>1 DEF RecorderInv, SegmentsOK
    <2> QED BY <2>2 DEF SegmentOK
  <1> QED BY <1>1, RecorderInvariant, PTL

\* The records of a recording ascend by ID, and no ID is given twice.
LEMMA IdsOrdered == RecorderInv => IdsAscend
  <1> SUFFICES ASSUME RecorderInv PROVE IdsAscend
    OBVIOUS
  <1> DEFINE E == 1..MaxId
             R == {p \in E \X E : p[1] < p[2]}
             parts == [i \in DOMAIN segs |-> [j \in DOMAIN segs[i].recs |-> segs[i].recs[j].id]]
             ids == FlattenSeq(parts)
  <1>1. segs \in Seq(SegmentSet) /\ SegmentsOK(segs) /\ IdsOf(segs) \in SUBSET E
    BY WhenRecording
  <1>2. ASSUME NEW a \in DOMAIN segs
        PROVE  /\ segs[a] \in SegmentSet /\ SegmentOK(segs[a]) /\ DOMAIN parts[a] = DOMAIN segs[a].recs
               /\ parts[a] \in Seq(E)
               /\ \A i \in DOMAIN parts[a] : parts[a][i] = segs[a].recs[i].id /\ parts[a][i] \in E
    <2>1. segs[a] \in SegmentSet /\ SegmentOK(segs[a])
      BY <1>1 DEF SegmentsOK
    <2>2. /\ Len(segs[a].recs) \in Nat /\ DOMAIN segs[a].recs = 1..Len(segs[a].recs)
          /\ \A i \in DOMAIN segs[a].recs : segs[a].recs[i].id \in E
      BY <2>1, SegmentFields
    <2> DEFINE q == [j \in DOMAIN segs[a].recs |-> segs[a].recs[j].id]
    <2>3. parts[a] = q
      OBVIOUS
    <2>4. q \in [1..Len(segs[a].recs) -> E] /\ DOMAIN q = DOMAIN segs[a].recs
      BY <2>2
    <2>5. \A i \in DOMAIN q : q[i] = segs[a].recs[i].id /\ q[i] \in E
      BY <2>2
    <2> HIDE DEF q, parts, E
    <2>6. q \in Seq(E)
      BY <2>2, <2>4
    <2> QED BY <2>1, <2>3, <2>4, <2>5, <2>6
  <1>3. parts \in Seq(Seq(E)) /\ DOMAIN parts = DOMAIN segs
    <2>1. parts \in [1..Len(segs) -> Seq(E)] /\ Len(segs) \in Nat
      BY <1>1, <1>2
    <2> QED BY <1>1, <2>1
  <1>4. \A x, y \in E : <<x, y>> \in R <=> x < y
    OBVIOUS
  <1> HIDE DEF E, R, parts
  <1>5. ASSUME NEW a \in DOMAIN parts, NEW i \in DOMAIN parts[a], NEW j \in DOMAIN parts[a], i < j
        PROVE  <<parts[a][i], parts[a][j]>> \in R
    <2>1. segs[a].recs[i].id < segs[a].recs[j].id
      BY <1>2, <1>3, <1>5 DEF SegmentOK
    <2> QED BY <1>2, <1>3, <1>4, <2>1
  <1>6. ASSUME NEW a \in DOMAIN parts, NEW b \in DOMAIN parts, a < b,
               NEW i \in DOMAIN parts[a], NEW j \in DOMAIN parts[b]
        PROVE  <<parts[a][i], parts[b][j]>> \in R
    <2>1. a \in DOMAIN segs /\ b \in DOMAIN segs /\ <<segs[a], segs[b]>> \in Before
      BY <1>1, <1>3, <1>6 DEF SegmentsOK
    <2>2. segs[a].recs[i].id < segs[b].recs[j].id
      BY <1>2, <2>1, BeforeMeans
    <2> QED BY <1>2, <1>4, <2>1, <2>2
  <1>7. Ordered(parts, R)
    BY <1>5, <1>6 DEF Ordered
  <1>8. /\ ids \in Seq(E)
        /\ \A i, j \in DOMAIN ids : i < j => <<ids[i], ids[j]>> \in R
    BY <1>3, <1>7, FlattenOrdered
  <1>9. \A i, j \in DOMAIN ids : i < j => ids[i] < ids[j]
    <2> HIDE DEF ids
    <2>1. \A i \in DOMAIN ids : ids[i] \in E
      BY <1>8
    <2> QED BY <1>4, <1>8, <2>1
  <1>10. Live => \A id \in IdsOf(segs) \cup acked : id <= rec.last
    BY AckedBefore DEF RecorderInv, LastOK
  <1> QED BY <1>9, <1>10 DEF IdsAscend, Live, parts

\* An acknowledged record is on disk until it is evicted, whatever crashes, and no other
\* record is given its ID (AppendBatch, OpenRecorder).
THEOREM AckedSurviveHolds == Spec => []AckedSurvive
  <1>1. RecorderInv => AckedSurvive
    <2> SUFFICES ASSUME RecorderInv, NEW id \in acked PROVE id \in IdsOf(segs) \/ id <= gone
      BY IdsOrdered DEF AckedSurvive
    <2>1. segs \in Seq(SegmentSet) /\ SegmentsOK(segs)
      BY WhenRecording
    <2>2. CASE Held(segs, id)
      <3>1. PICK a \in DOMAIN segs : \E i \in 1..segs[a].synced : segs[a].recs[i].id = id
        BY <2>2 DEF Held
      <3>2. PICK i \in 1..segs[a].synced : segs[a].recs[i].id = id
        BY <3>1
      <3>3. segs[a] \in SegmentSet /\ segs[a].synced <= Len(segs[a].recs)
        BY <2>1 DEF SegmentsOK, SegmentOK
      <3>4. /\ segs[a].synced \in Nat /\ Len(segs[a].recs) \in Nat
            /\ DOMAIN segs[a].recs = 1..Len(segs[a].recs)
        BY <3>3, SegmentFields
      <3>5. i \in DOMAIN segs[a].recs
        BY <3>3, <3>4
      <3> QED BY <2>1, <3>2, <3>5, IdsMember
    <2> QED BY <2>2 DEF RecorderInv, AckedOK
  <1> QED BY <1>1, RecorderInvariant, PTL

\* What the recorder counts is what the disk holds, and a session.json that gives no
\* reason for doubt is exact (writeMeta, repair, OpenRecorder).
THEOREM CheckpointIsTrueHolds == Spec => []CheckpointIsTrue
  <1>1. RecorderInv => CheckpointIsTrue
    <2> SUFFICES ASSUME RecorderInv PROVE CheckpointIsTrue
      OBVIOUS
    <2>1. ASSUME pc = "idle", ~rec.pending PROVE rec.bytes = DiskBytes /\ rec.bytes <= MaxBytes
      <3>1. /\ \A a \in DOMAIN segs : rec.sizes[a] = Size(segs[a])
            /\ rec.metaBytes = meta.bytes /\ rec.bytes = rec.metaBytes + Total(rec.sizes)
            /\ rec.bytes <= MaxBytes
        BY <2>1 DEF RecorderInv, BytesOK, Live
      <3>2. rec \in RecorderSet /\ Fits(rec, segs) /\ segs \in Seq(SegmentSet)
        BY <2>1, WhenRecording
      <3>3. rec.sizes \in Seq(Nat) /\ DOMAIN rec.sizes = DOMAIN segs
        BY <3>2, RecorderFields DEF Fits
      <3>4. rec.sizes = [i \in DOMAIN segs |-> rec.sizes[i]]
        BY <3>3
      <3>5. rec.sizes = [i \in DOMAIN segs |-> Size(segs[i])]
        BY <3>1, <3>4, Zenon
      <3> QED BY <3>1, <3>5, Zenon DEF DiskBytes
    <2>2. ASSUME pc = "none", ~Uncertain PROVE meta.keys = truth /\ \A id \in acked : id <= meta.last
      BY <2>2, WhenStopping DEF Uncertain, Exact
    <2> QED BY <2>1, <2>2 DEF CheckpointIsTrue, BytesAreTrue, CleanMetaIsExact
  <1> QED BY <1>1, RecorderInvariant, PTL
=============================================================================
