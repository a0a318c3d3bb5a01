----------------------------- MODULE LogsProofs ------------------------------
(***************************************************************************)
(* Proofs about LogFollow, for any number of Pods and every cap, and about *)
(* LogPage, for any number of requests of a page.                          *)
(*                                                                         *)
(* That every source is accounted for is a statement about the loop's      *)
(* books: a source's state, its worker, the report it sent and what the    *)
(* viewer was told of it. Reconciling visits the tracked Pods one after    *)
(* the other; that a visit keeps the books, and that afterwards no wanted  *)
(* source is forgotten, is proved for one visit and carried through all of *)
(* them by induction over their number. What is not inductive alone: a     *)
(* report that says canceled is of a source that was cancelled and whose   *)
(* leaving was told, and a source no tracked Pod has is on its way out.    *)
(*                                                                         *)
(* That only the latest request streams takes that a request which is not  *)
(* current has expired, that the model holds the one stream that is opened *)
(* or read and not ended, and that a stream which appended a line after    *)
(* its end takes no other.                                                 *)
(***************************************************************************)
EXTENDS LogFollow, LogPage, FiniteSetTheorems, SequenceTheorems,
        WellFoundedInduction, TLAPS

(***************************************************************************)
(* The owner loop of a log session.                                        *)
(***************************************************************************)

PodSet == [gen : 1..MaxGeneration, matches : BOOLEAN]
SourceSet == [known : BOOLEAN, running : BOOLEAN, left : BOOLEAN, cancelled : BOOLEAN,
              outcome : Outcomes]
StateSet == [sources : [Keys -> SourceSet], readers : [Keys -> Nat], active : Int,
             capWarned : BOOLEAN, joined : [Keys -> Int]]
Views == UNION {[D -> PodSet] : D \in SUBSET Names}
Reports == [key : Keys, outcome : Outcomes]
Events == [name : Names, pod : PodSet]

FollowTypeOK ==
    /\ cluster \in [Names -> PodSet] /\ changes \in Nat
    /\ finite \in BOOLEAN /\ watching \in BOOLEAN /\ events \in Seq(Events)
    /\ pods \in Views
    /\ State \in StateSet
    /\ done \in Seq(Reports)
    /\ owner \in {"loop", "leaving", "closed"} /\ over \in BOOLEAN

Reported(d, k) == \E i \in DOMAIN d : d[i].key = k

Running(st) == {k \in Keys : st.sources[k].running}

\* What holds of a source k, of its worker and of its report in d, and, until the
\* session is over, of what the viewer was told.
SourceOK(st, d, o, k) ==
    LET s == st.sources[k] IN
    /\ ~s.known => s = Unknown
    /\ s.cancelled => s.left
    /\ st.readers[k] \in {0, 1}
    /\ st.readers[k] = 1 \/ Reported(d, k) => s.running
    /\ ~(st.readers[k] = 1 /\ Reported(d, k))
    /\ ~o => /\ s.running => st.readers[k] = 1 \/ Reported(d, k)
             /\ s.known /\ ~s.running /\ s.outcome = "canceled" => s.left
             /\ st.joined[k] = IF s.known /\ ~s.left THEN 1 ELSE 0

ActiveOK(st) ==
    /\ st.active = Cardinality(Running(st))
    /\ st.active <= MaxLogSources

\* Reports are of different sources; "canceled" is reported of a cancelled one.
ReportsOK(st, d, o) ==
    /\ \A i, j \in DOMAIN d : d[i].key = d[j].key => i = j
    /\ ~o => \A i \in DOMAIN d : d[i].outcome = "canceled" => st.sources[d[i].key].cancelled

StateOK(st, d, o) ==
    /\ st \in StateSet
    /\ \A k \in Keys : SourceOK(st, d, o, k)
    /\ ActiveOK(st)
    /\ ReportsOK(st, d, o)

\* No container of a tracked Pod is forgotten.
Kept(st, k) ==
    \/ st.sources[k].running
    \/ st.sources[k].known /\ st.sources[k].outcome # "canceled"
    \/ st.capWarned

WantedOK(st, view) == \A k \in Wanted(view) : Kept(st, k)

\* A source no tracked Pod has is on its way out.
UnwantedOK(st, view) ==
    \A k \in Keys : st.sources[k].known /\ k \notin Wanted(view) =>
        st.sources[k].running /\ st.sources[k].cancelled

\* A finite session watches nothing and cancels nothing; after the loop nobody reads.
OwnerOK ==
    /\ ~watching => events = <<>>
    /\ finite => ~watching /\ \A k \in Keys : ~sources[k].cancelled
    /\ owner # "loop" => over
    /\ owner = "closed" => \A k \in Keys : readers[k] = 0

FollowInv ==
    /\ FollowTypeOK
    /\ StateOK(State, done, over)
    /\ ~over => WantedOK(State, pods)
    /\ UnwantedOK(State, pods)
    /\ OwnerOK

---------------------------------------------------------------------------
(* The operators of reconcile.                                             *)

\* A source that is started.
Started(s) == [s EXCEPT !.known = TRUE, !.running = TRUE, !.left = FALSE, !.cancelled = FALSE]

\* Its fields: the outcome of an earlier worker stays.
LEMMA StartedFields ==
    ASSUME NEW s \in SourceSet
    PROVE  /\ Started(s) \in SourceSet
           /\ Started(s).known /\ Started(s).running /\ ~Started(s).left /\ ~Started(s).cancelled
           /\ Started(s).outcome = s.outcome
  BY Zenon DEF Started, SourceSet

\* The fields of a source that is not known.
LEMMA UnknownFields ==
    /\ Unknown \in SourceSet
    /\ ~Unknown.known /\ ~Unknown.running /\ ~Unknown.left /\ ~Unknown.cancelled
    /\ Unknown.outcome = "canceled"
  BY DEF Unknown, SourceSet, Outcomes

\* The container of a tracked Pod is a source.
LEMMA ViewKeys ==
    ASSUME NEW view \in Views, NEW n \in DOMAIN view
    PROVE  n \in Names /\ <<n, view[n].gen>> \in Keys /\ <<n, view[n].gen>> \in Wanted(view)
  BY DEF Views, PodSet, Keys, Wanted

\* A worker is started for a source, and the viewer told of it.
Begins(st, t, k) ==
    /\ t.capWarned = st.capWarned /\ t.active = st.active + 1
    /\ t.readers = [st.readers EXCEPT ![k] = @ + 1]
    /\ t.joined = [st.joined EXCEPT ![k] = @ + 1]
    /\ t.sources = [st.sources EXCEPT ![k] = Started(@)]

\* A visit leaves the source alone, warns, or starts it.
LEMMA VisitCases ==
    ASSUME NEW st \in StateSet, NEW view \in Views, NEW n \in DOMAIN view,
           NEW k \in Keys, k = <<n, view[n].gen>>, NEW t, t = Visit(st, view, n)
    PROVE  /\ t \in StateSet
           /\ \/ t = st /\ ~MayStart(st.sources[k])
              \/ /\ t.capWarned
                 /\ t.sources = st.sources /\ t.readers = st.readers
                 /\ t.active = st.active /\ t.joined = st.joined
              \/ MayStart(st.sources[k]) /\ st.active < MaxLogSources /\ Begins(st, t, k)
  <1>1. st.active \in Int /\ MaxLogSources \in Nat
    BY FollowAssumption DEF StateSet
  <1>2. CASE ~MayStart(st.sources[k])
    BY <1>2 DEF Visit
  <1>3. CASE /\ MayStart(st.sources[k])
             /\ (st.active >= MaxLogSources \/ (~st.sources[k].known /\ Known(st) >= MaxKnown))
    <2>1. t = [st EXCEPT !.capWarned = TRUE]
      BY <1>3 DEF Visit
    <2> QED BY <2>1 DEF StateSet
  <1>4. CASE /\ MayStart(st.sources[k])
             /\ ~(st.active >= MaxLogSources \/ (~st.sources[k].known /\ Known(st) >= MaxKnown))
    <2>1. t = [st EXCEPT !.active = @ + 1, !.joined[k] = @ + 1, !.readers[k] = @ + 1,
                         !.sources[k] = Started(st.sources[k])]
      BY <1>4 DEF Visit, Started
    <2>2. /\ t.capWarned = st.capWarned /\ t.active = st.active + 1
          /\ t.readers = [st.readers EXCEPT ![k] = @ + 1]
          /\ t.joined = [st.joined EXCEPT ![k] = @ + 1]
          /\ t.sources = [st.sources EXCEPT ![k] = Started(@)]
      BY <2>1 DEF StateSet
    <2>3. t \in StateSet
      <3>1. /\ t = [sources |-> t.sources, readers |-> t.readers, active |-> t.active,
                    capWarned |-> t.capWarned, joined |-> t.joined]
        BY <2>1, Zenon DEF StateSet
      <3>2. /\ t.sources \in [Keys -> SourceSet] /\ t.readers \in [Keys -> Nat]
            /\ t.active \in Int /\ t.capWarned \in BOOLEAN /\ t.joined \in [Keys -> Int]
        BY <2>2, <1>1, StartedFields DEF StateSet
      <3> QED BY <3>1, <3>2 DEF StateSet
    <2> QED BY <1>1, <1>4, <2>2, <2>3 DEF Begins
  <1> QED BY <1>2, <1>3, <1>4

\* A source that is dropped: cancelled while its worker runs, else forgotten.
Dropped(s) == IF s.running THEN [s EXCEPT !.cancelled = TRUE, !.left = TRUE] ELSE Unknown

\* Its fields.
LEMMA DroppedFields ==
    ASSUME NEW s \in SourceSet
    PROVE  /\ Dropped(s) \in SourceSet
           /\ s.running => /\ Dropped(s).known = s.known /\ Dropped(s).running
                           /\ Dropped(s).cancelled /\ Dropped(s).left
           /\ ~s.running => Dropped(s) = Unknown
  <1>1. /\ [s EXCEPT !.cancelled = TRUE, !.left = TRUE] \in SourceSet
        /\ [s EXCEPT !.cancelled = TRUE, !.left = TRUE].known = s.known
        /\ [s EXCEPT !.cancelled = TRUE, !.left = TRUE].running = s.running
        /\ [s EXCEPT !.cancelled = TRUE, !.left = TRUE].cancelled
        /\ [s EXCEPT !.cancelled = TRUE, !.left = TRUE].left
    BY Zenon DEF SourceSet
  <1> QED BY <1>1, UnknownFields DEF Dropped

\* A state with other sources, of which the viewer was told.
With(st, a, b) == [st EXCEPT !.sources = a, !.joined = b]

\* Sources that no tracked Pod has are dropped; the others stay.
LEMMA DropFields ==
    ASSUME NEW st \in StateSet, NEW view, NEW t, t = Drop(st, view)
    PROVE  /\ t \in StateSet
           /\ t.readers = st.readers /\ t.active = st.active /\ t.capWarned = st.capWarned
           /\ \A k \in Keys :
                 IF st.sources[k].known /\ k \notin Wanted(view)
                   THEN /\ t.sources[k] = Dropped(st.sources[k])
                        /\ t.joined[k] = IF st.sources[k].left THEN st.joined[k]
                                                               ELSE st.joined[k] - 1
                   ELSE t.sources[k] = st.sources[k] /\ t.joined[k] = st.joined[k]
  <1> DEFINE gone == {k \in Keys : st.sources[k].known /\ k \notin Wanted(view)}
             src == [k \in Keys |-> IF k \in gone THEN Dropped(st.sources[k]) ELSE st.sources[k]]
             jnd == [k \in Keys |-> IF k \in gone /\ ~st.sources[k].left
                                    THEN st.joined[k] - 1 ELSE st.joined[k]]
  <1>1. t = [st EXCEPT !.sources = src, !.joined = jnd]
    BY DEF Drop, Dropped
  <1>0. t = With(st, src, jnd)
    BY <1>1 DEF With
  <1>2. src \in [Keys -> SourceSet] /\ jnd \in [Keys -> Int]
    BY DroppedFields DEF StateSet
  <1>3. /\ t \in StateSet /\ t.sources = src /\ t.joined = jnd
        /\ t.readers = st.readers /\ t.active = st.active /\ t.capWarned = st.capWarned
    <2>1. ASSUME NEW a \in [Keys -> SourceSet], NEW b \in [Keys -> Int]
          PROVE  /\ With(st, a, b) \in StateSet
                 /\ With(st, a, b).sources = a /\ With(st, a, b).joined = b
                 /\ With(st, a, b).readers = st.readers
                 /\ With(st, a, b).active = st.active
                 /\ With(st, a, b).capWarned = st.capWarned
      BY Zenon DEF StateSet, With
    <2> HIDE DEF src, jnd
    <2> QED BY <1>0, <1>2, <2>1
  <1> HIDE DEF src, jnd
  <1>4. ASSUME NEW k \in Keys
        PROVE  IF st.sources[k].known /\ k \notin Wanted(view)
                 THEN /\ src[k] = Dropped(st.sources[k])
                      /\ jnd[k] = IF st.sources[k].left THEN st.joined[k] ELSE st.joined[k] - 1
                 ELSE src[k] = st.sources[k] /\ jnd[k] = st.joined[k]
    BY DEF src, jnd
  <1> QED BY <1>3, <1>4

---------------------------------------------------------------------------
(* Reconcile keeps the books.                                              *)

\* There are finitely many sources.
LEMMA KeysFinite == IsFiniteSet(Keys)
  <1>1. IsFiniteSet(1..Pods) /\ IsFiniteSet(1..MaxGeneration)
    BY FollowAssumption, FS_Interval
  <1> QED BY <1>1, FS_Product DEF Keys, Names

\* A report is of a source, and says how its worker ended.
LEMMA ReportFields ==
    ASSUME NEW d \in Seq(Reports), NEW i \in DOMAIN d
    PROVE  d[i].key \in Keys /\ d[i].outcome \in Outcomes
  <1>1. d[i] \in Reports
    OBVIOUS
  <1> QED BY <1>1 DEF Reports

\* The books are kept by a visit, after which the source is accounted for.
LEMMA VisitKeeps ==
    ASSUME NEW st, NEW d \in Seq(Reports), NEW o \in BOOLEAN, StateOK(st, d, o),
           NEW view \in Views, NEW n \in DOMAIN view,
           NEW k \in Keys, k = <<n, view[n].gen>>, NEW t, t = Visit(st, view, n)
    PROVE  /\ StateOK(t, d, o)
           /\ Kept(t, k)
           /\ st.capWarned => t.capWarned
           /\ \A j \in Keys \ {k} : t.sources[j] = st.sources[j]
           /\ \A j \in Keys : t.sources[j].cancelled => st.sources[j].cancelled
  <1>1. /\ st \in StateSet /\ \A j \in Keys : SourceOK(st, d, o, j)
        /\ ActiveOK(st) /\ ReportsOK(st, d, o)
    BY DEF StateOK
  <1> DEFINE s == st.sources[k]
  <1>2. s \in SourceSet /\ SourceOK(st, d, o, k)
    BY <1>1 DEF StateSet
  <1>3. CASE t = st /\ ~MayStart(s)
    BY <1>2, <1>3 DEF MayStart, Kept
  <1>4. CASE /\ t \in StateSet /\ t.capWarned
             /\ t.sources = st.sources /\ t.readers = st.readers
             /\ t.active = st.active /\ t.joined = st.joined
    <2>1. \A j \in Keys : SourceOK(t, d, o, j)
      BY <1>1, <1>4 DEF SourceOK
    <2>2. ActiveOK(t) /\ ReportsOK(t, d, o)
      BY <1>1, <1>4 DEF ActiveOK, ReportsOK, Running
    <2> QED BY <1>4, <2>1, <2>2 DEF StateOK, Kept
  <1>5. CASE /\ t \in StateSet
             /\ MayStart(s) /\ st.active < MaxLogSources /\ Begins(st, t, k)
    <2>1. /\ t.sources[k] = Started(s) /\ t.readers[k] = st.readers[k] + 1
          /\ t.joined[k] = st.joined[k] + 1
          /\ \A j \in Keys \ {k} : /\ t.sources[j] = st.sources[j]
                                   /\ t.readers[j] = st.readers[j] /\ t.joined[j] = st.joined[j]
      BY <1>1, <1>5 DEF StateSet, Begins
    <2>2. /\ Started(s).known /\ Started(s).running /\ ~Started(s).left /\ ~Started(s).cancelled
      BY <1>2, StartedFields
    <2>3. /\ ~s.running /\ (s.known => s.outcome = "canceled")
      BY <1>2, <1>5, UnknownFields DEF SourceOK, MayStart
    <2>4. st.readers[k] = 0 /\ ~Reported(d, k)
      BY <1>2, <2>3 DEF SourceOK
    <2>5. ~o => st.joined[k] = 0
      BY <1>2, <2>3 DEF SourceOK
    <2>6. ASSUME NEW j \in Keys PROVE SourceOK(t, d, o, j)
      <3>1. CASE j = k
        BY <2>1, <2>2, <2>4, <2>5, <3>1 DEF SourceOK
      <3>2. CASE j # k
        BY <1>1, <2>1, <3>2 DEF SourceOK
      <3> QED BY <3>1, <3>2
    <2>7. ActiveOK(t)
      <3>1. Running(t) = Running(st) \union {k} /\ k \notin Running(st)
        BY <2>1, <2>2, <2>3 DEF Running
      <3>2. IsFiniteSet(Running(st))
        BY KeysFinite, FS_Subset DEF Running
      <3>3. Cardinality(Running(t)) = Cardinality(Running(st)) + 1
        BY <3>1, <3>2, FS_AddElement
      <3>4. st.active \in Int /\ MaxLogSources \in Nat
        BY <1>1, FollowAssumption DEF StateSet
      <3> QED BY <1>1, <1>5, <3>3, <3>4 DEF ActiveOK, Begins
    <2>8. ReportsOK(t, d, o)
      <3>1. ASSUME NEW i \in DOMAIN d PROVE d[i].key \in Keys \ {k}
        BY <2>4, <3>1, ReportFields DEF Reported
      <3> QED BY <1>1, <2>1, <3>1 DEF ReportsOK
    <2> QED BY <1>5, <2>1, <2>2, <2>6, <2>7, <2>8 DEF StateOK, Kept, Begins
  <1>6. /\ t \in StateSet
        /\ \/ t = st /\ ~MayStart(s)
           \/ /\ t.capWarned
              /\ t.sources = st.sources /\ t.readers = st.readers
              /\ t.active = st.active /\ t.joined = st.joined
           \/ MayStart(s) /\ st.active < MaxLogSources /\ Begins(st, t, k)
    BY <1>1, VisitCases
  <1> HIDE DEF s
  <1> QED BY <1>3, <1>4, <1>5, <1>6

\* The books are kept when sources are dropped.
LEMMA DropKeeps ==
    ASSUME NEW st, NEW d \in Seq(Reports), NEW o \in BOOLEAN, StateOK(st, d, o),
           NEW view, NEW t, t = Drop(st, view)
    PROVE  /\ StateOK(t, d, o)
           /\ UnwantedOK(t, view)
           /\ t.capWarned = st.capWarned
  <1>1. /\ st \in StateSet /\ \A j \in Keys : SourceOK(st, d, o, j)
        /\ ActiveOK(st) /\ ReportsOK(st, d, o)
    BY DEF StateOK
  <1>2. /\ t \in StateSet
        /\ t.readers = st.readers /\ t.active = st.active /\ t.capWarned = st.capWarned
    BY <1>1, DropFields
  <1>3. ASSUME NEW k \in Keys
        PROVE  IF st.sources[k].known /\ k \notin Wanted(view)
                 THEN /\ t.sources[k] = Dropped(st.sources[k])
                      /\ t.joined[k] = IF st.sources[k].left THEN st.joined[k]
                                                             ELSE st.joined[k] - 1
                 ELSE t.sources[k] = st.sources[k] /\ t.joined[k] = st.joined[k]
    BY <1>1, DropFields
  <1>4. ASSUME NEW k \in Keys
        PROVE  /\ SourceOK(t, d, o, k)
               /\ t.sources[k].running <=> st.sources[k].running
               /\ st.sources[k].running /\ st.sources[k].cancelled => t.sources[k].cancelled
               /\ t.sources[k].known /\ k \notin Wanted(view) =>
                     t.sources[k].running /\ t.sources[k].cancelled
    <2> DEFINE s == st.sources[k]
    <2>1. s \in SourceSet /\ SourceOK(st, d, o, k) /\ t.readers[k] = st.readers[k]
      BY <1>1, <1>2 DEF StateSet
    <2>2. CASE ~(s.known /\ k \notin Wanted(view))
      BY <1>3, <2>1, <2>2 DEF SourceOK
    <2>3. CASE s.known /\ k \notin Wanted(view)
      <3>1. /\ t.sources[k] = Dropped(s)
            /\ t.joined[k] = IF s.left THEN st.joined[k] ELSE st.joined[k] - 1
        BY <1>3, <2>3
      <3>2. ~o => t.joined[k] = 0
        BY <2>1, <2>3, <3>1 DEF SourceOK
      <3>3. CASE s.running
        <4>1. Dropped(s).known /\ Dropped(s).running /\ Dropped(s).cancelled /\ Dropped(s).left
          BY <2>1, <2>3, <3>3, DroppedFields
        <4> QED BY <2>1, <3>1, <3>2, <3>3, <4>1 DEF SourceOK
      <3>4. CASE ~s.running
        <4>1. t.sources[k] = Unknown
          BY <2>1, <3>1, <3>4, DroppedFields
        <4> QED BY <2>1, <3>2, <3>4, <4>1, UnknownFields DEF SourceOK
      <3> QED BY <3>3, <3>4
    <2> QED BY <2>2, <2>3
  <1>5. ActiveOK(t)
    <2>1. Running(t) = Running(st)
      BY <1>4 DEF Running
    <2> QED BY <1>1, <1>2, <2>1 DEF ActiveOK
  <1>6. ReportsOK(t, d, o)
    <2>1. ASSUME NEW i \in DOMAIN d
          PROVE  /\ d[i].key \in Keys /\ st.sources[d[i].key].running
      <3>1. d[i].key \in Keys
        BY <2>1, ReportFields
      <3>2. Reported(d, d[i].key)
        BY <2>1 DEF Reported
      <3> QED BY <1>1, <3>1, <3>2 DEF SourceOK
    <2> QED BY <1>1, <1>4, <2>1 DEF ReportsOK
  <1> QED BY <1>2, <1>3, <1>4, <1>5, <1>6 DEF StateOK, UnwantedOK

\* A set with 0, and with the successor of each of its numbers, has all numbers.
LEMMA SetInduction ==
    ASSUME NEW S, 0 \in S, \A n \in Nat : n \in S => n + 1 \in S
    PROVE  Nat \subseteq S
  <1> SUFFICES ASSUME Nat \ S # {} PROVE FALSE
    OBVIOUS
  <1> DEFINE T == Nat \ S
  <1>1. PICK m \in T : \A k \in T : ~ (<<k, m>> \in OpToRel(<, Nat))
    BY NatLessThanWellFounded, WFMin
  <1>2. m \in Nat /\ m \notin S
    OBVIOUS
  <1>3. m # 0 /\ m - 1 \in Nat /\ (m - 1) + 1 = m
    BY <1>2
  <1>4. <<m - 1, m>> \in OpToRel(<, Nat)
    BY <1>3 DEF OpToRel
  <1>5. m - 1 \in S
    BY <1>1, <1>3, <1>4
  <1> QED BY <1>2, <1>3, <1>5

\* The states after the visits of the first N names.
Visits(st, view, N, v) ==
    v = [n \in 0..N |-> IF n = 0 THEN st
                        ELSE IF n \in DOMAIN view THEN Visit(v[n - 1], view, n) ELSE v[n - 1]]

\* There are such states.
LEMMA VisitsExist ==
    ASSUME NEW st, NEW view, NEW N \in Nat
    PROVE  \E v : Visits(st, view, N, v)
  <1> DEFINE S == {m \in Nat : \E v : Visits(st, view, m, v)}
  <1>1. 0 \in S
    <2> DEFINE f == [n \in 0..0 |-> st]
    <2>1. Visits(st, view, 0, f)
      BY DEF Visits
    <2> QED BY <2>1
  <1>2. ASSUME NEW m \in Nat, m \in S PROVE m + 1 \in S
    <2>1. PICK f : Visits(st, view, m, f)
      BY <1>2
    <2> DEFINE last == IF m + 1 \in DOMAIN view THEN Visit(f[m], view, m + 1) ELSE f[m]
               g == [n \in 0..(m + 1) |-> IF n = m + 1 THEN last ELSE f[n]]
    <2>2. ASSUME NEW n \in 0..(m + 1)
          PROVE  g[n] = IF n = 0 THEN st
                        ELSE IF n \in DOMAIN view THEN Visit(g[n - 1], view, n) ELSE g[n - 1]
      <3>1. CASE n = 0
        <4>1. f[0] = st
          BY <2>1 DEF Visits
        <4> QED BY <3>1, <4>1
      <3>2. CASE n # 0 /\ n <= m
        <4>1. f[n] = IF n \in DOMAIN view THEN Visit(f[n - 1], view, n) ELSE f[n - 1]
          BY <2>1, <3>2 DEF Visits
        <4>2. g[n] = f[n] /\ g[n - 1] = f[n - 1]
          BY <3>2
        <4> QED BY <3>2, <4>1, <4>2
      <3>3. CASE n = m + 1
        <4>1. g[n] = last /\ g[n - 1] = f[m]
          BY <3>3
        <4> QED BY <3>3, <4>1
      <3> QED BY <3>1, <3>2, <3>3
    <2>3. Visits(st, view, m + 1, g)
      <3> HIDE DEF last
      <3> QED BY <2>2 DEF Visits
    <2> QED BY <2>3
  <1>3. Nat \subseteq S
    BY <1>1, <1>2, SetInduction
  <1> QED BY <1>3

\* Reconcile drops what is not wanted from the state after the last visit.
LEMMA ReconciledVisits ==
    ASSUME NEW st, NEW view
    PROVE  \E v : Visits(st, view, Pods, v) /\ Reconciled(st, view) = Drop(v[Pods], view)
  <1> DEFINE v == CHOOSE v : Visits(st, view, Pods, v)
  <1>1. Visits(st, view, Pods, v)
    BY FollowAssumption, VisitsExist
  <1>2. Reconciled(st, view) = Drop(v[Pods], view)
    BY DEF Reconciled, Visits
  <1> QED BY <1>1, <1>2

\* Reconcile keeps the books; no wanted container is forgotten, and each source that is
\* not wanted is on its way out.
LEMMA ReconciledKeeps ==
    ASSUME NEW st, NEW d \in Seq(Reports), NEW o \in BOOLEAN, StateOK(st, d, o),
           NEW view \in Views, NEW t, t = Reconciled(st, view)
    PROVE  /\ StateOK(t, d, o)
           /\ WantedOK(t, view) /\ UnwantedOK(t, view)
           /\ \A k \in Keys : t.sources[k].cancelled =>
                 st.sources[k].cancelled \/ st.sources[k].known
  <1>1. PICK v : Visits(st, view, Pods, v) /\ t = Drop(v[Pods], view)
    BY ReconciledVisits
  <1>2. Pods \in Nat /\ Pods # 0
    BY FollowAssumption
  <1>3. /\ v[0] = st
        /\ \A n \in 1..Pods :
              v[n] = IF n \in DOMAIN view THEN Visit(v[n - 1], view, n) ELSE v[n - 1]
    BY <1>1, <1>2 DEF Visits
  <1> DEFINE P(n) ==
          /\ StateOK(v[n], d, o)
          /\ \A m \in 1..n : m \in DOMAIN view => Kept(v[n], <<m, view[m].gen>>)
          /\ \A k \in Keys : k \notin Wanted(view) => v[n].sources[k] = st.sources[k]
          /\ \A k \in Keys : v[n].sources[k].cancelled => st.sources[k].cancelled
             S == {n \in Nat : n <= Pods => P(n)}
  <1>4. 0 \in S
    BY <1>3
  <1>5. ASSUME NEW n \in Nat, n \in S PROVE n + 1 \in S
    <2> SUFFICES ASSUME n + 1 <= Pods PROVE P(n + 1)
      OBVIOUS
    <2>1. P(n) /\ n + 1 \in 1..Pods /\ (n + 1) - 1 = n
      BY <1>2, <1>5
    <2>2. CASE n + 1 \notin DOMAIN view
      <3>1. v[n + 1] = v[n]
        BY <1>3, <2>1, <2>2
      <3>2. ASSUME NEW m \in 1..(n + 1), m \in DOMAIN view PROVE m \in 1..n
        BY <2>2, <3>2
      <3> QED BY <2>1, <3>1, <3>2
    <2>3. CASE n + 1 \in DOMAIN view
      <3> DEFINE k == <<n + 1, view[n + 1].gen>>
      <3>1. v[n + 1] = Visit(v[n], view, n + 1)
        BY <1>3, <2>1, <2>3
      <3>2. k \in Keys /\ k \in Wanted(view)
        BY <2>3, ViewKeys
      <3>3. /\ StateOK(v[n + 1], d, o)
            /\ Kept(v[n + 1], k)
            /\ v[n].capWarned => v[n + 1].capWarned
            /\ \A j \in Keys \ {k} : v[n + 1].sources[j] = v[n].sources[j]
            /\ \A j \in Keys : v[n + 1].sources[j].cancelled => v[n].sources[j].cancelled
        <4>1. StateOK(v[n], d, o)
          BY <2>1
        <4>2. k = <<n + 1, view[n + 1].gen>>
          OBVIOUS
        <4> DEFINE m == n + 1
                   u == v[n]
                   w == v[m]
        <4>3. /\ StateOK(u, d, o) /\ w = Visit(u, view, m)
              /\ m \in DOMAIN view /\ k \in Keys /\ k = <<m, view[m].gen>>
          BY <2>3, <3>1, <3>2, <4>1, <4>2
        <4> HIDE DEF S, P, k, m, u, w
        <4>4. /\ StateOK(w, d, o)
              /\ Kept(w, k)
              /\ u.capWarned => w.capWarned
              /\ \A j \in Keys \ {k} : w.sources[j] = u.sources[j]
              /\ \A j \in Keys : w.sources[j].cancelled => u.sources[j].cancelled
          BY <4>3, VisitKeeps
        <4> QED BY <4>4 DEF m, u, w
      <3>4. ASSUME NEW m \in 1..(n + 1), m \in DOMAIN view
            PROVE  Kept(v[n + 1], <<m, view[m].gen>>)
        <4>1. CASE m = n + 1
          BY <3>3, <4>1
        <4>2. CASE m # n + 1
          <5>1. m \in 1..n /\ <<m, view[m].gen>> \in Keys \ {k}
            BY <3>4, <4>2, ViewKeys
          <5> QED BY <2>1, <3>3, <3>4, <5>1 DEF Kept
        <4> QED BY <4>1, <4>2
      <3> QED BY <2>1, <3>2, <3>3, <3>4
    <2> QED BY <2>2, <2>3
  <1>6. Nat \subseteq S
    BY <1>4, <1>5, SetInduction
  <1>7. P(Pods)
    BY <1>2, <1>6
  <1> DEFINE u == v[Pods]
  <1>8. /\ StateOK(t, d, o)
        /\ UnwantedOK(t, view)
        /\ t.capWarned = u.capWarned
        /\ \A k \in Keys : k \in Wanted(view) => t.sources[k] = u.sources[k]
        /\ \A k \in Keys : ~u.sources[k].known => t.sources[k] = u.sources[k]
    <2>1. StateOK(u, d, o) /\ t = Drop(u, view)
      BY <1>1, <1>7
    <2> HIDE DEF P, S, u
    <2>2. StateOK(t, d, o) /\ UnwantedOK(t, view)
      BY <2>1, DropKeeps
    <2>3. t.capWarned = u.capWarned
      BY <2>1, DropKeeps
    <2>4. ASSUME NEW k \in Keys
          PROVE  /\ k \in Wanted(view) => t.sources[k] = u.sources[k]
                 /\ ~u.sources[k].known => t.sources[k] = u.sources[k]
      <3>1. u \in StateSet
        BY <2>1 DEF StateOK
      <3>2. IF u.sources[k].known /\ k \notin Wanted(view)
              THEN t.sources[k] = Dropped(u.sources[k])
              ELSE t.sources[k] = u.sources[k]
        BY <2>1, <3>1, DropFields
      <3> QED BY <3>2
    <2> QED BY <2>2, <2>3, <2>4
  <1>9. WantedOK(t, view)
    <2> SUFFICES ASSUME NEW k \in Wanted(view) PROVE Kept(t, k)
      BY DEF WantedOK
    <2>1. PICK n \in DOMAIN view : k = <<n, view[n].gen>>
      BY DEF Wanted
    <2>2. n \in 1..Pods /\ k \in Keys
      BY <2>1, ViewKeys DEF Names
    <2>3. Kept(u, k)
      BY <1>7, <2>1, <2>2
    <2> QED BY <1>8, <2>2, <2>3 DEF Kept
  <1>10. ASSUME NEW k \in Keys, t.sources[k].cancelled
         PROVE  st.sources[k].cancelled \/ st.sources[k].known
    <2>1. CASE k \in Wanted(view)
      BY <1>7, <1>8, <1>10, <2>1
    <2>2. CASE k \notin Wanted(view)
      BY <1>7, <1>8, <1>10, <2>2
    <2> QED BY <2>1, <2>2
  <1> QED BY <1>8, <1>9, <1>10

---------------------------------------------------------------------------
(* The steps that reconcile.                                               *)

\* The fields of the loop's state.
LEMMA StateFields ==
    /\ State.sources = sources /\ State.readers = readers /\ State.active = active
    /\ State.capWarned = capWarned /\ State.joined = joined
    /\ State'.sources = sources' /\ State'.readers = readers' /\ State'.active = active'
    /\ State'.capWarned = capWarned' /\ State'.joined = joined'
  BY DEF State

\* The loop takes over a state whose books are kept.
LEMMA BecomesKeeps ==
    ASSUME NEW st, NEW d \in Seq(Reports), FollowTypeOK, StateOK(st, d, over), Becomes(st)
    PROVE  /\ State' \in StateSet /\ StateOK(State', d, over)
           /\ sources' = st.sources /\ capWarned' = st.capWarned /\ readers' = st.readers
  <1>1. /\ sources' = st.sources /\ readers' = st.readers /\ active' = st.active
        /\ capWarned' = st.capWarned
        /\ joined' = IF over THEN joined ELSE st.joined
    BY DEF Becomes
  <1>2. st \in StateSet /\ joined \in [Keys -> Int]
    BY StateFields DEF StateOK, FollowTypeOK, StateSet
  <1>3. State' \in StateSet
    BY <1>1, <1>2 DEF StateSet, State
  <1>4. ASSUME NEW k \in Keys PROVE SourceOK(State', d, over, k)
    <2>1. SourceOK(st, d, over, k)
      BY DEF StateOK
    <2> QED BY <1>1, <2>1, StateFields DEF SourceOK
  <1>5. ActiveOK(State') /\ ReportsOK(State', d, over)
    BY <1>1, StateFields DEF StateOK, ActiveOK, ReportsOK, Running
  <1> QED BY <1>1, <1>3, <1>4, <1>5 DEF StateOK

\* Reconciling from a state whose books are kept.
LEMMA ReconcileStep ==
    ASSUME NEW st, NEW d \in Seq(Reports), NEW view \in Views,
           FollowTypeOK, StateOK(st, d, over), Reconcile(st, view), over' = over
    PROVE  /\ State' \in StateSet /\ StateOK(State', d, over)
           /\ pods' = view
           /\ WantedOK(State', pods') /\ UnwantedOK(State', pods')
  <1> DEFINE t == Reconciled(st, view)
  <1>1. over \in BOOLEAN
    BY DEF FollowTypeOK
  <1>2. StateOK(t, d, over) /\ WantedOK(t, view) /\ UnwantedOK(t, view)
    BY <1>1, ReconciledKeeps
  <1>3. pods' = view /\ Becomes(t)
    BY DEF Reconcile
  <1> HIDE DEF t
  <1>4. /\ State' \in StateSet /\ StateOK(State', d, over)
        /\ sources' = t.sources /\ capWarned' = t.capWarned
    BY <1>2, <1>3, BecomesKeeps
  <1>5. WantedOK(State', view) /\ UnwantedOK(State', view)
    BY <1>2, <1>4, StateFields DEF WantedOK, UnwantedOK, Kept
  <1> QED BY <1>3, <1>4, <1>5

\* A warning that sources are omitted changes no book.
LEMMA WarnedKeeps ==
    ASSUME NEW b \in BOOLEAN, NEW d \in Seq(Reports), StateOK(State, d, over)
    PROVE  StateOK([State EXCEPT !.capWarned = b], d, over)
  <1> DEFINE t == [State EXCEPT !.capWarned = b]
  <1>1. State \in StateSet
    BY DEF StateOK
  <1>2. /\ t \in StateSet /\ t.sources = State.sources /\ t.readers = State.readers
        /\ t.active = State.active /\ t.joined = State.joined
    BY <1>1, Zenon DEF StateSet
  <1> HIDE DEF t
  <1>3. ASSUME NEW k \in Keys PROVE SourceOK(t, d, over, k)
    <2>1. SourceOK(State, d, over, k)
      BY DEF StateOK
    <2> QED BY <1>2, <2>1 DEF SourceOK
  <1>4. ActiveOK(t) /\ ReportsOK(t, d, over)
    BY <1>2 DEF StateOK, ActiveOK, ReportsOK, Running
  <1>5. StateOK(t, d, over)
    BY <1>2, <1>3, <1>4 DEF StateOK
  <1> QED BY <1>5 DEF t

\* The session reconciled: what the rest of a step has to keep.
LEMMA Reconciling ==
    ASSUME FollowInv, NEW st, NEW view \in Views, StateOK(st, done', over),
           done' \in Seq(Reports), Reconcile(st, view),
           UNCHANGED <<cluster, changes, finite, owner, over>>,
           watching' \in BOOLEAN, events' \in Seq(Events), ~watching' => events' = <<>>,
           ~finite, owner = "loop"
    PROVE  FollowInv'
  <1>1. FollowTypeOK /\ OwnerOK
    BY DEF FollowInv
  <1>2. /\ State' \in StateSet /\ StateOK(State', done', over)
        /\ pods' = view
        /\ WantedOK(State', pods') /\ UnwantedOK(State', pods')
    BY <1>1, ReconcileStep
  <1>3. FollowTypeOK'
    BY <1>1, <1>2 DEF FollowTypeOK
  <1>4. OwnerOK'
    BY <1>1 DEF OwnerOK
  <1> QED BY <1>2, <1>3, <1>4 DEF FollowInv

\* An event of the watch: a Pod leaves the selection, is new or changed, or is too many.
LEMMA WatchEventStep ==
    ASSUME FollowInv, WatchEvent
    PROVE  FollowInv'
  <1> USE DEF clusterVars
  <1>1. /\ owner = "loop" /\ events # <<>> /\ events' = Tail(events)
        /\ UNCHANGED <<cluster, changes, finite, watching, done, owner, over>>
    BY DEF WatchEvent
  <1>2. /\ FollowTypeOK /\ StateOK(State, done, over) /\ OwnerOK
        /\ events \in Seq(Events) /\ pods \in Views /\ done \in Seq(Reports)
        /\ watching \in BOOLEAN
    BY DEF FollowInv, FollowTypeOK
  <1>3. watching /\ ~finite
    BY <1>1, <1>2 DEF OwnerOK
  <1> DEFINE e == Head(events)
             others == [n \in DOMAIN pods \ {e.name} |-> pods[n]]
             more == [n \in DOMAIN pods \union {e.name} |->
                         IF n = e.name THEN e.pod ELSE pods[n]]
  <1>4. e \in Events /\ events' \in Seq(Events)
    BY <1>1, <1>2
  <1>5. e.name \in Names /\ e.pod \in PodSet
    BY <1>4 DEF Events
  <1>6. PICK D \in SUBSET Names : pods \in [D -> PodSet]
    BY <1>2 DEF Views
  <1>7. others \in Views
    <2>1. others \in [D \ {e.name} -> PodSet] /\ D \ {e.name} \in SUBSET Names
      BY <1>6
    <2> QED BY <2>1 DEF Views
  <1>8. more \in Views
    <2>1. more \in [D \union {e.name} -> PodSet] /\ D \union {e.name} \in SUBSET Names
      BY <1>5, <1>6
    <2> QED BY <2>1 DEF Views
  <1> HIDE DEF others, more
  <1>9. StateOK([State EXCEPT !.capWarned = TRUE], done, over)
    BY <1>2, WarnedKeeps
  <1>10. \/ Reconcile(State, others)
         \/ Reconcile([State EXCEPT !.capWarned = TRUE], pods)
         \/ Reconcile(State, more)
    BY DEF WatchEvent, others, more
  <1> HIDE DEF e
  <1>11. CASE Reconcile(State, others)
    BY <1>1, <1>2, <1>3, <1>4, <1>7, <1>11, Reconciling
  <1>12. CASE Reconcile([State EXCEPT !.capWarned = TRUE], pods)
    <2> DEFINE st == [State EXCEPT !.capWarned = TRUE]
    <2>1. StateOK(st, done', over) /\ Reconcile(st, pods)
      BY <1>1, <1>9, <1>12
    <2> HIDE DEF st
    <2> QED BY <1>1, <1>2, <1>3, <1>4, <2>1, Reconciling
  <1>13. CASE Reconcile(State, more)
    BY <1>1, <1>2, <1>3, <1>4, <1>8, <1>13, Reconciling
  <1> QED BY <1>10, <1>11, <1>12, <1>13

\* A list is a view of the cluster.
LEMMA ListIsView ==
    ASSUME cluster \in [Names -> PodSet]
    PROVE  [n \in FirstPods |-> cluster[n]] \in Views
  <1>1. FirstPods \in SUBSET Names
    BY DEF FirstPods, Matching
  <1>2. [n \in FirstPods |-> cluster[n]] \in [FirstPods -> PodSet]
    BY <1>1
  <1> QED BY <1>1, <1>2 DEF Views

\* The Pods are listed again.
LEMMA RefreshStep ==
    ASSUME FollowInv, NEW opened \in BOOLEAN, Refresh(opened)
    PROVE  FollowInv'
  <1> USE DEF clusterVars
  <1> DEFINE view == [n \in FirstPods |-> cluster[n]]
             b == State.capWarned \/ FirstPods # Matching
             st == [State EXCEPT !.capWarned = b]
  <1>1. /\ owner = "loop" /\ ~finite /\ watching' = opened /\ events' = <<>>
        /\ Reconcile(st, view)
        /\ UNCHANGED <<cluster, changes, finite, done, owner, over>>
    BY DEF Refresh
  <1>2. /\ StateOK(State, done, over) /\ done \in Seq(Reports)
        /\ cluster \in [Names -> PodSet]
    BY DEF FollowInv, FollowTypeOK
  <1>3. view \in Views
    BY <1>2, ListIsView
  <1>4. b \in BOOLEAN
    OBVIOUS
  <1> HIDE DEF b
  <1>5. StateOK(st, done, over)
    BY <1>2, <1>4, WarnedKeeps
  <1> HIDE DEF view, st
  <1>6. events' \in Seq(Events)
    BY <1>1
  <1> QED BY <1>1, <1>2, <1>3, <1>5, <1>6, Reconciling

---------------------------------------------------------------------------
(* The steps of workers.                                                   *)

\* What the invariant says of its conjuncts, for the steps that keep most of them.
LEMMA FollowParts ==
    ASSUME FollowInv
    PROVE  /\ FollowTypeOK /\ OwnerOK /\ UnwantedOK(State, pods)
           /\ ~over => WantedOK(State, pods)
           /\ StateOK(State, done, over) /\ State \in StateSet /\ ActiveOK(State)
           /\ ReportsOK(State, done, over)
           /\ \A k \in Keys : SourceOK(State, done, over, k) /\ sources[k] \in SourceSet
           /\ sources \in [Keys -> SourceSet] /\ readers \in [Keys -> Nat]
           /\ done \in Seq(Reports) /\ over \in BOOLEAN
  BY StateFields DEF FollowInv, FollowTypeOK, StateOK, StateSet

\* A worker returns, and reports unless the session is over and nobody listens.
LEMMA WorkerReturnsStep ==
    ASSUME FollowInv, NEW k \in Keys, NEW outcome \in Outcomes, WorkerReturns(k, outcome)
    PROVE  FollowInv'
  <1> USE DEF clusterVars, watchVars
  <1> DEFINE r == [key |-> k, outcome |-> outcome]
  <1>1. /\ readers[k] > 0
        /\ outcome = "canceled" => sources[k].cancelled \/ over
        /\ readers' = [readers EXCEPT ![k] = @ - 1]
        /\ done' = Append(done, r) \/ (over /\ done' = done)
        /\ UNCHANGED <<cluster, changes, finite, watching, events, pods, sources, active,
                       capWarned, joined, owner, over>>
    BY DEF WorkerReturns
  <1>2. /\ FollowTypeOK /\ OwnerOK /\ UnwantedOK(State, pods)
        /\ ~over => WantedOK(State, pods)
        /\ StateOK(State, done, over) /\ State \in StateSet
        /\ readers \in [Keys -> Nat] /\ done \in Seq(Reports)
    BY FollowParts
  <1>3. readers[k] = 1 /\ sources[k].running /\ ~Reported(done, k)
    BY <1>1, StateFields, FollowParts DEF SourceOK
  <1>4. readers'[k] = 0 /\ readers' \in [Keys -> Nat]
        /\ \A j \in Keys \ {k} : readers'[j] = readers[j]
    BY <1>1, <1>2, <1>3
  <1>5. r \in Reports /\ done' \in Seq(Reports)
    <2>1. r \in Reports
      BY DEF Reports
    <2> HIDE DEF r
    <2> QED BY <1>1, <1>2, <2>1
  <1>6. /\ \A j \in Keys \ {k} : Reported(done', j) <=> Reported(done, j)
        /\ ~over => Reported(done', k)
    <2>1. CASE done' = done /\ over
      BY <2>1
    <2>2. CASE done' = Append(done, r)
      <3>1. /\ Len(done') = Len(done) + 1 /\ Len(done) \in Nat
            /\ DOMAIN done' = 1..Len(done') /\ DOMAIN done = 1..Len(done)
            /\ \A i \in DOMAIN done : done'[i] = done[i]
            /\ done'[Len(done) + 1] = r
        BY <1>2, <1>5, <2>2
      <3>2. ASSUME NEW j \in Keys \ {k} PROVE Reported(done', j) <=> Reported(done, j)
        <4>1. r.key # j
          OBVIOUS
        <4>2. Reported(done, j) => Reported(done', j)
          BY <3>1 DEF Reported
        <4>3. ASSUME NEW i \in DOMAIN done', done'[i].key = j PROVE Reported(done, j)
          <5>1. i # Len(done) + 1
            BY <3>1, <4>1, <4>3
          <5>2. i \in DOMAIN done
            BY <3>1, <5>1
          <5> QED BY <3>1, <4>3, <5>2 DEF Reported
        <4> QED BY <4>2, <4>3 DEF Reported
      <3>3. Reported(done', k)
        <4>1. Len(done) + 1 \in DOMAIN done' /\ r.key = k
          BY <3>1
        <4> QED BY <3>1, <4>1 DEF Reported
      <3> QED BY <3>2, <3>3
    <2> QED BY <1>1, <2>1, <2>2
  <1>7. State' \in StateSet
    BY <1>1, <1>2, <1>4 DEF State, StateSet
  <1>8. ASSUME NEW j \in Keys PROVE SourceOK(State', done', over', j)
    <2>1. SourceOK(State, done, over, j)
      BY FollowParts
    <2>2. CASE j = k
      BY <1>1, <1>3, <1>4, <1>6, <2>1, <2>2, StateFields DEF SourceOK
    <2>3. CASE j # k
      BY <1>1, <1>4, <1>6, <2>1, <2>3, StateFields DEF SourceOK
    <2> QED BY <2>2, <2>3
  <1>9. ActiveOK(State')
    BY <1>1, StateFields, FollowParts DEF ActiveOK, Running
  <1>10. ReportsOK(State', done', over')
    <2>1. ReportsOK(State, done, over)
      BY FollowParts
    <2>2. CASE done' = done
      BY <1>1, <2>1, <2>2, StateFields DEF ReportsOK
    <2>3. CASE done' = Append(done, r)
      <3>1. /\ Len(done) \in Nat
            /\ DOMAIN done' = 1..(Len(done) + 1) /\ DOMAIN done = 1..Len(done)
            /\ \A i \in DOMAIN done : done'[i] = done[i]
            /\ done'[Len(done) + 1] = r
        BY <1>2, <1>5, <2>3
      <3>2. \A i \in DOMAIN done' : i \in DOMAIN done \/ i = Len(done) + 1
        BY <3>1
      <3>3. \A i \in DOMAIN done : done[i].key # k
        BY <1>3 DEF Reported
      <3>4. r.key = k /\ r.outcome = outcome
        OBVIOUS
      <3>5. \A i, j \in DOMAIN done' : done'[i].key = done'[j].key => i = j
        BY <2>1, <3>1, <3>2, <3>3, <3>4 DEF ReportsOK
      <3>6. ASSUME ~over', NEW i \in DOMAIN done', done'[i].outcome = "canceled"
            PROVE  sources'[done'[i].key].cancelled
        <4>1. CASE i \in DOMAIN done
          BY <1>1, <2>1, <3>1, <3>6, <4>1, StateFields DEF ReportsOK
        <4>2. CASE i = Len(done) + 1
          BY <1>1, <3>1, <3>4, <3>6, <4>2
        <4> QED BY <3>2, <4>1, <4>2
      <3> QED BY <3>5, <3>6, StateFields DEF ReportsOK
    <2> QED BY <1>1, <2>2, <2>3
  <1>11. UnwantedOK(State', pods') /\ (~over' => WantedOK(State', pods'))
    BY <1>1, <1>2, StateFields DEF UnwantedOK, WantedOK, Kept
  <1>12. FollowTypeOK'
    BY <1>1, <1>2, <1>5, <1>7 DEF FollowTypeOK
  <1>13. OwnerOK'
    <2>1. \A j \in Keys : readers[j] = 0 => readers'[j] = 0
      BY <1>3, <1>4
    <2> QED BY <1>1, <1>2, <2>1 DEF OwnerOK
  <1> QED BY <1>7, <1>8, <1>9, <1>10, <1>11, <1>12, <1>13 DEF FollowInv, StateOK

\* A source whose worker has reported: remembered while a tracked Pod has it.
Returned(s, r) ==
    IF r.key \in Wanted(pods) THEN [s EXCEPT !.running = FALSE, !.outcome = r.outcome]
                              ELSE Unknown

\* Its fields.
LEMMA ReturnedFields ==
    ASSUME NEW s \in SourceSet, NEW r \in Reports
    PROVE  /\ Returned(s, r) \in SourceSet /\ ~Returned(s, r).running
           /\ r.key \in Wanted(pods) =>
                 /\ Returned(s, r).known = s.known /\ Returned(s, r).left = s.left
                 /\ Returned(s, r).cancelled = s.cancelled
                 /\ Returned(s, r).outcome = r.outcome
           /\ r.key \notin Wanted(pods) => Returned(s, r) = Unknown
  <1>1. r.outcome \in Outcomes
    BY DEF Reports
  <1>2. ASSUME NEW x \in Outcomes
        PROVE  /\ [s EXCEPT !.running = FALSE, !.outcome = x] \in SourceSet
               /\ ~[s EXCEPT !.running = FALSE, !.outcome = x].running
               /\ [s EXCEPT !.running = FALSE, !.outcome = x].known = s.known
               /\ [s EXCEPT !.running = FALSE, !.outcome = x].left = s.left
               /\ [s EXCEPT !.running = FALSE, !.outcome = x].cancelled = s.cancelled
               /\ [s EXCEPT !.running = FALSE, !.outcome = x].outcome = x
    BY Zenon DEF SourceSet
  <1> QED BY <1>1, <1>2, UnknownFields DEF Returned

\* The loop's record of the report.
LEMMA RecordedFields ==
    ASSUME State \in StateSet, NEW r \in Reports, NEW t, t = Recorded(r)
    PROVE  /\ t \in StateSet
           /\ t.active = active - 1 /\ t.readers = readers
           /\ t.capWarned = capWarned /\ t.joined = joined
           /\ t.sources = [sources EXCEPT ![r.key] = Returned(@, r)]
  <1>1. r.key \in Keys
    BY DEF Reports
  <1>2. t = [State EXCEPT !.active = @ - 1, !.sources[r.key] = Returned(@, r)]
    BY DEF Recorded, Returned
  <1>3. /\ t.capWarned = capWarned /\ t.active = active - 1
        /\ t.readers = readers /\ t.joined = joined
        /\ t.sources = [sources EXCEPT ![r.key] = Returned(@, r)]
    BY <1>2, StateFields DEF StateSet
  <1>4. t = [sources |-> t.sources, readers |-> t.readers, active |-> t.active,
             capWarned |-> t.capWarned, joined |-> t.joined]
    BY <1>2, Zenon DEF StateSet
  <1>5. /\ sources \in [Keys -> SourceSet] /\ readers \in [Keys -> Nat] /\ active \in Int
        /\ capWarned \in BOOLEAN /\ joined \in [Keys -> Int]
    BY StateFields DEF StateSet
  <1>6. t.sources \in [Keys -> SourceSet]
    BY <1>1, <1>3, <1>5, ReturnedFields
  <1>7. t.active \in Int
    BY <1>3, <1>5
  <1> QED BY <1>3, <1>4, <1>5, <1>6, <1>7 DEF StateSet
\* The books after a report was received, before the loop reconciles.
LEMMA RecordedKeeps ==
    ASSUME FollowInv, done # <<>>, NEW r, r = Head(done), NEW t, t = Recorded(r)
    PROVE  /\ r \in Reports /\ Tail(done) \in Seq(Reports)
           /\ sources[r.key].known /\ sources[r.key].running
           /\ StateOK(t, Tail(done), over)
  <1> DEFINE d == Tail(done)
             k == r.key
             s == sources[k]
  <1>1. /\ UnwantedOK(State, pods)
        /\ State \in StateSet /\ ActiveOK(State) /\ ReportsOK(State, done, over)
        /\ \A j \in Keys : SourceOK(State, done, over, j) /\ sources[j] \in SourceSet
        /\ sources \in [Keys -> SourceSet] /\ readers \in [Keys -> Nat]
        /\ done \in Seq(Reports)
    BY FollowParts
  <1>2. /\ r \in Reports /\ d \in Seq(Reports)
        /\ Len(done) \in Nat /\ Len(done) # 0 /\ 1 \in DOMAIN done /\ r = done[1]
        /\ DOMAIN done = 1..Len(done) /\ DOMAIN d = 1..(Len(done) - 1)
        /\ \A i \in DOMAIN d : d[i] = done[i + 1] /\ i + 1 \in DOMAIN done /\ i \in Nat
    BY <1>1
  <1>3. k \in Keys /\ r.outcome \in Outcomes
    BY <1>2 DEF Reports
  <1>4. Reported(done, k) /\ s \in SourceSet /\ SourceOK(State, done, over, k)
    BY <1>1, <1>2, <1>3 DEF Reported
  <1>5. s.running /\ s.known /\ readers[k] = 0
    BY <1>4, UnknownFields, StateFields DEF SourceOK
  <1>6. ~Reported(d, k)
    <2>1. ASSUME NEW i \in DOMAIN d, d[i].key = k PROVE FALSE
      <3>1. i + 1 = 1
        BY <1>1, <1>2, <2>1 DEF ReportsOK
      <3> QED BY <1>2, <3>1
    <2> QED BY <2>1 DEF Reported
  <1>7. \A j \in Keys \ {k} : Reported(d, j) <=> Reported(done, j)
    <2> SUFFICES ASSUME NEW j \in Keys \ {k} PROVE Reported(d, j) <=> Reported(done, j)
      OBVIOUS
    <2>1. Reported(d, j) => Reported(done, j)
      BY <1>2 DEF Reported
    <2>2. ASSUME NEW i \in DOMAIN done, done[i].key = j PROVE Reported(d, j)
      <3>1. i # 1
        BY <1>2, <2>2
      <3>2. i - 1 \in DOMAIN d /\ (i - 1) + 1 = i
        BY <1>2, <3>1
      <3>3. d[i - 1] = done[i]
        BY <1>2, <3>2
      <3> QED BY <2>2, <3>2, <3>3 DEF Reported
    <2> QED BY <2>1, <2>2 DEF Reported
  <1>8. /\ t \in StateSet
        /\ t.active = active - 1 /\ t.readers = readers
        /\ t.capWarned = capWarned /\ t.joined = joined
        /\ t.sources = [sources EXCEPT ![k] = Returned(@, r)]
    BY <1>1, <1>2, RecordedFields
  <1>9. t.sources[k] = Returned(s, r) /\ \A j \in Keys \ {k} : t.sources[j] = sources[j]
    BY <1>1, <1>3, <1>8
  <1>10. /\ ~Returned(s, r).running
         /\ k \in Wanted(pods) =>
                 /\ Returned(s, r).known = s.known /\ Returned(s, r).left = s.left
                 /\ Returned(s, r).cancelled = s.cancelled
                 /\ Returned(s, r).outcome = r.outcome
         /\ k \notin Wanted(pods) => Returned(s, r) = Unknown
    BY <1>2, <1>4, ReturnedFields
  <1>11. ~over /\ r.outcome = "canceled" => s.cancelled
    BY <1>1, <1>2, StateFields DEF ReportsOK
  <1>12. ASSUME NEW j \in Keys PROVE SourceOK(t, d, over, j)
    <2>1. CASE j # k
      BY <1>1, <1>7, <1>8, <1>9, <2>1, StateFields DEF SourceOK
    <2>2. CASE j = k /\ k \in Wanted(pods)
      <3>1. /\ s.cancelled => s.left
            /\ ~over => joined[k] = IF s.known /\ ~s.left THEN 1 ELSE 0
        BY <1>4, StateFields DEF SourceOK
      <3>2. /\ t.sources[k].known /\ ~t.sources[k].running
            /\ t.sources[k].left = s.left /\ t.sources[k].cancelled = s.cancelled
            /\ t.sources[k].outcome = r.outcome
            /\ t.readers[k] = 0 /\ t.joined[k] = joined[k]
        BY <1>5, <1>8, <1>9, <1>10, <2>2
      <3> HIDE DEF s, k, d
      <3> QED BY <1>5, <1>6, <1>11, <2>2, <3>1, <3>2 DEF SourceOK
    <2>3. CASE j = k /\ k \notin Wanted(pods)
      <3>1. s.cancelled /\ s.left
        BY <1>1, <1>3, <1>4, <1>5, <2>3, StateFields DEF UnwantedOK, SourceOK
      <3> QED BY <1>4, <1>5, <1>6, <1>8, <1>9, <1>10, <2>3, <3>1, StateFields, UnknownFields
              DEF SourceOK
    <2> QED BY <2>1, <2>2, <2>3
  <1>13. ActiveOK(t)
    <2>1. Running(t) = Running(State) \ {k} /\ k \in Running(State)
      BY <1>3, <1>5, <1>9, <1>10, StateFields DEF Running
    <2>2. IsFiniteSet(Running(State))
      BY KeysFinite, FS_Subset DEF Running
    <2>3. Cardinality(Running(t)) = Cardinality(Running(State)) - 1
      BY <2>1, <2>2, FS_RemoveElement
    <2>4. active \in Int /\ MaxLogSources \in Nat
      BY <1>1, StateFields, FollowAssumption DEF StateSet
    <2> QED BY <1>1, <1>8, <2>3, <2>4, StateFields DEF ActiveOK
  <1>14. ReportsOK(t, d, over)
    <2>1. \A i, j \in DOMAIN d : d[i].key = d[j].key => i = j
      <3>1. ASSUME NEW i \in DOMAIN d, NEW j \in DOMAIN d, d[i].key = d[j].key PROVE i = j
        <4>1. done[i + 1].key = done[j + 1].key /\ i \in Nat /\ j \in Nat
          BY <1>2, <3>1
        <4>2. i + 1 = j + 1
          BY <1>1, <1>2, <4>1 DEF ReportsOK
        <4> QED BY <4>1, <4>2
      <3> QED BY <3>1
    <2>2. ASSUME ~over, NEW i \in DOMAIN d, d[i].outcome = "canceled"
          PROVE  t.sources[d[i].key].cancelled
      <3>1. d[i].key \in Keys \ {k}
        <4>1. d[i].key # k
          BY <1>6, <2>2 DEF Reported
        <4> QED BY <1>2, <2>2, <4>1, ReportFields
      <3>2. sources[d[i].key].cancelled
        BY <1>1, <1>2, <2>2, StateFields DEF ReportsOK
      <3> QED BY <1>9, <3>1, <3>2
    <2> QED BY <2>1, <2>2 DEF ReportsOK
  <1>15. StateOK(t, d, over)
    <2> HIDE DEF d
    <2> QED BY <1>8, <1>12, <1>13, <1>14 DEF StateOK
  <1> QED BY <1>2, <1>5, <1>15

\* What is kept and what is on its way out is read off the sources and the warning.
LEMMA SameKept ==
    ASSUME NEW st, NEW t, NEW view, t.sources = st.sources, t.capWarned = st.capWarned
    PROVE  /\ UnwantedOK(st, view) => UnwantedOK(t, view)
           /\ WantedOK(st, view) => WantedOK(t, view)
  BY DEF UnwantedOK, WantedOK, Kept

\* In a finite session a source whose worker has returned is remembered.
LEMMA FiniteKeeps ==
    ASSUME FollowInv, finite, done # <<>>, NEW r, r = Head(done), NEW t, t = Recorded(r)
    PROVE  /\ UnwantedOK(t, pods)
           /\ ~over => WantedOK(t, pods)
           /\ \A j \in Keys : ~t.sources[j].cancelled
  <1>1. /\ r \in Reports /\ sources[r.key].known /\ sources[r.key].running
        /\ State \in StateSet /\ UnwantedOK(State, pods)
        /\ ~over => WantedOK(State, pods)
        /\ ReportsOK(State, done, over) /\ done \in Seq(Reports)
        /\ sources \in [Keys -> SourceSet]
        /\ \A j \in Keys : ~sources[j].cancelled
    BY RecordedKeeps, FollowParts DEF OwnerOK
  <1> DEFINE k == r.key
             s == sources[k]
  <1>2. k \in Keys /\ s \in SourceSet
    BY <1>1 DEF Reports
  <1>3. k \in Wanted(pods)
    BY <1>1, <1>2, StateFields DEF UnwantedOK
  <1>4. /\ t.capWarned = capWarned
        /\ t.sources = [sources EXCEPT ![k] = Returned(@, r)]
    BY <1>1, RecordedFields
  <1>5. t.sources[k] = Returned(s, r) /\ \A j \in Keys \ {k} : t.sources[j] = sources[j]
    BY <1>1, <1>2, <1>4
  <1>6. /\ Returned(s, r).known /\ ~Returned(s, r).cancelled
        /\ Returned(s, r).outcome = r.outcome
    BY <1>1, <1>2, <1>3, ReturnedFields
  <1>7. ~over => r.outcome # "canceled"
    <2>1. 1 \in DOMAIN done /\ r = done[1]
      BY <1>1
    <2> QED BY <1>1, <1>2, <2>1, StateFields DEF ReportsOK
  <1>8. UnwantedOK(t, pods)
    BY <1>1, <1>3, <1>5, StateFields DEF UnwantedOK
  <1>9. \A j \in Keys : ~t.sources[j].cancelled
    BY <1>1, <1>5, <1>6
  <1>10. ASSUME ~over PROVE WantedOK(t, pods)
    <2> SUFFICES ASSUME NEW j \in Wanted(pods) PROVE Kept(t, j)
      BY DEF WantedOK
    <2>1. CASE j = k
      BY <1>5, <1>6, <1>7, <1>10, <2>1 DEF Kept
    <2>2. CASE j # k
      <3>1. j \in Keys
        <4>1. PICK n \in DOMAIN pods : j = <<n, pods[n].gen>>
          BY DEF Wanted
        <4>2. pods \in Views
          BY FollowParts DEF FollowTypeOK
        <4> QED BY <4>1, <4>2, ViewKeys
      <3>2. Kept(State, j)
        BY <1>1, <1>10 DEF WantedOK
      <3> QED BY <1>4, <1>5, <2>2, <3>1, <3>2, StateFields DEF Kept
    <2> QED BY <2>1, <2>2
  <1> QED BY <1>8, <1>9, <1>10

\* The loop receives the report of a worker.
LEMMA DoneStep ==
    ASSUME FollowInv, Done
    PROVE  FollowInv'
  <1> USE DEF clusterVars, watchVars
  <1> DEFINE r == Head(done)
             t == Recorded(r)
  <1>1. /\ owner = "loop" /\ done # <<>> /\ done' = Tail(done)
        /\ UNCHANGED <<cluster, changes, finite, watching, events, owner, over>>
    BY DEF Done
  <1>2. /\ r \in Reports /\ Tail(done) \in Seq(Reports)
        /\ sources[r.key].known /\ StateOK(t, Tail(done), over)
    BY <1>1, RecordedKeeps
  <1>3. IF finite THEN Becomes(t) /\ pods' = pods ELSE Reconcile(t, pods)
    BY <1>2 DEF Done
  <1>4. /\ FollowTypeOK /\ OwnerOK /\ pods \in Views
        /\ watching \in BOOLEAN /\ events \in Seq(Events)
    BY FollowParts DEF FollowTypeOK
  <1>5. CASE ~finite
    <2>1. StateOK(t, done', over) /\ Reconcile(t, pods) /\ done' \in Seq(Reports)
      BY <1>1, <1>2, <1>3, <1>5
    <2>2. watching' \in BOOLEAN /\ events' \in Seq(Events) /\ (~watching' => events' = <<>>)
      BY <1>1, <1>4 DEF OwnerOK
    <2> HIDE DEF t
    <2> QED BY <1>1, <1>4, <1>5, <2>1, <2>2, Reconciling
  <1>6. CASE finite
    <2>1. /\ UnwantedOK(t, pods)
          /\ ~over => WantedOK(t, pods)
          /\ \A j \in Keys : ~t.sources[j].cancelled
      BY <1>1, <1>6, FiniteKeeps
    <2> HIDE DEF t
    <2>2. Becomes(t) /\ pods' = pods /\ done' \in Seq(Reports)
      BY <1>1, <1>2, <1>3, <1>6
    <2>3. /\ State' \in StateSet /\ StateOK(State', Tail(done), over)
          /\ sources' = t.sources /\ capWarned' = t.capWarned /\ readers' = t.readers
      BY <1>2, <1>4, <2>2, BecomesKeeps
    <2>4. UnwantedOK(State', pods') /\ (~over' => WantedOK(State', pods'))
      <3>1. State'.sources = t.sources /\ State'.capWarned = t.capWarned
        BY <2>3, StateFields
      <3>2. UnwantedOK(State', pods) /\ (~over => WantedOK(State', pods))
        BY <2>1, <3>1, SameKept
      <3> QED BY <1>1, <2>2, <3>2
    <2>5. FollowTypeOK'
      BY <1>1, <1>4, <2>2, <2>3 DEF FollowTypeOK
    <2>6. OwnerOK'
      BY <1>1, <1>4, <2>1, <2>3 DEF OwnerOK
    <2>7. StateOK(State', done', over')
      BY <1>1, <2>3
    <2> QED BY <2>4, <2>5, <2>6, <2>7 DEF FollowInv
  <1> QED BY <1>5, <1>6

---------------------------------------------------------------------------
(* The steps that leave the books as they are.                             *)

\* Books that are kept are kept when the session is over.
LEMMA OverKeeps ==
    ASSUME NEW st, NEW d, NEW o \in BOOLEAN, StateOK(st, d, o)
    PROVE  StateOK(st, d, TRUE)
  BY DEF StateOK, SourceOK, ReportsOK

\* A step that changes neither the sources nor what is tracked.
LEMMA BooksStay ==
    ASSUME FollowInv, UNCHANGED <<finite, pods, sourceVars, done>>,
           over' \in BOOLEAN, over => over',
           cluster' \in [Names -> PodSet], changes' \in Nat,
           watching' \in BOOLEAN, events' \in Seq(Events),
           ~watching' => events' = <<>>, finite => ~watching',
           owner' \in {"loop", "leaving", "closed"}, owner' # "loop" => over',
           owner' = "closed" => owner = "closed" \/ \A k \in Keys : readers[k] = 0
    PROVE  FollowInv'
  <1>1. State' = State /\ UNCHANGED <<finite, pods, sources, readers, done>>
    BY DEF sourceVars, State
  <1>2. /\ FollowTypeOK /\ OwnerOK /\ UnwantedOK(State, pods)
        /\ ~over => WantedOK(State, pods)
        /\ StateOK(State, done, over)
    BY FollowParts
  <1>3. StateOK(State, done, over')
    BY <1>2, OverKeeps DEF FollowTypeOK
  <1>4. StateOK(State', done', over')
    BY <1>1, <1>3
  <1>5. FollowTypeOK'
    BY <1>1, <1>2 DEF FollowTypeOK
  <1>6. OwnerOK'
    BY <1>1, <1>2 DEF OwnerOK
  <1>7. UnwantedOK(State', pods') /\ (~over' => WantedOK(State', pods'))
    BY <1>1, <1>2
  <1> QED BY <1>4, <1>5, <1>6, <1>7 DEF FollowInv

\* A Pod changes; the watch will say so.
LEMMA ClusterChangesStep ==
    ASSUME FollowInv, NEW n \in Names, ClusterChanges(n)
    PROVE  FollowInv'
  <1>1. PICK p \in Changed(cluster[n]) :
           /\ cluster' = [cluster EXCEPT ![n] = p]
           /\ events' = IF watching THEN Append(events, [name |-> n, pod |-> p]) ELSE events
    BY DEF ClusterChanges
  <1>2. /\ FollowTypeOK /\ OwnerOK
        /\ cluster \in [Names -> PodSet] /\ events \in Seq(Events) /\ changes \in Nat
    BY FollowParts DEF FollowTypeOK
  <1>3. p \in PodSet
    <2> DEFINE c == cluster[n]
    <2>1. c \in PodSet
      BY <1>2
    <2>2. [c EXCEPT !.matches = ~@] \in PodSet
      BY <2>1, Zenon DEF PodSet
    <2>3. ASSUME c.gen < MaxGeneration
          PROVE  [c EXCEPT !.gen = @ + 1, !.matches = TRUE] \in PodSet
      <3>1. c.gen + 1 \in 1..MaxGeneration
        BY <2>1, <2>3, FollowAssumption DEF PodSet
      <3>2. ASSUME NEW g \in 1..MaxGeneration
            PROVE  [c EXCEPT !.gen = g, !.matches = TRUE] \in PodSet
        BY <2>1, Zenon DEF PodSet
      <3> QED BY <2>1, <3>1, <3>2
    <2> QED BY <1>1, <2>2, <2>3 DEF Changed
  <1>4. [name |-> n, pod |-> p] \in Events
    BY <1>3 DEF Events
  <1>5. events' \in Seq(Events) /\ cluster' \in [Names -> PodSet]
    BY <1>1, <1>2, <1>3, <1>4
  <1>6. /\ changes' \in Nat
        /\ UNCHANGED <<finite, watching, pods, sourceVars, done, owner, over>>
    BY <1>2 DEF ClusterChanges
  <1>7. ~watching' => events' = <<>>
    BY <1>1, <1>2, <1>6 DEF OwnerOK
  <1> QED BY <1>2, <1>5, <1>6, <1>7, BooksStay DEF FollowTypeOK, OwnerOK

\* The watch breaks, and its events are lost.
LEMMA WatchBreaksStep ==
    ASSUME FollowInv, WatchBreaks
    PROVE  FollowInv'
  <1>1. FollowTypeOK /\ OwnerOK
    BY FollowParts
  <1>2. /\ watching' = FALSE /\ events' = <<>> /\ events' \in Seq(Events)
        /\ UNCHANGED <<cluster, changes, finite, pods, sourceVars, done, owner, over>>
    BY DEF WatchBreaks, clusterVars
  <1> QED BY <1>1, <1>2, BooksStay DEF FollowTypeOK, OwnerOK

\* The session ends, the loop returns, the channel is closed.
LEMMA EndSteps ==
    ASSUME FollowInv, SessionEnds \/ OwnerReturns \/ Close
    PROVE  FollowInv'
  <1>1. FollowTypeOK /\ OwnerOK
    BY FollowParts
  <1>2. UNCHANGED <<cluster, changes, finite, watching, events, pods, sourceVars, done>>
    BY DEF SessionEnds, OwnerReturns, Close, clusterVars, watchVars
  <1>3. /\ over' \in BOOLEAN /\ (over => over')
        /\ owner' \in {"loop", "leaving", "closed"} /\ (owner' # "loop" => over')
        /\ owner' = "closed" => owner = "closed" \/ \A k \in Keys : readers[k] = 0
    BY <1>1 DEF SessionEnds, OwnerReturns, Close, FollowTypeOK, OwnerOK
  <1> QED BY <1>1, <1>2, <1>3, BooksStay DEF FollowTypeOK, OwnerOK

\* Steps that change nothing of the follower.
LEMMA FollowStutter ==
    ASSUME FollowInv, UNCHANGED followVars
    PROVE  FollowInv'
  <1>1. FollowTypeOK /\ OwnerOK
    BY FollowParts
  <1>2. /\ UNCHANGED <<cluster, changes, finite, watching, events, pods, sourceVars, done>>
        /\ UNCHANGED <<owner, over>>
    BY DEF followVars, sourceVars
  <1> QED BY <1>1, <1>2, BooksStay DEF FollowTypeOK, OwnerOK
---------------------------------------------------------------------------
(* The theorems.                                                           *)

\* The books of a loop that has read its first list.
LEMMA FollowStart ==
    ASSUME FollowInit
    PROVE  FollowInv
  <1> DEFINE st0 == [sources |-> [k \in Keys |-> Unknown], readers |-> NoCounts, active |-> 0,
                     capWarned |-> FirstPods # Matching, joined |-> NoCounts]
             t == Reconciled(st0, pods)
             view == [n \in FirstPods |-> cluster[n]]
  <1>1. /\ cluster \in [Names -> [gen : {1}, matches : BOOLEAN]]
        /\ changes = 0 /\ finite \in BOOLEAN
        /\ watching \in BOOLEAN /\ ~(finite /\ watching) /\ events = <<>>
        /\ pods = view
        /\ done = <<>> /\ owner = "loop" /\ over = FALSE
        /\ sources = t.sources /\ readers = t.readers /\ active = t.active
        /\ capWarned = t.capWarned /\ joined = t.joined
    BY DEF FollowInit
  <1>2. cluster \in [Names -> PodSet]
    <2>1. 1 \in 1..MaxGeneration
      BY FollowAssumption
    <2> QED BY <1>1, <2>1 DEF PodSet
  <1>3. pods \in Views
    BY <1>1, <1>2, ListIsView
  <1>4. /\ st0.sources = [k \in Keys |-> Unknown] /\ st0.readers = NoCounts
        /\ st0.active = 0 /\ st0.capWarned = (FirstPods # Matching) /\ st0.joined = NoCounts
    OBVIOUS
  <1>5. st0 \in StateSet
    <2>1. st0.sources \in [Keys -> SourceSet]
      BY <1>4, UnknownFields
    <2>2. NoCounts \in [Keys -> Nat] /\ NoCounts \in [Keys -> Int]
      BY DEF NoCounts
    <2> QED BY <1>4, <2>1, <2>2 DEF StateSet
  <1>6. StateOK(st0, done, over)
    <2>1. ASSUME NEW k \in Keys PROVE ~Reported(done, k)
      BY <1>1 DEF Reported
    <2>2. ASSUME NEW k \in Keys PROVE SourceOK(st0, done, over, k)
      <3>1. st0.sources[k] = Unknown /\ st0.readers[k] = 0 /\ st0.joined[k] = 0
        BY <1>4 DEF NoCounts
      <3> HIDE DEF st0
      <3> QED BY <2>1, <3>1, UnknownFields DEF SourceOK
    <2>3. ActiveOK(st0)
      <3>1. Running(st0) = {}
        BY <1>4, UnknownFields DEF Running
      <3> HIDE DEF st0
      <3> QED BY <1>4, <3>1, FS_EmptySet, FollowAssumption DEF ActiveOK
    <2>4. ReportsOK(st0, done, over)
      BY <1>1 DEF ReportsOK
    <2> QED BY <1>5, <2>2, <2>3, <2>4 DEF StateOK
  <1>7. done \in Seq(Reports)
    BY <1>1
  <1>8. /\ StateOK(t, done, over) /\ WantedOK(t, pods) /\ UnwantedOK(t, pods)
        /\ \A k \in Keys : t.sources[k].cancelled =>
              st0.sources[k].cancelled \/ st0.sources[k].known
    <2>1. over \in BOOLEAN
      BY <1>1
    <2> HIDE DEF st0
    <2> QED BY <1>3, <1>6, <1>7, <2>1, ReconciledKeeps
  <1>9. \A k \in Keys : ~t.sources[k].cancelled
    BY <1>4, <1>8, UnknownFields
  <1>10. State = t
    <2>1. t \in StateSet
      BY <1>8 DEF StateOK
    <2> HIDE DEF t
    <2> QED BY <1>1, <2>1 DEF State, StateSet
  <1>11. FollowTypeOK
    <2>1. State \in StateSet /\ events \in Seq(Events)
      BY <1>1, <1>8, <1>10 DEF StateOK
    <2> QED BY <1>1, <1>2, <1>3, <1>7, <2>1 DEF FollowTypeOK
  <1>12. OwnerOK
    BY <1>1, <1>9 DEF OwnerOK
  <1> QED BY <1>8, <1>10, <1>11, <1>12 DEF FollowInv

\* The invariant of the follower: each source, its worker, its report and what the viewer
\* was told of it agree after every step of loop, workers, cluster and viewer.
THEOREM FollowInvariant == FollowSpec => []FollowInv
  <1>1. FollowInit => FollowInv
    BY FollowStart
  <1>2. FollowInv /\ [FollowNext]_followVars => FollowInv'
    <2> SUFFICES ASSUME FollowInv, [FollowNext]_followVars PROVE FollowInv'
      OBVIOUS
    <2>1. CASE \E n \in Names : ClusterChanges(n)
      BY <2>1, ClusterChangesStep
    <2>2. CASE WatchBreaks
      BY <2>2, WatchBreaksStep
    <2>3. CASE WatchEvent
      BY <2>3, WatchEventStep
    <2>4. CASE \E opened \in BOOLEAN : Refresh(opened)
      BY <2>4, RefreshStep
    <2>5. CASE \E k \in Keys, o \in Outcomes : WorkerReturns(k, o)
      BY <2>5, WorkerReturnsStep
    <2>6. CASE Done
      BY <2>6, DoneStep
    <2>7. CASE SessionEnds \/ OwnerReturns \/ Close
      BY <2>7, EndSteps
    <2>8. CASE UNCHANGED followVars
      BY <2>8, FollowStutter
    <2> QED BY <2>1, <2>2, <2>3, <2>4, <2>5, <2>6, <2>7, <2>8 DEF FollowNext
  <1> QED BY <1>1, <1>2, PTL DEF FollowSpec

\* The follower is typed.
THEOREM FollowTypeCorrect == FollowSpec => []FollowTypeOK
  <1>1. FollowInv => FollowTypeOK
    BY DEF FollowInv
  <1> QED BY <1>1, FollowInvariant, PTL

\* A source has one report or none.
LEMMA ReportsOfOne ==
    ASSUME FollowInv, NEW k \in Keys
    PROVE  Cardinality({i \in DOMAIN done : done[i].key = k}) =
              IF Reported(done, k) THEN 1 ELSE 0
  <1> DEFINE I == {i \in DOMAIN done : done[i].key = k}
  <1>1. CASE ~Reported(done, k)
    <2>1. I = {}
      BY <1>1 DEF Reported
    <2> QED BY <1>1, <2>1, FS_EmptySet
  <1>2. CASE Reported(done, k)
    <2>1. PICK i \in DOMAIN done : done[i].key = k
      BY <1>2 DEF Reported
    <2>2. I = {i}
      BY <2>1, FollowParts DEF ReportsOK
    <2>3. Cardinality({i}) = 1
      BY FS_Singleton
    <2> QED BY <1>2, <2>2, <2>3
  <1> QED BY <1>1, <1>2

\* At all times between the loop, its workers and the viewer every source is accounted
\* for: one worker or one report of it, the worker count is exact and within its cap,
\* nobody sends on the closed channel, and until the session is over no container of a
\* tracked Pod is forgotten.
THEOREM SourcesAreAccountedHolds == FollowSpec => []SourcesAreAccounted
  <1>1. ASSUME FollowInv PROVE SourcesAreAccounted
    <2> USE <1>1
    <2>1. ASSUME NEW k \in Keys
          PROVE  LET reports == Cardinality({i \in DOMAIN done : done[i].key = k})
                 IN  IF over THEN readers[k] + reports <= 1
                     ELSE readers[k] + reports = IF sources[k].running THEN 1 ELSE 0
      <3> DEFINE reports == Cardinality({i \in DOMAIN done : done[i].key = k})
      <3>1. reports = IF Reported(done, k) THEN 1 ELSE 0
        BY ReportsOfOne
      <3>2. SourceOK(State, done, over, k)
        BY FollowParts
      <3> HIDE DEF reports
      <3>3. IF over THEN readers[k] + reports <= 1
            ELSE readers[k] + reports = IF sources[k].running THEN 1 ELSE 0
        BY <3>1, <3>2, StateFields DEF SourceOK
      <3> QED BY <3>3 DEF reports
    <2>2. /\ active = Cardinality({k \in Keys : sources[k].running})
          /\ active <= MaxLogSources
      BY FollowParts, StateFields DEF ActiveOK, Running
    <2>3. owner = "closed" => \A k \in Keys : readers[k] = 0
      BY FollowParts DEF OwnerOK
    <2>4. ASSUME ~over
          PROVE  /\ \A k \in Wanted(pods) :
                       \/ sources[k].running
                       \/ (sources[k].known /\ sources[k].outcome # "canceled")
                       \/ capWarned
                 /\ \A k \in Keys : joined[k] \in {0, 1}
      <3>1. \A k \in Wanted(pods) : Kept(State, k)
        BY <2>4, FollowParts DEF WantedOK
      <3>2. ASSUME NEW k \in Keys PROVE joined[k] \in {0, 1}
        BY <2>4, FollowParts, StateFields DEF SourceOK
      <3> QED BY <3>1, <3>2, StateFields DEF Kept
    <2> QED BY <2>1, <2>2, <2>3, <2>4
          DEF SourcesAreAccounted, WorkersAreCounted, NothingIsForgotten
  <1> QED BY <1>1, FollowInvariant, PTL

(***************************************************************************)
(* The log page.                                                           *)
(***************************************************************************)

LogPageTypeOK ==
    /\ open \in BOOLEAN /\ stale \in BOOLEAN
    /\ latest \in 0..MaxRequests
    /\ asked \in [Requests -> {"none", "start", "restart", "stop"}]
    /\ goroutine \in [Requests -> {"none", "queued", "opening", "done"}]
    /\ current \in 0..MaxRequests /\ mutex \in 0..MaxRequests /\ modelHeld \in 0..MaxRequests
    /\ expired \subseteq Requests /\ streamEnded \subseteq Requests
    /\ reader \in [Requests -> {"none", "reading", "holding", "gone"}]
    /\ overdue \in [Requests -> 0..1]
    /\ lines \subseteq Requests

Streams(r) == goroutine[r] = "opening" \/ reader[r] \in {"reading", "holding"}

\* The current context is that of the latest request, of an open page.
CurrentOK ==
    /\ current # 0 => current = latest /\ open /\ ~stale
    /\ ~open => current = 0

\* A request that is not current has expired, unless it is to stop the model.
ExpiredOK(r) ==
    r <= latest /\ asked[r] # "stop" /\ r \notin expired => r = current

\* Requests are made in turn; one that stops the model has no stream.
AskedOK(r) ==
    /\ goroutine[r] = "none" <=> r > latest
    /\ Streams(r) => r <= latest /\ asked[r] # "stop"

\* The model holds the stream that is being opened, or read and not ended.
HeldOK(r) ==
    /\ goroutine[r] = "opening" <=> mutex = r
    /\ mutex = r => modelHeld = r
    /\ reader[r] \in {"reading", "holding"} /\ r \notin streamEnded => modelHeld = r
    /\ modelHeld = r => r <= latest

\* A stream that appended a line after its end takes no other.
OverdueOK(r) == overdue[r] # 0 => Over(r) /\ reader[r] # "holding"

\* What a restart found is gone, and what came later came from an ended stream.
ClearedOK ==
    modelHeld # 0 /\ asked[modelHeld] = "restart" =>
        \A r \in lines : r # modelHeld => overdue[r] = 1

RequestOK(r) == ExpiredOK(r) /\ AskedOK(r) /\ HeldOK(r) /\ OverdueOK(r)

LogPageInv == LogPageTypeOK /\ CurrentOK /\ ClearedOK /\ \A r \in Requests : RequestOK(r)

---------------------------------------------------------------------------
(* The UI thread. *)

\* A request is made: it is the latest, and the one before it has expired.
LEMMA RequestMade ==
    ASSUME LogPageInv, NEW what \in {"start", "restart", "stop"},
           latest < MaxRequests, latest' = latest + 1, CancelCurrent,
           asked' = [asked EXCEPT ![latest'] = what],
           goroutine' = [goroutine EXCEPT ![latest'] = "queued"],
           UNCHANGED streamVars, open' \in BOOLEAN, stale' \in BOOLEAN,
           \/ what # "stop" /\ current' = latest' /\ open' /\ ~stale'
           \/ what = "stop" /\ current' = 0
    PROVE  LogPageInv'
  <1> USE DEF streamVars
  <1> PICK n \in Requests : n = latest + 1
    BY PageAssumption DEF LogPageInv, LogPageTypeOK, Requests
  <1>1. /\ asked' \in [Requests -> {"none", "start", "restart", "stop"}]
        /\ goroutine' \in [Requests -> {"none", "queued", "opening", "done"}]
        /\ asked'[n] = what /\ goroutine'[n] = "queued"
        /\ \A r \in Requests \ {n} : asked'[r] = asked[r] /\ goroutine'[r] = goroutine[r]
    BY DEF LogPageInv, LogPageTypeOK
  <1>2. /\ n # 0 /\ latest' = n /\ latest \in Nat /\ latest' \in 0..MaxRequests
        /\ \A r \in Requests : r \in Nat /\ r # 0
    BY PageAssumption DEF LogPageInv, LogPageTypeOK, Requests
  <1>3. current' \in 0..MaxRequests /\ expired' \subseteq Requests
    BY <1>2, PageAssumption DEF LogPageInv, LogPageTypeOK, CancelCurrent, Requests
  <1>4. LogPageTypeOK'
    BY <1>1, <1>2, <1>3 DEF LogPageInv, LogPageTypeOK
  <1>5. CurrentOK'
    BY <1>2 DEF CurrentOK
  <1>6. ASSUME NEW r \in Requests PROVE RequestOK(r)'
    <2>1. RequestOK(r) /\ RequestOK(n)
      BY DEF LogPageInv
    <2>2. ExpiredOK(r)'
      BY <1>1, <1>2, <2>1 DEF RequestOK, ExpiredOK, CancelCurrent
    <2>3. AskedOK(r)'
      BY <1>1, <1>2, <2>1 DEF RequestOK, AskedOK, Streams
    <2>4. HeldOK(r)'
      BY <1>1, <1>2, <2>1 DEF RequestOK, HeldOK, AskedOK, Streams
    <2>5. OverdueOK(r)'
      BY <2>1 DEF RequestOK, OverdueOK, Over, CancelCurrent
    <2> QED BY <2>2, <2>3, <2>4, <2>5 DEF RequestOK
  <1>7. ClearedOK'
    <2>1. modelHeld # n
      BY <1>2 DEF LogPageInv, RequestOK, HeldOK
    <2>2. modelHeld # 0 => asked'[modelHeld] = asked[modelHeld]
      BY <1>1, <2>1 DEF LogPageInv, LogPageTypeOK, Requests
    <2> QED BY <2>2 DEF LogPageInv, ClearedOK
  <1> QED BY <1>4, <1>5, <1>6, <1>7 DEF LogPageInv

\* The page asks for streams, or stops the model.
LEMMA AskStep ==
    ASSUME LogPageInv,
           \/ StartPage \/ RestartStreams \/ StopPage
           \/ SessionReplaced /\ open
    PROVE  LogPageInv'
  <1>1. CASE StartPage
    BY <1>1, RequestMade DEF StartPage, RunModel, LogPageInv, LogPageTypeOK
  <1>2. CASE RestartStreams
    BY <1>2, RequestMade DEF RestartStreams, RunModel, LogPageInv, LogPageTypeOK
  <1>3. CASE StopPage \/ (SessionReplaced /\ open)
    BY <1>3, RequestMade DEF StopPage, SessionReplaced, StopNow, LogPageInv, LogPageTypeOK
  <1> QED BY <1>1, <1>2, <1>3

\* A page without a current request opens with what was retained, or becomes stale.
LEMMA StaleStep ==
    ASSUME LogPageInv, StartStale \/ (SessionReplaced /\ ~open)
    PROVE  LogPageInv'
  <1> USE DEF StartStale, SessionReplaced, streamVars
  <1>1. current = 0
    BY DEF LogPageInv, CurrentOK
  <1>2. LogPageTypeOK' /\ CurrentOK'
    BY <1>1 DEF LogPageInv, LogPageTypeOK, CurrentOK
  <1>3. ASSUME NEW r \in Requests PROVE RequestOK(r)'
    BY DEF LogPageInv, RequestOK, ExpiredOK, AskedOK, HeldOK, OverdueOK, Streams, Over
  <1>4. ClearedOK'
    BY DEF LogPageInv, ClearedOK
  <1> QED BY <1>2, <1>3, <1>4 DEF LogPageInv

---------------------------------------------------------------------------
(* The goroutine of a request. *)

\* The request is carried out, or skipped, while nobody holds the mutex.
LEMMA CarryStep ==
    ASSUME LogPageInv, NEW q \in Requests, Skip(q) \/ StopModel(q) \/ NotOpened(q)
    PROVE  LogPageInv'
  <1> USE DEF Skip, StopModel, NotOpened, viewVars, streamVars
  <1>0. /\ goroutine' = [goroutine EXCEPT ![q] = "done"] /\ goroutine[q] \in {"queued", "opening"}
        /\ goroutine[q] = "queued" => mutex = 0
        /\ mutex' = 0
    OBVIOUS
  <1>8. UNCHANGED <<open, stale, latest, asked, current, expired, reader, overdue, lines>>
    OBVIOUS
  <1>9. \/ UNCHANGED <<modelHeld, streamEnded>>
        \/ modelHeld' = 0 /\ streamEnded' = ModelCancelled
    OBVIOUS
  <1> HIDE DEF Skip, StopModel, NotOpened
  <1>1. /\ goroutine' \in [Requests -> {"none", "queued", "opening", "done"}]
        /\ goroutine'[q] = "done" /\ goroutine[q] \in {"queued", "opening"}
        /\ \A r \in Requests \ {q} : goroutine'[r] = goroutine[r]
        /\ goroutine[q] = "queued" => mutex = 0
        /\ mutex' = 0 /\ UNCHANGED <<open, stale, latest, asked, current, expired, reader,
                                    overdue, lines>>
        /\ \/ UNCHANGED <<modelHeld, streamEnded>>
           \/ modelHeld' = 0 /\ streamEnded' = ModelCancelled
    BY <1>0, <1>8, <1>9 DEF LogPageInv, LogPageTypeOK
  <1>2. q # 0 /\ \A r \in Requests : r # 0
    BY DEF Requests
  <1>3. streamEnded' \subseteq Requests /\ streamEnded \subseteq streamEnded'
    <2>1. modelHeld \in Requests \union {0} /\ streamEnded \subseteq Requests
      BY PageAssumption DEF LogPageInv, LogPageTypeOK, Requests
    <2>2. streamEnded' = streamEnded \/ streamEnded' = ModelCancelled
      BY <1>1
    <2> QED BY <2>1, <2>2 DEF ModelCancelled
  <1>4. LogPageTypeOK'
    BY <1>1, <1>3, PageAssumption DEF LogPageInv, LogPageTypeOK
  <1>5. CurrentOK' /\ ClearedOK'
    BY <1>1 DEF LogPageInv, CurrentOK, ClearedOK
  <1>6. ASSUME NEW r \in Requests PROVE RequestOK(r)'
    <2>1. RequestOK(r) /\ RequestOK(q)
      BY DEF LogPageInv
    <2>2. ExpiredOK(r)' /\ AskedOK(r)'
      BY <1>1, <2>1 DEF RequestOK, ExpiredOK, AskedOK, Streams
    <2>3. HeldOK(r)'
      <3>1. goroutine'[r] # "opening"
        BY <1>1, <1>2, <2>1 DEF RequestOK, HeldOK
      <3>2. reader[r] \in {"reading", "holding"} /\ r \notin streamEnded' => modelHeld' = r
        BY <1>1, <1>2, <1>3, <2>1 DEF RequestOK, HeldOK, ModelCancelled
      <3> QED BY <1>1, <1>2, <2>1, <3>1, <3>2 DEF RequestOK, HeldOK
    <2>4. OverdueOK(r)'
      BY <1>1, <1>3, <2>1 DEF RequestOK, OverdueOK, Over
    <2> QED BY <2>2, <2>3, <2>4 DEF RequestOK
  <1> QED BY <1>4, <1>5, <1>6 DEF LogPageInv

\* A stream is asked for: the one before is ended, and a restart clears the lines.
LEMMA LoadStep ==
    ASSUME LogPageInv, NEW q \in Requests, Load(q)
    PROVE  LogPageInv'
  <1> USE DEF Load, viewVars
  <1>1. /\ goroutine' \in [Requests -> {"none", "queued", "opening", "done"}]
        /\ goroutine'[q] = "opening" /\ goroutine[q] = "queued"
        /\ \A r \in Requests \ {q} : goroutine'[r] = goroutine[r]
    BY DEF LogPageInv, LogPageTypeOK
  <1>2. q # 0 /\ q \in 0..MaxRequests /\ \A r \in Requests : r # 0
    BY PageAssumption DEF Requests
  <1>3. /\ streamEnded' \subseteq Requests /\ streamEnded \subseteq streamEnded'
        /\ modelHeld # 0 => modelHeld \in streamEnded'
    BY DEF LogPageInv, LogPageTypeOK, ModelCancelled, Requests
  <1>4. LogPageTypeOK'
    BY <1>1, <1>2, <1>3 DEF LogPageInv, LogPageTypeOK
  <1>5. CurrentOK' /\ ClearedOK'
    BY <1>1 DEF LogPageInv, CurrentOK, ClearedOK
  <1>6. ASSUME NEW r \in Requests PROVE RequestOK(r)'
    <2>1. RequestOK(r) /\ RequestOK(q)
      BY DEF LogPageInv
    <2>2. ExpiredOK(r)'
      BY <2>1 DEF RequestOK, ExpiredOK
    <2>5. AskedOK(r)'
      <3>1. q <= latest /\ ~(q > latest)
        BY <1>1, <2>1, <1>2 DEF LogPageInv, LogPageTypeOK, RequestOK, AskedOK, Requests
      <3>2. goroutine'[r] = "none" <=> r > latest
        BY <1>1, <2>1, <3>1 DEF RequestOK, AskedOK
      <3>3. Streams(r)' => r <= latest /\ asked[r] # "stop"
        BY <1>1, <2>1, <3>1 DEF RequestOK, AskedOK, Streams
      <3> QED BY <3>2, <3>3 DEF AskedOK
    <2>3. HeldOK(r)'
      <3>1. goroutine'[r] = "opening" <=> r = q
        BY <1>1, <1>2, <2>1 DEF RequestOK, HeldOK
      <3>2. reader[r] \in {"reading", "holding"} => r \in streamEnded'
        BY <1>2, <1>3, <2>1 DEF RequestOK, HeldOK
      <3>3. q <= latest
        BY <1>1, <2>1, <1>2 DEF LogPageInv, LogPageTypeOK, RequestOK, AskedOK, Requests
      <3> QED BY <3>1, <3>2, <3>3 DEF HeldOK
    <2>4. OverdueOK(r)'
      BY <1>3, <2>1 DEF RequestOK, OverdueOK, Over
    <2> QED BY <2>2, <2>3, <2>4, <2>5 DEF RequestOK
  <1> QED BY <1>4, <1>5, <1>6 DEF LogPageInv

\* The stream is there, and is read.
LEMMA OpenedStep ==
    ASSUME LogPageInv, NEW q \in Requests, Opened(q)
    PROVE  LogPageInv'
  <1> USE DEF Opened, viewVars
  <1>1. /\ goroutine' \in [Requests -> {"none", "queued", "opening", "done"}]
        /\ reader' \in [Requests -> {"none", "reading", "holding", "gone"}]
        /\ goroutine'[q] = "done" /\ goroutine[q] = "opening" /\ reader'[q] = "reading"
        /\ \A r \in Requests \ {q} : goroutine'[r] = goroutine[r] /\ reader'[r] = reader[r]
    BY DEF LogPageInv, LogPageTypeOK
  <1>2. \A r \in Requests : r # 0
    BY DEF Requests
  <1>3. LogPageTypeOK'
    BY <1>1, PageAssumption DEF LogPageInv, LogPageTypeOK
  <1>4. CurrentOK' /\ ClearedOK'
    BY DEF LogPageInv, CurrentOK, ClearedOK
  <1>5. ASSUME NEW r \in Requests PROVE RequestOK(r)'
    <2>1. RequestOK(r) /\ RequestOK(q)
      BY DEF LogPageInv
    <2>2. ExpiredOK(r)' /\ AskedOK(r)'
      BY <1>1, <2>1 DEF RequestOK, ExpiredOK, AskedOK, Streams
    <2>3. HeldOK(r)'
      BY <1>1, <1>2, <2>1 DEF RequestOK, HeldOK
    <2>4. OverdueOK(r)'
      BY <1>1, <2>1 DEF RequestOK, OverdueOK, Over
    <2> QED BY <2>2, <2>3, <2>4 DEF RequestOK
  <1> QED BY <1>3, <1>4, <1>5 DEF LogPageInv

---------------------------------------------------------------------------
(* updateLogs. *)

\* A line is received by a stream that has not ended, or the stream is left.
LEMMA ReaderStep ==
    ASSUME LogPageInv, NEW q \in Requests, Receive(q) \/ ReaderEnds(q)
    PROVE  LogPageInv'
  <1> USE DEF Receive, ReaderEnds, viewVars
  <1>1. /\ reader' \in [Requests -> {"none", "reading", "holding", "gone"}]
        /\ reader[q] = "reading"
        /\ reader'[q] = "holding" => ~Over(q)
        /\ \A r \in Requests \ {q} : reader'[r] = reader[r]
    BY DEF LogPageInv, LogPageTypeOK
  <1>2. LogPageTypeOK' /\ CurrentOK' /\ ClearedOK'
    BY <1>1 DEF LogPageInv, LogPageTypeOK, CurrentOK, ClearedOK
  <1>3. ASSUME NEW r \in Requests PROVE RequestOK(r)'
    BY <1>1 DEF LogPageInv, RequestOK, ExpiredOK, AskedOK, HeldOK, OverdueOK, Streams, Over
  <1> QED BY <1>2, <1>3 DEF LogPageInv

\* A line is appended: of a stream that has ended, it is the only one.
LEMMA AppendStep ==
    ASSUME LogPageInv, NEW q \in Requests, AppendLine(q)
    PROVE  LogPageInv'
  <1> USE DEF AppendLine, viewVars
  <1>1. RequestOK(q) /\ overdue[q] = 0
    BY DEF LogPageInv, LogPageTypeOK, RequestOK, OverdueOK
  <1>2. /\ reader' \in [Requests -> {"none", "reading", "holding", "gone"}]
        /\ overdue' \in [Requests -> 0..1]
        /\ reader[q] = "holding" /\ reader'[q] = "reading"
        /\ overdue'[q] = IF Over(q) THEN 1 ELSE 0
        /\ \A r \in Requests \ {q} : reader'[r] = reader[r] /\ overdue'[r] = overdue[r]
    BY <1>1 DEF LogPageInv, LogPageTypeOK
  <1>3. LogPageTypeOK' /\ CurrentOK'
    BY <1>2 DEF LogPageInv, LogPageTypeOK, CurrentOK
  <1>4. ASSUME NEW r \in Requests PROVE RequestOK(r)'
    BY <1>1, <1>2 DEF LogPageInv, RequestOK, ExpiredOK, AskedOK, HeldOK, OverdueOK, Streams, Over
  <1>5. ClearedOK'
    <2>1. q # modelHeld => overdue'[q] = 1
      BY <1>1, <1>2 DEF RequestOK, HeldOK, Over
    <2> QED BY <1>2, <2>1 DEF LogPageInv, LogPageTypeOK, ClearedOK
  <1> QED BY <1>3, <1>4, <1>5 DEF LogPageInv

---------------------------------------------------------------------------
(* The theorems. *)

\* The invariant holds before the page was opened.
LEMMA PageStart == LogPageInit => LogPageInv
  <1> SUFFICES ASSUME LogPageInit PROVE LogPageInv
    OBVIOUS
  <1> USE DEF LogPageInit
  <1>1. LogPageTypeOK
    <2>1. 0 \in 0..MaxRequests /\ 0 \in 0..1
      BY PageAssumption
    <2>2. /\ asked \in [Requests -> {"none", "start", "restart", "stop"}]
          /\ goroutine \in [Requests -> {"none", "queued", "opening", "done"}]
          /\ reader \in [Requests -> {"none", "reading", "holding", "gone"}]
          /\ overdue \in [Requests -> 0..1]
      BY <2>1
    <2> QED BY <2>1, <2>2 DEF LogPageTypeOK
  <1>2. CurrentOK /\ ClearedOK
    BY DEF CurrentOK, ClearedOK
  <1>3. ASSUME NEW r \in Requests PROVE RequestOK(r)
    BY DEF Requests, RequestOK, ExpiredOK, AskedOK, HeldOK, OverdueOK, Streams
  <1> QED BY <1>1, <1>2, <1>3 DEF LogPageInv

\* Every step keeps the invariant.
LEMMA PageStep == LogPageInv /\ [LogPageNext]_logPageVars => LogPageInv'
  <1> SUFFICES ASSUME LogPageInv, [LogPageNext]_logPageVars PROVE LogPageInv'
    OBVIOUS
  <1>1. CASE StartPage \/ RestartStreams \/ StopPage \/ StartStale \/ SessionReplaced
    BY <1>1, AskStep, StaleStep
  <1>2. ASSUME NEW r \in Requests, Carry(r) PROVE LogPageInv'
    BY <1>2, CarryStep, LoadStep, OpenedStep DEF Carry
  <1>3. ASSUME NEW r \in Requests, Receive(r) \/ AppendLine(r) \/ ReaderEnds(r)
        PROVE  LogPageInv'
    BY <1>3, ReaderStep, AppendStep
  <1>4. CASE UNCHANGED logPageVars
    <2> USE <1>4 DEF logPageVars
    <2>1. LogPageTypeOK' /\ CurrentOK' /\ ClearedOK'
      BY DEF LogPageInv, LogPageTypeOK, CurrentOK, ClearedOK
    <2>2. ASSUME NEW r \in Requests PROVE RequestOK(r)'
      BY DEF LogPageInv, RequestOK, ExpiredOK, AskedOK, HeldOK, OverdueOK, Streams, Over
    <2> QED BY <2>1, <2>2 DEF LogPageInv
  <1> QED BY <1>1, <1>2, <1>3, <1>4 DEF LogPageNext

\* The strengthened invariant holds for any number of requests.
THEOREM LogPageInvariant == LogPageSpec => []LogPageInv
  BY PageStart, PageStep, PTL DEF LogPageSpec

\* Every variable keeps its type.
THEOREM LogPageTypeCorrect == LogPageSpec => []LogPageTypeOK
  <1>1. LogPageInv => LogPageTypeOK
    BY DEF LogPageInv
  <1> QED BY <1>1, LogPageInvariant, PTL

\* Only the latest request of an open page of the present session keeps a stream, and
\* of what an earlier one still appends a restart leaves nothing but one line.
THEOREM OnlyLatestStreamsHolds == LogPageSpec => []OnlyLatestStreams
  <1>1. LogPageInv => OnlyLatestStreams
    <2> SUFFICES ASSUME LogPageInv PROVE OnlyLatestStreams
      OBVIOUS
    <2>1. ASSUME NEW r \in Requests, Streams(r), ~Over(r)
          PROVE  r = latest /\ open /\ ~stale
      <3>1. r = current /\ r # 0
        BY <2>1 DEF LogPageInv, RequestOK, AskedOK, ExpiredOK, Over, Requests
      <3> QED BY <3>1 DEF LogPageInv, CurrentOK
    <2>2. \A r \in Requests : overdue[r] <= 1
      BY DEF LogPageInv, LogPageTypeOK
    <2> QED BY <2>1, <2>2 DEF OnlyLatestStreams, Streams, LogPageInv, ClearedOK
  <1> QED BY <1>1, LogPageInvariant, PTL
=============================================================================
