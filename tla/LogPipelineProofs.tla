-------------------------- MODULE LogPipelineProofs --------------------------
(***************************************************************************)
(* Proofs about LogSource, for any alphabet of lines, any number of        *)
(* instants in a second, any limits and any bounds; and about LogEngine,   *)
(* which takes its lines, for any sources, limits and times and any number *)
(* of lines.                                                               *)
(*                                                                         *)
(* What the consumer of a source received is not told by the state of the  *)
(* worker alone, so the invariant relates the cursor and the stream to the *)
(* history: the places of the log that were delivered, the first of them,  *)
(* and the order of delivery. Base says what is always so. Follows says    *)
(* the rest, as long as the tail that was asked for first did not begin    *)
(* inside a second. The cursor stands at the latest time delivered. From   *)
(* the first place delivered to where the stream is read there is no gap   *)
(* but lines of earlier seconds. A stream that repeats lines repeats those *)
(* of the cursor's second, its allowance for a line is the number of times *)
(* the line is still to be repeated, and a line the cursor did not count   *)
(* was announced, or its announcement is due before the next stream. A     *)
(* line about to be sent is new, or one of those. While the last key       *)
(* delivered has no delivered end, the redactor is in the key or has       *)
(* failed closed. A property that speaks of the order of delivery is then  *)
(* proved of every step: what holds of the lines delivered before goes on  *)
(* to hold of them, and the line a step delivers has it by the invariant.  *)
(*                                                                         *)
(* An operation of the engine has many steps of its own: a group is        *)
(* queued, a source makes room for another, a line joins its group,        *)
(* entries leave the queue one after the other and each is committed to    *)
(* the ring. The invariant is therefore about an engine and the lines      *)
(* given to it, not about a state: Good is what every such step keeps, the *)
(* number of entries that leave being any. Lined says that a line is in    *)
(* one entry, that entries of a source wait in the order of their lines,   *)
(* after what was returned if the times of its lines never decrease, and   *)
(* before the group. Ringed says that the places of the ring, counted from *)
(* its start, stand for consecutive entries up to the last returned, that  *)
(* each counts the lines of its own, and that the lines of no place that   *)
(* were not cleared are those counted as evicted. That counts are exact    *)
(* takes that no two entries returned have a line in common, which is why  *)
(* one proof carries both.                                                 *)
(***************************************************************************)
EXTENDS LogSource, LogEngine, FiniteSetTheorems, NaturalsInduction,
        WellFoundedInduction, TLAPS

(***************************************************************************)
(* The reader of a source.                                                 *)
(***************************************************************************)

\* Seconds are numbered from the first, in the order of time.
LEMMA SecondType == ASSUME NEW t \in Nat PROVE Second(t) \in Nat
BY LogAssumption DEF Second

\* A later instant is not of an earlier second.
LEMMA SecondMonotone ==
    ASSUME NEW s \in Nat, NEW t \in Nat, s <= t PROVE Second(s) <= Second(t)
BY LogAssumption DEF Second

\* The zero time is of no second.
LEMMA SecondZero == Second(0) = 0
BY LogAssumption DEF Second

\* Every line has a second.
LEMMA SecondPositive == ASSUME NEW t \in Nat \ {0} PROVE Second(t) >= 1
BY LogAssumption DEF Second

\* The least of a non-empty set of numbers belongs to it.
LEMMA MinMember ==
    ASSUME NEW S \in SUBSET Nat, S # {}
    PROVE  Min(S) \in S /\ \A y \in S : Min(S) <= y
  <1>1. PICK m \in S : \A k \in S : ~ (<<k, m>> \in OpToRel(<, Nat))
    BY NatLessThanWellFounded, WFMin
  <1>2. ASSUME NEW k \in S, ~(m <= k) PROVE FALSE
    <2>1. k \in Nat /\ m \in Nat /\ k < m
      BY <1>2
    <2>2. <<k, m>> \in OpToRel(<, Nat)
      BY <2>1 DEF OpToRel
    <2> QED BY <1>1, <2>2
  <1> QED BY <1>2 DEF Min

\* The greater of 1 and a number.
LEMMA MaxOfOne ==
    ASSUME NEW x \in Int
    PROVE  Max({1, x}) \in {1, x} /\ Max({1, x}) >= 1 /\ Max({1, x}) >= x
  <1>1. \E m \in {1, x} : \A y \in {1, x} : m >= y
    <2>1. CASE x >= 1 BY <2>1
    <2>2. CASE x < 1 BY <2>2
    <2> QED BY <2>1, <2>2
  <1> QED BY <1>1 DEF Max

\* The second of the line at a place of the log.
Sec(p) == Second(log[p].time)

\* What the variables hold.
Cursors ==
    [time : Nat, counts : [Records -> Nat], replay : [Records -> Nat],
     uncertain : BOOLEAN, limited : BOOLEAN, failClosed : BOOLEAN,
     inKey : BOOLEAN]
Streams ==
    [at : Nat \ {0}, upto : Nat, since : Nat, follow : BOOLEAN,
     shut : {"open", "error", "broken", "complete"}]
Items ==
    [kind : {"record", "dedup-limit", "source-join"}, pos : Nat,
     masked : BOOLEAN]

TypeOK ==
    /\ log \in Seq(Records)
    /\ ended \in BOOLEAN /\ terminal \in BOOLEAN /\ cancelled \in BOOLEAN
    /\ conn \in Streams /\ cursor \in Cursors
    /\ pc \in {"open", "read", "send", "settle", "marker", "wait", "done"}
    /\ held \in [pos : Nat, masked : BOOLEAN]
    /\ failures \in Nat
    /\ outcome \in {"none", "canceled", "denied", "completed", "exhausted"}
    /\ restarts \in Nat
    /\ out \in Seq(Items)

\* The places delivered, and the one that was delivered first.
Places == {out[i].pos : i \in Deliveries}
First == out[Min(Deliveries)].pos

\* The worker has a stream.
Attached == pc \in {"read", "send"}

\* What is delivered, held and read lies in the log, and a held line is the one read
\* last.
Bounds ==
    /\ \A i \in Deliveries : out[i].pos \in 1..Len(log)
    /\ conn.at <= Len(log) + 1 /\ conn.upto <= Len(log)
    /\ pc = "send" => held.pos = conn.at - 1 /\ held.pos \in 1..Len(log)

\* A complete stream held the whole log, and a worker that completed has read all of it
\* that the server sent.
Ending ==
    /\ outcome = "completed" => pc = "done"
    /\ conn.shut = "complete" => ended /\ conn.upto = Len(log)
    /\ (pc = "settle" \/ outcome = "completed") /\ conn.shut = "complete" =>
           \A p \in conn.at..Len(log) : Sec(p) < Second(conn.since)

Base == TypeOK /\ Bounds /\ Ending

\* Before anything is delivered the stream is at the start, or short of the end.
UnreadAtFirst ==
    Places = {} /\ pc # "send" => conn.at = 1 \/ conn.at <= Len(log)

\* The cursor stands at the latest time delivered.
Latest ==
    /\ Places = {} => cursor.time = 0
    /\ Places # {} => \E q \in Places : log[q].time = cursor.time
    /\ \A q \in Places : log[q].time <= cursor.time

\* A stream resumes at a time that was delivered; one that does not resume has read
\* past the first delivery.
SinceIsDelivered ==
    /\ conn.since # 0 => \E q \in Places : log[q].time = conn.since
    /\ conn.since # 0 => log[First].time <= conn.since
    /\ Attached /\ conn.since = 0 /\ Places # {} => First < conn.at

\* Nothing before the first place delivered is delivered.
FromTheFirst ==
    /\ \A q \in Places : First <= q
    /\ pc = "send" /\ Places # {} => First <= held.pos

\* Between the first delivery and another one only late lines are missing.
Closed ==
    \A q \in Places : \A p \in First..q : p \in Places \/ Late(p, Places)

\* So is it between the first delivery and where the stream is read.
ReadSoFar ==
    Places # {} =>
    \A p \in First..(conn.at - 1) :
        p \in Places \/ Late(p, Places) \/ (pc = "send" /\ p = held.pos)

\* The stream is still to repeat a line that was delivered.
Ahead == Attached /\ \E m \in Places : m >= conn.at

\* It then repeats the cursor's second, and an uncertain cursor has failed closed.
RepeatedSecond ==
    Ahead => /\ Second(cursor.time) <= Second(conn.since)
             /\ cursor.uncertain => cursor.failClosed

\* The places where r was delivered, those the stream is still to repeat, and the lines
\* the cursor counts.
Alike(r) == {p \in Places : log[p] = r}
Remaining(r) == {p \in Alike(r) : p >= conn.at}
Current(r) == Second(r.time) = Second(cursor.time)
Counted == {k \in Records : cursor.counts[k] > 0}

\* A line of the cursor's second is counted as often as it was delivered, or it is not
\* counted because the limit was reached.
CountsAreTrue ==
    \A r \in Records :
        cursor.counts[r] > 0 => Current(r) /\ cursor.counts[r] = Cardinality(Alike(r))

UncountedIsUncertain ==
    \A r \in Records :
        cursor.counts[r] = 0 /\ Alike(r) # {} /\ Current(r) =>
            cursor.uncertain /\ Cardinality(Counted) >= CountLimit

\* The allowance for a counted line is what the stream is still to repeat of it.
ReplayIsTrue ==
    Attached => \A r \in Records :
        cursor.replay[r] =
            IF cursor.counts[r] > 0 THEN Cardinality(Remaining(r)) ELSE 0

\* After delivery i a marker was delivered; up to it its second held more lines than
\* the cursor counts; its line is of the cursor's second and not counted.
Announced(i) == \E k \in (i + 1)..Len(out) : out[k].kind # "record"

Overfull(i) ==
    Cardinality({log[p] : p \in {q \in DeliveredBefore(i + 1) :
        Second(log[q].time) = Second(log[out[i].pos].time)}}) > CountLimit

Uncounted(i) ==
    Current(log[out[i].pos]) /\ cursor.counts[log[out[i].pos]] = 0

\* The second of an uncounted line is overfull, and a marker was delivered after it or
\* is due before the next stream.
Told ==
    \A i \in Deliveries : Uncounted(i) =>
        /\ Overfull(i)
        /\ \/ Announced(i)
           \/ /\ cursor.limited
              /\ \/ Attached /\ out[i].pos < conn.at
                 \/ pc \in {"settle", "marker", "done"}

\* The line in sendLog comes after what was delivered, or repeats an uncounted line
\* that was announced, masked.
HeldIsNext ==
    pc = "send" =>
        IF held.pos \in Places
        THEN /\ cursor.failClosed /\ held.masked
             /\ \A i \in Deliveries :
                    out[i].pos = held.pos => Uncounted(i) /\ Announced(i)
        ELSE \A q \in Places : q < held.pos

\* A key was opened at one of the places and not closed at a later one.
Exposed(places) ==
    \E q \in places : /\ Opens(q)
                      /\ \A m \in places : m > q => log[m].text # "end"

\* The redactor is then in the key, or has failed closed.
KeyIsKnown ==
    IF pc = "send"
    THEN /\ Exposed(Places \cup {held.pos}) /\ ~cursor.failClosed => cursor.inKey
         /\ Exposed(Places) \/ Opens(held.pos) => held.masked
    ELSE Exposed(Places) /\ ~cursor.failClosed => cursor.inKey

\* What the worker knows of what it delivered.
Follows ==
    /\ UnreadAtFirst /\ Latest /\ SinceIsDelivered /\ FromTheFirst /\ Closed
    /\ ReadSoFar /\ RepeatedSecond /\ CountsAreTrue /\ UncountedIsUncertain
    /\ ReplayIsTrue /\ Told /\ HeldIsNext /\ KeyIsKnown

LogSourceInv == Base /\ (~TailCutsSecond => Follows)

\* An empty count is a count.
LEMMA NoneType == None \in [Records -> Nat]
BY DEF None

\* The worker starts with everything in its type.
LEMMA InitType == Init => TypeOK
  <1> SUFFICES ASSUME Init PROVE TypeOK
    OBVIOUS
  <1>1. NewCursor \in Cursors
    BY NoneType DEF NewCursor, Cursors
  <1>2. NoStream \in Streams
    BY DEF NoStream, Streams
  <1>3. Nothing \in [pos : Nat, masked : BOOLEAN]
    BY DEF Nothing
  <1>4. log \in Seq(Records) /\ out \in Seq(Items)
    BY DEF Init
  <1> QED BY <1>1, <1>2, <1>3, <1>4 DEF Init, TypeOK

\* What a new stream does to the cursor.
LEMMA ReconnectFields ==
    ASSUME NEW c \in Cursors
    PROVE  /\ Reconnect(c) \in Cursors
           /\ Reconnect(c).time = c.time /\ Reconnect(c).counts = c.counts
           /\ Reconnect(c).replay = c.counts
           /\ Reconnect(c).uncertain <=> c.uncertain
           /\ Reconnect(c).limited <=> c.limited
           /\ Reconnect(c).failClosed <=> (c.failClosed \/ c.uncertain)
           /\ Reconnect(c).inKey <=> c.inKey
  <1> QED BY DEF Reconnect, Cursors

\* What the redactor does to the cursor when it reads r.
LEMMA TrackFields ==
    ASSUME NEW c \in Cursors, NEW r \in Records
    PROVE  /\ Track(c, r) \in Cursors
           /\ Track(c, r).time = c.time /\ Track(c, r).counts = c.counts
           /\ Track(c, r).replay = c.replay
           /\ Track(c, r).uncertain <=> c.uncertain
           /\ Track(c, r).limited <=> c.limited
           /\ Track(c, r).failClosed <=> (c.failClosed \/ r.text = "cut")
           /\ Track(c, r).inKey <=>
                  IF r.text \in {"begin", "end"} THEN r.text = "begin" ELSE c.inKey
  <1> QED BY DEF Track, Cursors

\* r is of the cursor's second.
Level(c, r) == Second(r.time) = Second(c.time)

\* Count has room for r.
Room(c, r) ==
    c.counts[r] > 0 \/ Cardinality({k \in Records : c.counts[k] > 0}) < CountLimit

\* What a later time does to the cursor.
LEMMA MoveOnFields ==
    ASSUME NEW c \in Cursors, NEW r \in Records
    PROVE  /\ MoveOn(c, r) \in Cursors
           /\ MoveOn(c, r).time = r.time
           /\ MoveOn(c, r).counts = IF Level(c, r) THEN c.counts ELSE None
           /\ MoveOn(c, r).replay = None
           /\ MoveOn(c, r).uncertain <=> (Level(c, r) /\ c.uncertain)
           /\ MoveOn(c, r).limited <=> c.limited
           /\ MoveOn(c, r).failClosed <=> c.failClosed
           /\ MoveOn(c, r).inKey <=> c.inKey
  <1>1. r.time \in Nat
    BY LogAssumption
  <1> QED BY <1>1, NoneType DEF MoveOn, Cursors, Level

\* What one more delivered line does to the cursor.
LEMMA CountFields ==
    ASSUME NEW c \in Cursors, NEW r \in Records
    PROVE  /\ Count(c, r) \in Cursors
           /\ Count(c, r).time = c.time /\ Count(c, r).replay = c.replay
           /\ Room(c, r) => Count(c, r).counts = [c.counts EXCEPT ![r] = @ + 1]
           /\ Room(c, r) => (Count(c, r).uncertain <=> c.uncertain)
           /\ Room(c, r) => (Count(c, r).limited <=> c.limited)
           /\ ~Room(c, r) => Count(c, r).counts = c.counts
           /\ ~Room(c, r) => Count(c, r).uncertain /\ Count(c, r).limited
           /\ Count(c, r).failClosed <=> c.failClosed
           /\ Count(c, r).inKey <=> c.inKey
  <1> DEFINE more == [c.counts EXCEPT ![r] = @ + 1]
  <1>1. more \in [Records -> Nat]
    BY DEF Cursors
  <1>2. Count(c, r) = IF Room(c, r) THEN [c EXCEPT !.counts = more]
                      ELSE [c EXCEPT !.uncertain = TRUE, !.limited = TRUE]
    BY DEF Count, Room
  <1> HIDE DEF more
  <1>3. CASE Room(c, r)
    <2>1. /\ Count(c, r) \in Cursors
          /\ Count(c, r).time = c.time /\ Count(c, r).replay = c.replay
          /\ Count(c, r).counts = more
          /\ Count(c, r).uncertain <=> c.uncertain
          /\ Count(c, r).limited <=> c.limited
          /\ Count(c, r).failClosed <=> c.failClosed
          /\ Count(c, r).inKey <=> c.inKey
      BY <1>1, <1>2, <1>3 DEF Cursors
    <2> QED BY <2>1, <1>3 DEF more
  <1>4. CASE ~Room(c, r)
    <2>1. /\ Count(c, r) \in Cursors
          /\ Count(c, r).time = c.time /\ Count(c, r).replay = c.replay
          /\ Count(c, r).counts = c.counts
          /\ Count(c, r).uncertain /\ Count(c, r).limited
          /\ Count(c, r).failClosed <=> c.failClosed
          /\ Count(c, r).inKey <=> c.inKey
      BY <1>2, <1>4 DEF Cursors
    <2> QED BY <2>1, <1>4
  <1> QED BY <1>3, <1>4

\* What a delivered line does to the cursor, by how its second compares.
LEMMA AdvanceFields ==
    ASSUME NEW c \in Cursors, NEW r \in Records
    PROVE  /\ Advance(c, r) \in Cursors
           /\ Advance(c, r).failClosed <=> c.failClosed
           /\ Advance(c, r).inKey <=> c.inKey
           /\ Second(r.time) < Second(c.time) => Advance(c, r) = c
           /\ Second(r.time) >= Second(c.time) =>
                  Advance(c, r).time = IF r.time > c.time THEN r.time ELSE c.time
           /\ Second(r.time) > Second(c.time) =>
                  /\ Advance(c, r).counts = [None EXCEPT ![r] = 1]
                  /\ Advance(c, r).replay = None
                  /\ ~Advance(c, r).uncertain
                  /\ Advance(c, r).limited <=> c.limited
           /\ Level(c, r) =>
                  Advance(c, r).replay = IF r.time > c.time THEN None ELSE c.replay
           /\ Level(c, r) /\ Room(c, r) =>
                  /\ Advance(c, r).counts = [c.counts EXCEPT ![r] = @ + 1]
                  /\ Advance(c, r).uncertain <=> c.uncertain
                  /\ Advance(c, r).limited <=> c.limited
           /\ Level(c, r) /\ ~Room(c, r) =>
                  /\ Advance(c, r).counts = c.counts
                  /\ Advance(c, r).uncertain /\ Advance(c, r).limited
  <1> DEFINE s == Second(r.time)
             t == Second(c.time)
             base == IF r.time > c.time THEN MoveOn(c, r) ELSE c
  <1>1. r.time \in Nat /\ c.time \in Nat
    BY LogAssumption DEF Cursors
  <1>2. s \in Nat /\ t \in Nat
    BY <1>1, SecondType
  <1>3. s > t => r.time > c.time
    BY <1>1, <1>2, SecondMonotone
  <1>4. base \in Cursors
    BY MoveOnFields
  <1>5. Advance(c, r) = IF s < t THEN c ELSE Count(base, r)
    BY DEF Advance
  <1>6. CASE s < t
    BY <1>2, <1>5, <1>6 DEF Level
  <1>7. CASE s > t
    <2>1. base = MoveOn(c, r)
      BY <1>3, <1>7
    <2>2. ~Level(c, r)
      BY <1>2, <1>7 DEF Level
    <2>3. /\ base.time = r.time /\ base.replay = None /\ base.counts = None
          /\ ~base.uncertain
          /\ base.limited <=> c.limited
          /\ base.failClosed <=> c.failClosed
          /\ base.inKey <=> c.inKey
      BY <2>1, <2>2, MoveOnFields
    <2> HIDE DEF base
    <2>4. {k \in Records : base.counts[k] > 0} = {} /\ base.counts[r] = 0
      BY <2>3 DEF None
    <2>5. Room(base, r)
      <3>1. Cardinality({k \in Records : base.counts[k] > 0}) = 0
        BY <2>4, FS_EmptySet
      <3> QED BY <3>1, LogAssumption DEF Room
    <2>6. [None EXCEPT ![r] = @ + 1] = [None EXCEPT ![r] = 1]
      BY DEF None
    <2>7. /\ Count(base, r) \in Cursors
          /\ Count(base, r).counts = [base.counts EXCEPT ![r] = @ + 1]
          /\ Count(base, r).time = base.time /\ Count(base, r).replay = base.replay
          /\ Count(base, r).uncertain <=> base.uncertain
          /\ Count(base, r).limited <=> base.limited
          /\ Count(base, r).failClosed <=> base.failClosed
          /\ Count(base, r).inKey <=> base.inKey
      BY <2>5, <1>4, CountFields
    <2>8. Advance(c, r) = Count(base, r)
      BY <1>5, <1>7, <1>2
    <2> QED BY <1>7, <1>2, <1>3, <2>2, <2>3, <2>6, <2>7, <2>8
  <1>8. CASE s = t
    <2>1. /\ base.counts = c.counts
          /\ base.uncertain <=> c.uncertain
          /\ base.limited <=> c.limited
          /\ base.failClosed <=> c.failClosed
          /\ base.inKey <=> c.inKey
          /\ base.time = IF r.time > c.time THEN r.time ELSE c.time
          /\ base.replay = IF r.time > c.time THEN None ELSE c.replay
      <3>1. CASE r.time > c.time
        BY <3>1, <1>8, MoveOnFields DEF Cursors, Level
      <3>2. CASE ~(r.time > c.time)
        BY <3>2
      <3> QED BY <3>1, <3>2
    <2>2. Room(base, r) = Room(c, r)
      BY <2>1 DEF Room
    <2> HIDE DEF base
    <2>3. Count(base, r) = Advance(c, r)
      BY <1>5, <1>8, <1>2
    <2>4. /\ Count(base, r) \in Cursors
          /\ Count(base, r).time = base.time /\ Count(base, r).replay = base.replay
          /\ Count(base, r).failClosed <=> base.failClosed
          /\ Count(base, r).inKey <=> base.inKey
      BY <1>4, CountFields
    <2>5. ASSUME Room(base, r)
          PROVE  /\ Count(base, r).counts = [base.counts EXCEPT ![r] = @ + 1]
                 /\ Count(base, r).uncertain <=> base.uncertain
                 /\ Count(base, r).limited <=> base.limited
      BY <2>5, <1>4, CountFields
    <2>6. ASSUME ~Room(base, r)
          PROVE  /\ Count(base, r).counts = base.counts
                 /\ Count(base, r).uncertain /\ Count(base, r).limited
      BY <2>6, <1>4, CountFields
    <2> QED BY <1>2, <1>8, <2>1, <2>2, <2>3, <2>4, <2>5, <2>6
  <1> QED BY <1>2, <1>6, <1>7, <1>8

\* What a repeated line does to the cursor.
LEMMA ReplayedFields ==
    ASSUME NEW c \in Cursors, NEW r \in Records, c.replay[r] > 0,
           NEW d, d = [c EXCEPT !.replay[r] = @ - 1]
    PROVE  /\ d \in Cursors
           /\ d.time = c.time /\ d.counts = c.counts
           /\ d.replay = [c.replay EXCEPT ![r] = @ - 1]
           /\ d.uncertain <=> c.uncertain
           /\ d.limited <=> c.limited
           /\ d.failClosed <=> c.failClosed
           /\ d.inKey <=> c.inKey
  <1> DEFINE less == [c.replay EXCEPT ![r] = @ - 1]
  <1>1. less \in [Records -> Nat]
    <2>1. c.replay \in [Records -> Nat] /\ c.replay[r] - 1 \in Nat
      BY DEF Cursors
    <2> QED BY <2>1
  <1>2. d = [c EXCEPT !.replay = less]
    BY DEF Cursors
  <1> HIDE DEF less
  <1>3. /\ d \in Cursors
        /\ d.time = c.time /\ d.counts = c.counts
        /\ d.replay = less
        /\ d.uncertain <=> c.uncertain
        /\ d.limited <=> c.limited
        /\ d.failClosed <=> c.failClosed
        /\ d.inKey <=> c.inKey
    BY <1>1, <1>2 DEF Cursors
  <1> QED BY <1>3 DEF less

\* What a cancelled send does to the cursor.
LEMMA ClosedFields ==
    ASSUME NEW c \in Cursors, NEW m \in BOOLEAN,
           NEW d, d = [c EXCEPT !.failClosed = @ \/ m]
    PROVE  /\ d \in Cursors
           /\ d.time = c.time /\ d.counts = c.counts /\ d.replay = c.replay
           /\ d.uncertain <=> c.uncertain
           /\ d.limited <=> c.limited
           /\ d.failClosed <=> (c.failClosed \/ m)
           /\ d.inKey <=> c.inKey
BY DEF Cursors

\* What the marker does to the cursor.
LEMMA AnnouncedFields ==
    ASSUME NEW c \in Cursors, NEW d, d = [c EXCEPT !.limited = FALSE]
    PROVE  /\ d \in Cursors
           /\ d.time = c.time /\ d.counts = c.counts /\ d.replay = c.replay
           /\ d.uncertain <=> c.uncertain
           /\ d.failClosed <=> c.failClosed
           /\ d.inKey <=> c.inKey
BY DEF Cursors

\* What reading on does to the stream.
LEMMA StreamFields ==
    ASSUME NEW s \in Streams, NEW a \in Nat \ {0}
    PROVE  /\ [s EXCEPT !.at = a] \in Streams
           /\ [s EXCEPT !.at = a].at = a
           /\ [s EXCEPT !.at = a].upto = s.upto
           /\ [s EXCEPT !.at = a].since = s.since
           /\ [s EXCEPT !.at = a].shut = s.shut
BY DEF Streams

\* A worker without a stream.
LEMMA NoStreamFields ==
    /\ NoStream \in Streams /\ NoStream.at = 1 /\ NoStream.upto = 0
    /\ NoStream.since = 0 /\ NoStream.shut = "error"
BY DEF NoStream, Streams

\* The records of the log, and the first one that the stream still holds.
LEMMA LogRecords ==
    ASSUME TypeOK, NEW p \in 1..Len(log)
    PROVE  log[p] \in Records /\ log[p].time \in Nat \ {0} /\ log[p].text \in Texts
  <1>1. log[p] \in Records
    BY DEF TypeOK
  <1> QED BY <1>1, LogAssumption

\* The first line that the stream still holds; it dropped those of earlier seconds.
LEMMA NextToRead ==
    ASSUME TypeOK, Bounds, Available # {}
    PROVE  /\ Min(Available) \in conn.at..Len(log)
           /\ Min(Available) \in 1..Len(log)
           /\ conn.shut # "open" => Min(Available) <= conn.upto
           /\ Sec(Min(Available)) >= Second(conn.since)
           /\ \A p \in conn.at..(Min(Available) - 1) : Sec(p) < Second(conn.since)
  <1>1. conn.at \in Nat \ {0} /\ conn.upto \in Nat /\ conn.since \in Nat
    BY DEF TypeOK, Streams
  <1>2. Len(log) \in Nat
    BY DEF TypeOK
  <1>3. Available \subseteq conn.at..Len(log) /\ Available \in SUBSET Nat
    BY <1>1, <1>2 DEF Available, Bounds
  <1>4. Min(Available) \in Available /\ \A y \in Available : Min(Available) <= y
    BY <1>3, MinMember
  <1> DEFINE i == Min(Available)
  <1>5. i \in conn.at..Len(log) /\ i \in 1..Len(log) /\ i \in Nat
    <2>1. i \in conn.at..Len(log)
      BY <1>3, <1>4
    <2> HIDE DEF i
    <2> QED BY <2>1, <1>1, <1>2
  <1>6. Sec(i) >= Second(conn.since) /\ (conn.shut # "open" => i <= conn.upto)
    BY <1>4 DEF Available, Sec
  <1>7. ASSUME NEW p \in conn.at..(i - 1) PROVE Sec(p) < Second(conn.since)
    <2>1. p \in 1..Len(log) /\ p \in Nat /\ p < i
      BY <1>1, <1>2, <1>5, <1>7
    <2>2. p \notin Available
      BY <2>1, <1>4, <1>5
    <2>3. p \in conn.at..(IF conn.shut = "open" THEN Len(log) ELSE conn.upto)
      BY <2>1, <1>1, <1>2, <1>5, <1>6, <1>7
    <2>4. ~(Second(log[p].time) >= Second(conn.since))
      BY <2>2, <2>3 DEF Available
    <2>5. Second(log[p].time) \in Nat /\ Second(conn.since) \in Nat
      BY <2>1, <1>1, LogRecords, SecondType
    <2> QED BY <2>4, <2>5 DEF Sec
  <1> HIDE DEF i
  <1> QED BY <1>5, <1>6, <1>7 DEF i

\* What the channel has taken, when it takes nothing, a marker or a record.
LEMMA PlacesFacts ==
    ASSUME TypeOK, Bounds
    PROVE  /\ Deliveries \in SUBSET (1..Len(out)) /\ Deliveries \in SUBSET Nat
           /\ Places \in SUBSET (1..Len(log)) /\ Places \in SUBSET Nat
           /\ Places = {} <=> Deliveries = {}
           /\ Places # {} => First \in Places
           /\ Len(out) \in Nat /\ Len(log) \in Nat
  <1>1. out \in Seq(Items) /\ Len(out) \in Nat /\ Len(log) \in Nat /\ DOMAIN out = 1..Len(out)
    BY DEF TypeOK
  <1>2. Deliveries \in SUBSET (1..Len(out)) /\ Deliveries \in SUBSET Nat
    BY <1>1 DEF Deliveries
  <1>3. Places \in SUBSET (1..Len(log)) /\ Places \in SUBSET Nat
    BY <1>1 DEF Places, Bounds
  <1>4. Places # {} => First \in Places
    <2>1. Deliveries # {} => Min(Deliveries) \in Deliveries
      BY <1>2, MinMember
    <2> QED BY <2>1 DEF Places, First
  <1> QED BY <1>1, <1>2, <1>3, <1>4 DEF Places

\* The channel took nothing.
LEMMA TookNothing ==
    ASSUME out' = out
    PROVE  /\ Deliveries' = Deliveries /\ Places' = Places
           /\ Places # {} => First' = First
BY DEF Deliveries, Places, First

\* The channel took a marker.
LEMMA TookMarker ==
    ASSUME TypeOK, Bounds, NEW item \in Items, item.kind # "record", out' = Append(out, item)
    PROVE  /\ Deliveries' = Deliveries /\ Places' = Places
           /\ Places # {} => First' = First
           /\ \A i \in 1..Len(out) : out'[i] = out[i]
           /\ Len(out') = Len(out) + 1 /\ out'[Len(out) + 1] = item
           /\ out' \in Seq(Items)
  <1>1. /\ out \in Seq(Items) /\ Len(out) \in Nat
        /\ DOMAIN out = 1..Len(out) /\ DOMAIN out' = 1..(Len(out) + 1)
        /\ \A i \in 1..Len(out) : out'[i] = out[i]
        /\ Len(out') = Len(out) + 1 /\ out'[Len(out) + 1] = item
        /\ out' \in Seq(Items)
    BY DEF TypeOK
  <1>2. Deliveries' = Deliveries
    <2>1. ASSUME NEW i \in 1..(Len(out) + 1), out'[i].kind = "record"
          PROVE  i \in 1..Len(out)
      BY <1>1, <2>1
    <2> QED BY <1>1, <2>1 DEF Deliveries
  <1>3. Deliveries \in SUBSET (1..Len(out)) /\ (Deliveries # {} => Min(Deliveries) \in Deliveries)
    BY PlacesFacts, MinMember
  <1>4. Places' = Places
    BY <1>1, <1>2, <1>3 DEF Places
  <1>5. Places # {} => First' = First
    <2>1. Places # {} => Deliveries # {}
      BY DEF Places
    <2> QED BY <1>1, <1>2, <1>3, <2>1 DEF First
  <1> QED BY <1>1, <1>2, <1>4, <1>5

\* The channel took a record.
LEMMA TookRecord ==
    ASSUME TypeOK, Bounds, NEW h \in Nat, NEW m \in BOOLEAN,
           out' = Append(out, Item("record", h, m))
    PROVE  /\ Deliveries' = Deliveries \cup {Len(out) + 1} /\ Places' = Places \cup {h}
           /\ First' = IF Places = {} THEN h ELSE First
           /\ \A i \in 1..Len(out) : out'[i] = out[i]
           /\ Len(out') = Len(out) + 1
           /\ out'[Len(out) + 1].pos = h /\ out'[Len(out) + 1].masked = m
           /\ out'[Len(out) + 1].kind = "record"
           /\ out' \in Seq(Items)
  <1> DEFINE item == Item("record", h, m)
  <1>1. item \in Items /\ item.kind = "record" /\ item.pos = h /\ item.masked = m
    BY DEF Item, Items
  <1> HIDE DEF item
  <1>2. /\ out \in Seq(Items) /\ Len(out) \in Nat
        /\ DOMAIN out = 1..Len(out) /\ DOMAIN out' = 1..(Len(out) + 1)
        /\ \A i \in 1..Len(out) : out'[i] = out[i]
        /\ Len(out') = Len(out) + 1 /\ out'[Len(out) + 1] = item
        /\ out' \in Seq(Items)
    BY <1>1 DEF TypeOK, item
  <1>3. Deliveries' = Deliveries \cup {Len(out) + 1}
    BY <1>1, <1>2 DEF Deliveries
  <1>4. Deliveries \in SUBSET (1..Len(out))
    BY PlacesFacts
  <1>5. Places' = Places \cup {h}
    <2>1. Places' = {out'[i].pos : i \in Deliveries'}
      BY DEF Places
    <2>2. ASSUME NEW i \in Deliveries PROVE out'[i].pos = out[i].pos
      BY <1>2, <1>4
    <2> QED BY <1>1, <1>2, <1>3, <2>1, <2>2 DEF Places
  <1>6. Deliveries' \in SUBSET Nat /\ Deliveries' # {}
    <2>1. Len(out) + 1 \in Nat /\ Deliveries \in SUBSET Nat
      BY <1>2, PlacesFacts
    <2> QED BY <2>1, <1>3
  <1> DEFINE k == Min(Deliveries')
  <1>7. k \in Deliveries' /\ \A y \in Deliveries' : k <= y
    BY <1>6, MinMember
  <1>8. First' = out'[k].pos
    BY DEF First
  <1>9. CASE Places = {}
    <2>1. Deliveries = {}
      BY <1>9 DEF Places
    <2>2. k = Len(out) + 1
      BY <1>3, <1>7, <2>1
    <2> QED BY <1>1, <1>2, <1>3, <1>5, <1>8, <1>9, <2>2
  <1>10. CASE Places # {}
    <2>1. Deliveries # {} /\ Deliveries \in SUBSET Nat
      BY <1>2, <1>4, <1>10 DEF Places
    <2> DEFINE l == Min(Deliveries)
    <2>2. l \in Deliveries /\ \A y \in Deliveries : l <= y
      BY <2>1, MinMember
    <2>3. First = out[l].pos
      BY DEF First
    <2> HIDE DEF k, l
    <2>4. l \in 1..Len(out) /\ l \in Nat /\ k \in Nat
      <3>1. l \in 1..Len(out)
        BY <1>4, <2>2
      <3>2. k \in Nat
        BY <1>6, <1>7
      <3> QED BY <3>1, <3>2
    <2>5. k <= l
      BY <1>3, <1>7, <2>2
    <2>6. k # Len(out) + 1
      BY <1>2, <2>4, <2>5
    <2>7. k \in Deliveries
      BY <1>3, <1>7, <2>6
    <2>8. k = l
      BY <2>2, <2>4, <2>5, <2>7
    <2>9. First' = First
      BY <1>2, <1>8, <2>3, <2>4, <2>8
    <2> QED BY <1>1, <1>2, <1>3, <1>5, <1>10, <2>9
  <1> QED BY <1>9, <1>10

\* Base holds at first.
LEMMA BaseInit == Init => Base
  <1> SUFFICES ASSUME Init PROVE Base
    OBVIOUS
  <1>1. TypeOK
    BY InitType
  <1>2. Deliveries = {} /\ Len(log) = 0
    BY DEF Init, Deliveries
  <1>3. Bounds
    BY <1>2, NoStreamFields DEF Init, Bounds
  <1>4. Ending
    BY <1>2, NoStreamFields DEF Init, Ending
  <1> QED BY <1>1, <1>3, <1>4 DEF Base

\* A line written to the log moves no other.
LEMMA LogGrows ==
    ASSUME TypeOK, NEW r \in Records, log' = Append(log, r)
    PROVE  /\ log' \in Seq(Records) /\ Len(log') = Len(log) + 1
           /\ \A p \in 1..Len(log) : log'[p] = log[p] /\ Sec(p)' = Sec(p)
  <1>1. /\ log' \in Seq(Records) /\ Len(log') = Len(log) + 1
        /\ \A p \in 1..Len(log) : log'[p] = log[p]
    BY DEF TypeOK
  <1> QED BY <1>1 DEF Sec

\* The container, the server and the owner preserve Base.
LEMMA BaseServer ==
    ASSUME Base,
           \/ \E r \in Records : WriteLine(r)
           \/ ContainerEnds \/ StreamFails \/ StreamBreaks \/ StreamCompletes
           \/ StoreTerminal \/ Cancel
    PROVE  Base'
  <1>1. TypeOK /\ Bounds /\ Ending
    BY DEF Base
  <1>2. /\ conn \in Streams /\ conn.at \in Nat \ {0} /\ conn.upto \in Nat /\ conn.since \in Nat
        /\ Len(log) \in Nat
    BY <1>1 DEF TypeOK, Streams
  <1>3. ASSUME NEW r \in Records, WriteLine(r) PROVE Base'
    <2>1. /\ log' \in Seq(Records) /\ Len(log') = Len(log) + 1
          /\ \A p \in 1..Len(log) : log'[p] = log[p] /\ Sec(p)' = Sec(p)
      BY <1>1, <1>3, LogGrows DEF WriteLine
    <2>2. TypeOK'
      BY <1>1, <1>3, <2>1 DEF TypeOK, WriteLine, workerVars
    <2>3. Deliveries' = Deliveries
      BY <1>3 DEF WriteLine, Deliveries
    <2>4. Bounds'
      BY <1>1, <1>2, <1>3, <2>1, <2>3 DEF Bounds, WriteLine, workerVars
    <2>5. Ending'
      BY <1>1, <1>3 DEF Ending, WriteLine, workerVars
    <2> QED BY <2>2, <2>4, <2>5 DEF Base
  <1>4. ASSUME ContainerEnds \/ StoreTerminal \/ Cancel PROVE Base'
    <2>1. UNCHANGED <<log, conn, cursor, pc, held, failures, outcome, restarts, out>>
      BY <1>4 DEF ContainerEnds, StoreTerminal, Cancel, workerVars, serverVars
    <2>2. ended' \in BOOLEAN /\ terminal' \in BOOLEAN /\ cancelled' \in BOOLEAN
          /\ (ended => ended')
      BY <1>1, <1>4 DEF ContainerEnds, StoreTerminal, Cancel, serverVars, TypeOK
    <2>3. TypeOK'
      BY <1>1, <2>1, <2>2 DEF TypeOK
    <2>4. Bounds'
      BY <1>1, <2>1 DEF Bounds, Deliveries
    <2>5. Ending'
      BY <1>1, <2>1, <2>2 DEF Ending, Sec
    <2> QED BY <2>3, <2>4, <2>5 DEF Base
  <1>5. ASSUME StreamFails \/ StreamBreaks \/ StreamCompletes PROVE Base'
    <2>1. PICK h \in {"error", "broken", "complete"} :
              \E upto \in Nat : /\ upto <= Len(log) /\ Streaming /\ Shut(h, upto)
                                /\ h = "complete" => ended /\ upto = Len(log)
      <3>1. \A upto \in (conn.at - 1)..Len(log) : upto \in Nat /\ upto <= Len(log)
        BY <1>2
      <3> QED BY <1>2, <1>5, <3>1 DEF StreamFails, StreamBreaks, StreamCompletes
    <2>2. PICK upto \in Nat : /\ upto <= Len(log) /\ Streaming /\ Shut(h, upto)
                              /\ h = "complete" => ended /\ upto = Len(log)
      BY <2>1
    <2>3. /\ conn' \in Streams /\ conn'.at = conn.at /\ conn'.since = conn.since
          /\ conn'.upto = upto /\ conn'.shut = h
      <3>1. conn' = [conn EXCEPT !.shut = h, !.upto = upto]
        BY <2>2 DEF Shut
      <3>2. h \in {"open", "error", "broken", "complete"} /\ conn \in Streams
        BY <1>2
      <3> QED BY <3>1, <3>2 DEF Streams
    <2>4. UNCHANGED <<log, ended, terminal, cancelled, cursor, pc, held, failures,
                      outcome, restarts, out>>
      BY <2>2 DEF Shut, serverVars, workerVars
    <2>5. TypeOK'
      BY <1>1, <2>3, <2>4 DEF TypeOK
    <2>6. Bounds'
      BY <1>1, <2>2, <2>3, <2>4 DEF Bounds, Deliveries
    <2>7. Ending'
      <3>1. pc # "settle" /\ outcome # "completed"
        BY <1>1, <2>2 DEF Streaming, Ending
      <3> QED BY <2>2, <2>3, <2>4, <3>1 DEF Ending
    <2> QED BY <2>5, <2>6, <2>7 DEF Base
  <1> QED BY <1>3, <1>4, <1>5

\* The worker's steps that read nothing and deliver nothing.
LEMMA BaseMoves ==
    ASSUME Base,
           \/ Quit \/ OpenFails \/ OpenDenied \/ ReadEnds \/ Complete \/ Exhausted
           \/ TryAgain \/ SkipMarker \/ RetryTimer \/ SendCancelled
    PROVE  Base'
  <1>1. TypeOK /\ Bounds /\ Ending
    BY DEF Base
  <1>2. conn \in Streams /\ cursor \in Cursors /\ held.masked \in BOOLEAN /\ failures \in Nat
    BY <1>1 DEF TypeOK
  <1>3. log' = log /\ ended' = ended /\ out' = out /\ (conn' = conn \/ conn' = NoStream)
    BY DEF Quit, OpenFails, OpenDenied, ReadEnds, Complete, Exhausted, TryAgain,
           SkipMarker, RetryTimer, SendCancelled, Finish, serverVars, workerVars
  <1>4. cursor' \in Cursors
    <2>1. CASE SendCancelled
      BY <1>2, <2>1, ClosedFields DEF SendCancelled
    <2>2. CASE OpenFails \/ OpenDenied
      BY <1>2, <2>2, ReconnectFields DEF OpenFails, OpenDenied
    <2>3. CASE ~SendCancelled /\ ~OpenFails /\ ~OpenDenied
      BY <1>2, <2>3 DEF Quit, ReadEnds, Complete, Exhausted, TryAgain, SkipMarker, RetryTimer
    <2> QED BY <2>1, <2>2, <2>3
  <1>5. FailuresNow \in Nat
    <2>1. RetryCount \in Nat /\ failures + 1 \in Nat
      BY <1>2, LogAssumption
    <2>2. {failures + 1, RetryCount} \in SUBSET Nat /\ {failures + 1, RetryCount} # {}
      BY <2>1
    <2>3. Min({failures + 1, RetryCount}) \in Nat
      BY <2>2, MinMember
    <2> QED BY <2>3 DEF FailuresNow
  <1>6. /\ terminal' = terminal /\ restarts' = restarts
        /\ cancelled' = cancelled
        /\ pc' \in {"open", "settle", "marker", "wait", "done"}
        /\ held' \in {held, Nothing}
        /\ failures' \in {failures, FailuresNow}
        /\ outcome' \in {outcome, "canceled", "denied", "completed", "exhausted"}
        /\ outcome' = "completed" => pc' = "done"
    BY <1>1 DEF Quit, OpenFails, OpenDenied, ReadEnds, Complete, Exhausted, TryAgain,
           SkipMarker, RetryTimer, SendCancelled, Finish, serverVars, workerVars, Ending
  <1>7. TypeOK'
    <2>1. Nothing \in [pos : Nat, masked : BOOLEAN]
      BY DEF Nothing
    <2>2. conn' \in Streams
      BY <1>2, <1>3, NoStreamFields
    <2> QED BY <1>1, <1>3, <1>4, <1>5, <1>6, <2>1, <2>2 DEF TypeOK
  <1>8. Bounds'
    <2>1. Len(log) \in Nat
      BY <1>1 DEF TypeOK
    <2> QED BY <1>1, <1>3, <1>6, <2>1, NoStreamFields DEF Bounds, Deliveries
  <1>9. Ending'
    <2>1. conn'.shut = "complete" => conn' = conn
      BY <1>3, NoStreamFields
    <2>2. ASSUME pc' = "settle" \/ outcome' = "completed", conn'.shut = "complete"
          PROVE  \A p \in conn.at..Len(log) : Sec(p) < Second(conn.since)
      <3>1. CASE pc = "settle" \/ outcome = "completed"
        BY <1>1, <2>1, <2>2, <3>1 DEF Ending
      <3>2. CASE ReadEnds
        <4>1. Available = {} /\ conn.shut = "complete" /\ conn.upto = Len(log)
          BY <1>1, <2>1, <2>2, <3>2 DEF ReadEnds, Ending
        <4>2. ASSUME NEW p \in conn.at..Len(log) PROVE Sec(p) < Second(conn.since)
          <5>1. ~(Second(log[p].time) >= Second(conn.since))
            BY <4>1 DEF Available
          <5>2. p \in 1..Len(log) /\ conn.since \in Nat
            BY <1>1, <1>2 DEF TypeOK, Streams
          <5>3. Second(log[p].time) \in Nat /\ Second(conn.since) \in Nat
            BY <1>1, <5>2, LogRecords, SecondType
          <5> QED BY <5>1, <5>3 DEF Sec
        <4> QED BY <4>2
      <3>3. pc = "settle" \/ outcome = "completed" \/ ReadEnds
        BY <1>1, <2>1, <2>2, NoStreamFields
           DEF Quit, OpenFails, OpenDenied, Complete, Exhausted, TryAgain,
               SkipMarker, RetryTimer, SendCancelled, Finish, workerVars, Ending
      <3> QED BY <3>1, <3>2, <3>3
    <2> QED BY <1>1, <1>3, <1>6, <2>1, <2>2 DEF Ending, Sec
  <1> QED BY <1>7, <1>8, <1>9 DEF Base

\* Opening a stream preserves Base.
LEMMA BaseOpen == ASSUME Base, OpenStream PROVE Base'
  <1>1. TypeOK /\ Bounds /\ Ending /\ cursor \in Cursors /\ Len(log) \in Nat
    BY DEF Base, TypeOK
  <1> DEFINE tail == Max({1, Len(log) - TailLines + 1})
  <1>2. tail \in Nat \ {0} /\ tail <= Len(log) + 1
    <2>1. Len(log) - TailLines + 1 \in Int /\ TailLines \in Nat \ {0}
      BY <1>1, LogAssumption
    <2>2. tail \in {1, Len(log) - TailLines + 1} /\ tail >= 1
      BY <2>1, MaxOfOne
    <2> HIDE DEF tail
    <2> QED BY <1>1, <2>1, <2>2
  <1>3. conn' = [at |-> IF cursor.time # 0 THEN 1 ELSE tail, upto |-> 0,
                 since |-> cursor.time, follow |-> ~terminal, shut |-> "open"]
    BY DEF OpenStream
  <1> HIDE DEF tail
  <1>4. /\ conn' \in Streams /\ conn'.at <= Len(log) + 1 /\ conn'.upto = 0
        /\ conn'.shut = "open"
    BY <1>1, <1>2, <1>3 DEF Streams, Cursors
  <1>5. cursor' \in Cursors
    BY <1>1, ReconnectFields DEF OpenStream
  <1>6. UNCHANGED <<log, ended, terminal, cancelled, held, failures, outcome,
                    restarts, out>> /\ pc' = "read"
    BY DEF OpenStream, serverVars, workerVars
  <1>7. TypeOK'
    BY <1>1, <1>4, <1>5, <1>6 DEF TypeOK
  <1>8. Bounds'
    BY <1>1, <1>4, <1>6 DEF Bounds, Deliveries
  <1>9. Ending'
    <2>1. outcome # "completed"
      BY <1>1 DEF OpenStream, Ending
    <2> QED BY <1>4, <1>6, <2>1 DEF Ending
  <1> QED BY <1>7, <1>8, <1>9 DEF Base

\* Reading a line preserves Base and moves the stream past the line.
LEMMA BaseReads ==
    ASSUME Base, ReadReplayed \/ ReadRecord
    PROVE  /\ Base'
           /\ conn'.at = Min(Available) + 1 /\ conn'.since = conn.since
           /\ conn'.shut = conn.shut
           /\ UNCHANGED <<log, ended, outcome, out>>
  <1>1. TypeOK /\ Bounds /\ Ending /\ cursor \in Cursors /\ Len(log) \in Nat
        /\ conn \in Streams /\ Available # {} /\ pc = "read"
    BY DEF Base, TypeOK, ReadReplayed, ReadRecord
  <1> DEFINE i == Min(Available)
  <1>2. i \in 1..Len(log) /\ i \in Nat /\ i + 1 \in Nat \ {0}
    BY <1>1, NextToRead
  <1>3. conn' = [conn EXCEPT !.at = i + 1]
    BY DEF ReadReplayed, ReadRecord
  <1>4. /\ conn' \in Streams /\ conn'.at = i + 1 /\ conn'.upto = conn.upto
        /\ conn'.since = conn.since /\ conn'.shut = conn.shut
    BY <1>1, <1>2, <1>3, StreamFields
  <1>5. log[i] \in Records
    BY <1>1, <1>2, LogRecords
  <1>6. cursor' \in Cursors
    <2>1. CASE ReadReplayed
      BY <1>1, <1>5, <2>1, ReplayedFields DEF ReadReplayed, Replayed
    <2>2. CASE ReadRecord
      BY <1>1, <1>5, <2>2, TrackFields DEF ReadRecord
    <2> QED BY <2>1, <2>2
  <1>7. UNCHANGED <<log, ended, terminal, cancelled, failures, outcome, restarts, out>>
    BY DEF ReadReplayed, ReadRecord, serverVars, workerVars
  <1>8. /\ pc' \in {"read", "send"} /\ held' \in [pos : Nat, masked : BOOLEAN]
        /\ pc' = "send" => held'.pos = i
    <2>1. CASE ReadReplayed
      BY <1>1, <2>1 DEF ReadReplayed, workerVars, TypeOK
    <2>2. CASE ReadRecord
      <3>1. Masked(cursor, log[i]) \in BOOLEAN
        BY <1>1, <1>5, TrackFields DEF Masked, Cursors
      <3> QED BY <1>2, <2>2, <3>1 DEF ReadRecord
    <2> QED BY <2>1, <2>2
  <1> HIDE DEF i
  <1>9. TypeOK'
    BY <1>1, <1>4, <1>6, <1>7, <1>8 DEF TypeOK
  <1>10. Bounds'
    <2>1. (i + 1) - 1 = i /\ i + 1 <= Len(log) + 1
      BY <1>1, <1>2
    <2> QED BY <1>1, <1>2, <1>4, <1>7, <1>8, <2>1 DEF Bounds, Deliveries
  <1>11. Ending'
    BY <1>1, <1>4, <1>7, <1>8 DEF Ending
  <1> QED BY <1>4, <1>7, <1>9, <1>10, <1>11 DEF Base, i

\* Delivering a line preserves Base and advances the cursor by the line.
LEMMA BaseDeliver ==
    ASSUME Base, Deliver
    PROVE  /\ Base' /\ cursor' = Advance(cursor, log[held.pos])
           /\ out' = Append(out, Item("record", held.pos, held.masked))
           /\ held.pos \in 1..Len(log) /\ log[held.pos] \in Records
           /\ held.pos = conn.at - 1 /\ held.masked \in BOOLEAN
           /\ pc = "send" /\ pc' = "read" /\ UNCHANGED <<log, ended, conn, outcome>>
  <1>1. TypeOK /\ Bounds /\ Ending /\ cursor \in Cursors /\ Len(log) \in Nat
        /\ pc = "send" /\ held.pos \in 1..Len(log) /\ held.masked \in BOOLEAN
        /\ held.pos = conn.at - 1
    BY DEF Base, TypeOK, Deliver, Bounds
  <1>2. log[held.pos] \in Records
    BY <1>1, LogRecords
  <1>3. cursor' \in Cursors /\ cursor' = Advance(cursor, log[held.pos])
    BY <1>1, <1>2, AdvanceFields DEF Deliver
  <1>4. UNCHANGED <<log, ended, terminal, cancelled, conn, failures, outcome, restarts>>
        /\ pc' = "read" /\ held' = Nothing
        /\ out' = Append(out, Item("record", held.pos, held.masked))
    BY DEF Deliver, serverVars
  <1>5. /\ Deliveries' = Deliveries \cup {Len(out) + 1}
        /\ \A i \in 1..Len(out) : out'[i] = out[i]
        /\ out'[Len(out) + 1].pos = held.pos
        /\ out' \in Seq(Items)
    <2>1. held.pos \in Nat
      BY <1>1
    <2> QED BY <1>1, <1>4, <2>1, TookRecord
  <1>6. TypeOK'
    <2>1. Nothing \in [pos : Nat, masked : BOOLEAN]
      BY DEF Nothing
    <2> QED BY <1>1, <1>3, <1>4, <1>5, <2>1 DEF TypeOK
  <1>7. Bounds'
    <2>1. Deliveries \in SUBSET (1..Len(out))
      BY <1>1, PlacesFacts
    <2> QED BY <1>1, <1>4, <1>5, <2>1 DEF Bounds
  <1>8. Ending'
    BY <1>1, <1>4 DEF Ending
  <1> QED BY <1>1, <1>2, <1>3, <1>4, <1>6, <1>7, <1>8 DEF Base

\* Delivering a marker preserves Base.
LEMMA BaseMarks ==
    ASSUME Base, AnnounceLimit \/ Restart
    PROVE  /\ Base'
           /\ \E item \in Items : item.kind # "record" /\ out' = Append(out, item)
  <1>1. TypeOK /\ Bounds /\ Ending /\ cursor \in Cursors /\ Len(log) \in Nat
    BY DEF Base, TypeOK
  <1>2. PICK item \in Items : item.kind # "record" /\ out' = Append(out, item)
    <2>1. CASE AnnounceLimit
      <3>1. Item("dedup-limit", 0, FALSE) \in Items
            /\ Item("dedup-limit", 0, FALSE).kind # "record"
        BY DEF Item, Items
      <3> QED BY <2>1, <3>1 DEF AnnounceLimit
    <2>2. CASE Restart
      <3>1. Item("source-join", 0, FALSE) \in Items
            /\ Item("source-join", 0, FALSE).kind # "record"
        BY DEF Item, Items
      <3> QED BY <2>2, <3>1 DEF Restart
    <2> QED BY <2>1, <2>2
  <1>3. /\ Deliveries' = Deliveries
        /\ \A i \in 1..Len(out) : out'[i] = out[i]
        /\ out' \in Seq(Items)
    BY <1>1, <1>2, TookMarker
  <1>4. cursor' \in Cursors
    <2>1. CASE AnnounceLimit
      BY <1>1, <2>1, AnnouncedFields DEF AnnounceLimit
    <2>2. CASE Restart
      BY <1>1, <2>2 DEF Restart
    <2> QED BY <2>1, <2>2
  <1>5. /\ UNCHANGED <<log, ended, terminal, conn, held>>
        /\ pc' \in {"open", "marker"} /\ outcome' \in {outcome, "none"}
        /\ cancelled' \in BOOLEAN /\ failures' \in {failures, 0}
        /\ restarts' \in {restarts, restarts + 1}
        /\ outcome' # "completed"
    BY <1>1 DEF AnnounceLimit, Restart, serverVars, workerVars, Ending, TypeOK
  <1>6. TypeOK'
    BY <1>1, <1>3, <1>4, <1>5 DEF TypeOK
  <1>7. Bounds'
    <2>1. Deliveries \in SUBSET (1..Len(out))
      BY <1>1, PlacesFacts
    <2> QED BY <1>1, <1>3, <1>5, <2>1 DEF Bounds
  <1>8. Ending'
    BY <1>1, <1>5 DEF Ending
  <1> QED BY <1>2, <1>6, <1>7, <1>8 DEF Base

\* The log as it was stays: what the steps do to it.
Grows == Len(log') >= Len(log) /\ \A p \in 1..Len(log) : log'[p] = log[p]

\* Whether the first tail began inside a second is settled by the first delivery.
LEMMA CutIsStable ==
    ASSUME Base, Grows, Places # {} => Places' # {} /\ First' = First, Base',
           ~TailCutsSecond'
    PROVE  /\ ~TailCutsSecond
           /\ Places' # {} => \A p \in 1..(First' - 1) : Sec(p)' < Sec(First)'
  <1>1. /\ Places \in SUBSET (1..Len(log)) /\ (Places # {} => First \in Places)
        /\ Places = {} <=> Deliveries = {}
        /\ Len(log) \in Nat
    BY PlacesFacts DEF Base
  <1>2. /\ Places' \in SUBSET (1..Len(log')) /\ (Places' # {} => First' \in Places')
        /\ Places' = {} <=> Deliveries' = {}
        /\ Len(log') \in Nat
    <2>1. TypeOK' /\ Bounds'
      BY DEF Base
    <2>2. out' \in Seq(Items) /\ Len(out') \in Nat /\ Len(log') \in Nat
          /\ DOMAIN out' = 1..Len(out')
      BY <2>1 DEF TypeOK
    <2>3. Deliveries' \in SUBSET Nat
      BY <2>2 DEF Deliveries
    <2>4. Deliveries' # {} => Min(Deliveries') \in Deliveries'
      BY <2>3, MinMember
    <2> QED BY <2>1, <2>2, <2>4 DEF Places, First, Bounds
  <1>3. TailCutsSecond' <=> Places' # {} /\ \E p \in 1..(First' - 1) : Sec(p)' >= Sec(First)'
    BY <1>2 DEF TailCutsSecond, First, Sec
  <1>4. ASSUME Places' # {}, NEW p \in 1..(First' - 1) PROVE Sec(p)' < Sec(First)'
    <2>1. ~(Sec(p)' >= Sec(First)')
      BY <1>3, <1>4
    <2>2. First' \in 1..Len(log') /\ p \in 1..Len(log')
      <3>1. First' \in 1..Len(log') /\ Len(log') \in Nat
        BY <1>2, <1>4
      <3>2. ASSUME NEW l \in Nat, NEW f \in 1..l, NEW x \in 1..(f - 1) PROVE x \in 1..l
        OBVIOUS
      <3> QED BY <3>1, <3>2
    <2>3. log'[First'] \in Records /\ log'[p] \in Records
      BY <2>2 DEF Base, TypeOK
    <2>4. log'[First'].time \in Nat /\ log'[p].time \in Nat
      BY <2>3, LogAssumption
    <2>5. Second(log'[First'].time) \in Nat /\ Second(log'[p].time) \in Nat
      BY <2>4, SecondType
    <2> QED BY <2>1, <2>5 DEF Sec
  <1>5. ~TailCutsSecond
    <2>1. SUFFICES ASSUME TailCutsSecond PROVE FALSE
      OBVIOUS
    <2>2. Places # {} /\ \E p \in 1..(First - 1) : Sec(p) >= Sec(First)
      BY <2>1, <1>1 DEF TailCutsSecond, First, Sec
    <2>3. PICK p \in 1..(First - 1) : Sec(p) >= Sec(First)
      BY <2>2
    <2>4. First \in 1..Len(log) /\ p \in 1..Len(log) /\ First' = First
      <3>1. First \in 1..Len(log) /\ Len(log) \in Nat /\ First' = First
        BY <1>1, <2>2
      <3> QED BY <3>1
    <2>5. Sec(p)' = Sec(p) /\ Sec(First)' = Sec(First)
      BY <2>4 DEF Grows, Sec
    <2> QED BY <1>3, <2>2, <2>3, <2>4, <2>5
  <1> QED BY <1>4, <1>5

\* Before the first line delivered, the log holds earlier seconds only.
LEMMA BeforeTheFirst ==
    ASSUME Base, ~TailCutsSecond, Places # {}
    PROVE  \A p \in 1..(First - 1) : Sec(p) < Sec(First)
  <1>1. /\ Places \in SUBSET (1..Len(log)) /\ First \in Places
        /\ Deliveries # {}
        /\ Len(log) \in Nat
    BY PlacesFacts DEF Base
  <1> SUFFICES ASSUME NEW p \in 1..(First - 1) PROVE Sec(p) < Sec(First)
    OBVIOUS
  <1>2. ~(Sec(p) >= Sec(First))
    BY <1>1 DEF TailCutsSecond, First, Sec
  <1>3. First \in 1..Len(log) /\ p \in 1..Len(log)
    BY <1>1
  <1>4. Second(log[First].time) \in Nat /\ Second(log[p].time) \in Nat
    BY <1>3, LogRecords, SecondType DEF Base
  <1> QED BY <1>2, <1>4 DEF Sec

\* Steps of the container, the server and the owner that the worker does not see.
LEMMA FollowsIdle ==
    ASSUME Base, Base', Follows, Grows, Places' = Places, Deliveries' = Deliveries,
           Places # {} => First' = First,
           UNCHANGED <<cursor, pc, held, out>>,
           conn'.at = conn.at, conn'.since = conn.since
    PROVE  Follows'
  <1>1. /\ Places \in SUBSET (1..Len(log)) /\ Places \in SUBSET Nat
        /\ Places # {} => First \in Places
        /\ Deliveries \in SUBSET (1..Len(out))
        /\ Len(log) \in Nat /\ conn.at \in Nat /\ conn.at <= Len(log) + 1
        /\ pc = "send" => held.pos \in 1..Len(log)
    BY PlacesFacts DEF Base, TypeOK, Bounds, Streams
  <1>2. \A p \in Places : log'[p] = log[p]
    BY <1>1 DEF Grows
  <1>3. ASSUME NEW r PROVE Alike(r)' = Alike(r) /\ Remaining(r)' = Remaining(r)
    BY <1>2 DEF Alike, Remaining
  <1>4. UnreadAtFirst'
    BY <1>1 DEF Follows, UnreadAtFirst, Grows
  <1>5. Latest'
    BY <1>2 DEF Follows, Latest
  <1>6. SinceIsDelivered'
    BY <1>1, <1>2 DEF Follows, SinceIsDelivered, Attached
  <1>7. FromTheFirst'
    BY <1>1 DEF Follows, FromTheFirst
  <1>8. Closed'
    <2>1. SUFFICES ASSUME NEW q \in Places, NEW p \in First..q, p \notin Places
                   PROVE  \E m \in Places : m < p /\ Second(log'[m].time) > Second(log'[p].time)
      BY <1>1 DEF Closed, Late
    <2>2. PICK m \in Places : m < p /\ Second(log[m].time) > Second(log[p].time)
      BY <2>1 DEF Follows, Closed, Late
    <2>3. p \in 1..Len(log)
      BY <1>1, <2>1
    <2> QED BY <1>2, <2>2, <2>3 DEF Grows
  <1>9. ReadSoFar'
    <2>1. SUFFICES ASSUME Places # {}, NEW p \in First..(conn.at - 1), p \notin Places,
                          ~(pc = "send" /\ p = held.pos)
                   PROVE  \E m \in Places : m < p /\ Second(log'[m].time) > Second(log'[p].time)
      BY <1>1 DEF ReadSoFar, Late
    <2>2. PICK m \in Places : m < p /\ Second(log[m].time) > Second(log[p].time)
      BY <2>1 DEF Follows, ReadSoFar, Late
    <2>3. p \in 1..Len(log)
      <3>1. First \in 1..Len(log)
        BY <1>1, <2>1
      <3> QED BY <1>1, <2>1, <3>1
    <2> QED BY <1>2, <2>2, <2>3 DEF Grows
  <1>10. RepeatedSecond'
    BY DEF Follows, RepeatedSecond, Ahead, Attached
  <1>11. CountsAreTrue'
    BY <1>3 DEF Follows, CountsAreTrue, Current
  <1>12. UncountedIsUncertain'
    BY <1>3 DEF Follows, UncountedIsUncertain, Current, Counted
  <1>13. ReplayIsTrue'
    BY <1>3 DEF Follows, ReplayIsTrue, Attached
  <1>14. ASSUME NEW i \in Deliveries
         PROVE  /\ Uncounted(i)' <=> Uncounted(i)
                /\ Announced(i)' <=> Announced(i)
                /\ Overfull(i)' <=> Overfull(i)
    <2>1. out[i].pos \in Places
      BY DEF Places
    <2>2. Uncounted(i)' <=> Uncounted(i)
      BY <1>2, <2>1 DEF Uncounted, Current
    <2>3. Announced(i)' <=> Announced(i)
      BY DEF Announced
    <2>4. DeliveredBefore(i + 1)' = DeliveredBefore(i + 1)
      BY DEF DeliveredBefore
    <2>5. DeliveredBefore(i + 1) \subseteq Places
      BY DEF DeliveredBefore, Places
    <2>6. {log'[p] : p \in {q \in DeliveredBefore(i + 1) :
               Second(log'[q].time) = Second(log'[out[i].pos].time)}}
          = {log[p] : p \in {q \in DeliveredBefore(i + 1) :
               Second(log[q].time) = Second(log[out[i].pos].time)}}
      BY <1>2, <2>1, <2>5
    <2>7. Overfull(i)' <=> Overfull(i)
      BY <2>4, <2>6 DEF Overfull
    <2> QED BY <2>2, <2>3, <2>7
  <1>15. Told'
    BY <1>14 DEF Follows, Told, Attached
  <1>16. HeldIsNext'
    BY <1>14 DEF Follows, HeldIsNext
  <1>17. KeyIsKnown'
    <2>1. Exposed(Places)' <=> Exposed(Places)
      BY <1>2 DEF Exposed, Opens
    <2>2. pc = "send" => /\ Exposed(Places \cup {held.pos})' <=> Exposed(Places \cup {held.pos})
                         /\ Opens(held.pos)' <=> Opens(held.pos)
      <3>1. pc = "send" => \A p \in Places \cup {held.pos} : log'[p] = log[p]
        BY <1>1, <1>2 DEF Grows
      <3>2. held' = held /\ Places' = Places
        OBVIOUS
      <3>3. ASSUME pc = "send"
            PROVE  Exposed(Places \cup {held.pos})' <=> Exposed(Places \cup {held.pos})
        BY <3>1, <3>2, <3>3 DEF Exposed, Opens
      <3>4. ASSUME pc = "send" PROVE Opens(held.pos)' <=> Opens(held.pos)
        BY <3>1, <3>2, <3>4 DEF Opens
      <3> QED BY <3>3, <3>4
    <2> QED BY <2>1, <2>2 DEF Follows, KeyIsKnown
  <1> QED BY <1>4, <1>5, <1>6, <1>7, <1>8, <1>9, <1>10, <1>11, <1>12, <1>13, <1>15,
             <1>16, <1>17 DEF Follows

\* Steps after which the worker reads no stream.
LEMMA FollowsDetached ==
    ASSUME Base, Base', Follows, log' = log, Places' = Places,
           Places # {} => First' = First,
           pc' \notin {"read", "send"}, conn' = conn \/ conn' = NoStream,
           pc = "send" => conn' = NoStream /\ (held.masked => cursor'.failClosed),
           cursor'.time = cursor.time, cursor'.counts = cursor.counts,
           cursor'.uncertain <=> cursor.uncertain, cursor'.inKey <=> cursor.inKey,
           cursor.failClosed => cursor'.failClosed, Told'
    PROVE  Follows'
  <1>1. /\ Places \in SUBSET (1..Len(log)) /\ Places \in SUBSET Nat
        /\ Places # {} => First \in Places
        /\ Len(log) \in Nat /\ conn.at \in Nat
    BY PlacesFacts DEF Base, TypeOK, Streams
  <1>2. conn' = NoStream => conn'.at = 1 /\ conn'.since = 0
    BY NoStreamFields
  <1>3. ASSUME NEW r PROVE Alike(r)' = Alike(r)
    BY DEF Alike
  <1>4. UnreadAtFirst'
    BY <1>2 DEF Follows, UnreadAtFirst
  <1>5. Latest'
    BY DEF Follows, Latest
  <1>6. SinceIsDelivered'
    <2>1. conn'.since # 0 => conn' = conn
      BY <1>2
    <2> QED BY <2>1 DEF Follows, SinceIsDelivered, Attached
  <1>7. FromTheFirst'
    BY <1>1 DEF Follows, FromTheFirst
  <1>8. Closed'
    BY <1>1 DEF Follows, Closed, Late
  <1>9. ReadSoFar'
    <2>1. SUFFICES ASSUME Places # {}, NEW p \in First..(conn'.at - 1)
                   PROVE  p \in Places \/ Late(p, Places)
      BY DEF ReadSoFar, Late
    <2>2. First >= 1 /\ First \in Nat
      <3>1. First \in 1..Len(log)
        BY <1>1, <2>1
      <3> QED BY <3>1
    <2>3. conn'.at # 1
      BY <2>1, <2>2
    <2>4. conn' = conn /\ pc # "send"
      BY <1>2, <2>3
    <2> QED BY <2>1, <2>4 DEF Follows, ReadSoFar
  <1>10. RepeatedSecond' /\ ReplayIsTrue' /\ HeldIsNext'
    BY DEF RepeatedSecond, Ahead, ReplayIsTrue, HeldIsNext, Attached
  <1>11. CountsAreTrue'
    BY <1>3 DEF Follows, CountsAreTrue, Current
  <1>12. UncountedIsUncertain'
    BY <1>3 DEF Follows, UncountedIsUncertain, Current, Counted
  <1>13. KeyIsKnown'
    <2>1. Exposed(Places)' <=> Exposed(Places)
      BY DEF Exposed, Opens
    <2>2. Exposed(Places) /\ ~cursor'.failClosed => cursor.inKey
      BY DEF Follows, KeyIsKnown
    <2> QED BY <2>1, <2>2 DEF KeyIsKnown
  <1> QED BY <1>4, <1>5, <1>6, <1>7, <1>8, <1>9, <1>10, <1>11, <1>12, <1>13 DEF Follows

\* What is said of a delivered line later steps do not take back.
LEMMA SaidBefore ==
    ASSUME Base, log' = log, NEW i \in Deliveries, i \in Deliveries', Len(out') >= Len(out),
           Len(out') \in Nat, \A j \in 1..Len(out) : out'[j] = out[j],
           \A j \in Deliveries' : j > Len(out) \/ j \in Deliveries,
           Deliveries \subseteq Deliveries',
           Deliveries' \in SUBSET Nat
    PROVE  /\ Announced(i) => Announced(i)'
           /\ Overfull(i)' <=> Overfull(i)
           /\ out'[i] = out[i]
           /\ DeliveredBefore(i)' = DeliveredBefore(i)
  <1>1. Deliveries \in SUBSET (1..Len(out)) /\ Len(out) \in Nat
    BY PlacesFacts DEF Base
  <1>2. out'[i] = out[i] /\ i \in Nat /\ i <= Len(out)
    BY <1>1
  <1>3. Announced(i) => Announced(i)'
    BY <1>1, <1>2 DEF Announced
  <1>4. \A n \in {i, i + 1} : {k \in Deliveries' : k < n} = {k \in Deliveries : k < n}
    <2>1. ASSUME NEW n \in {i, i + 1}, NEW k \in Deliveries', k < n PROVE k \in Deliveries
      <3>1. k \in Nat /\ n \in Nat /\ n <= Len(out) + 1
        BY <1>2, <2>1
      <3> QED BY <1>1, <2>1, <3>1
    <2> QED BY <2>1
  <1>5. \A n \in {i, i + 1} : DeliveredBefore(n)' = DeliveredBefore(n)
    <2>1. ASSUME NEW n \in {i, i + 1}
          PROVE  {out'[j].pos : j \in {k \in Deliveries' : k < n}}
                 = {out[j].pos : j \in {k \in Deliveries : k < n}}
      <3>1. \A j \in {k \in Deliveries : k < n} : out'[j] = out[j]
        BY <1>1
      <3> QED BY <1>4, <3>1
    <2> QED BY <2>1 DEF DeliveredBefore
  <1>6. Overfull(i)' <=> Overfull(i)
    BY <1>2, <1>5 DEF Overfull
  <1> QED BY <1>2, <1>3, <1>5, <1>6

\* A step that delivers nothing and counts nothing keeps what was announced, or due.
LEMMA ToldQuietly ==
    ASSUME Base, Base', Follows, log' = log, out' = out,
           cursor'.time = cursor.time, cursor'.counts = cursor.counts,
           cursor'.limited <=> cursor.limited,
           cursor.limited /\ pc \in {"read", "send", "settle", "marker", "done"} =>
               pc' \in {"settle", "marker", "done"}
    PROVE  Told'
  <1>1. /\ Deliveries' = Deliveries /\ Deliveries \in SUBSET (1..Len(out))
        /\ Deliveries \in SUBSET Nat /\ Len(out) \in Nat
    BY TookNothing, PlacesFacts DEF Base
  <1> SUFFICES ASSUME NEW i \in Deliveries, Uncounted(i)'
               PROVE  /\ Overfull(i)'
                      /\ \/ Announced(i)'
                         \/ cursor'.limited /\ pc' \in {"settle", "marker", "done"}
    BY <1>1 DEF Told
  <1>2. Uncounted(i)
    BY DEF Uncounted, Current
  <1>3. /\ Announced(i) => Announced(i)'
        /\ Overfull(i)' <=> Overfull(i)
    BY <1>1, SaidBefore
  <1>4. /\ Overfull(i)
        /\ \/ Announced(i)
           \/ cursor.limited /\ pc \in {"read", "send", "settle", "marker", "done"}
    BY <1>2 DEF Follows, Told, Attached
  <1> QED BY <1>3, <1>4

\* The worker's steps that read nothing and deliver nothing preserve Follows.
LEMMA FollowsMoves ==
    ASSUME Base, Base', Follows,
           \/ Quit \/ OpenFails \/ OpenDenied \/ ReadEnds \/ Complete \/ Exhausted
           \/ TryAgain \/ SkipMarker \/ RetryTimer \/ SendCancelled
    PROVE  Follows'
  <1>1. cursor \in Cursors /\ held.masked \in BOOLEAN
    BY DEF Base, TypeOK
  <1>2. /\ log' = log /\ out' = out
        /\ conn' = conn \/ conn' = NoStream
        /\ pc' \notin {"read", "send"}
        /\ cursor.limited /\ pc \in {"read", "send", "settle", "marker", "done"} =>
               pc' \in {"settle", "marker", "done"}
    BY DEF Quit, OpenFails, OpenDenied, ReadEnds, Complete, Exhausted, TryAgain,
           SkipMarker, RetryTimer, SendCancelled, Finish, serverVars, workerVars
  <1>3. pc = "send" <=> SendCancelled
    BY DEF Quit, OpenFails, OpenDenied, ReadEnds, Complete, Exhausted, TryAgain,
           SkipMarker, RetryTimer, SendCancelled
  <1>4. /\ cursor'.time = cursor.time /\ cursor'.counts = cursor.counts
        /\ cursor'.uncertain <=> cursor.uncertain
        /\ cursor'.limited <=> cursor.limited
        /\ cursor'.inKey <=> cursor.inKey
        /\ cursor.failClosed => cursor'.failClosed
    <2>1. CASE SendCancelled
      <3>1. cursor' = [cursor EXCEPT !.failClosed = @ \/ held.masked]
        BY <2>1 DEF SendCancelled
      <3> QED BY <1>1, <3>1 DEF Cursors
    <2>2. CASE OpenFails \/ OpenDenied
      BY <1>1, <2>2, ReconnectFields DEF OpenFails, OpenDenied
    <2>3. CASE ~SendCancelled /\ ~OpenFails /\ ~OpenDenied
      BY <2>3 DEF Quit, ReadEnds, Complete, Exhausted, TryAgain, SkipMarker, RetryTimer
    <2> QED BY <2>1, <2>2, <2>3
  <1>5. pc = "send" => conn' = NoStream /\ (held.masked => cursor'.failClosed)
    BY <1>1, <1>3, ClosedFields DEF SendCancelled
  <1>6. Told'
    BY <1>2, <1>4, ToldQuietly
  <1>7. Places' = Places /\ (Places # {} => First' = First)
    BY <1>2, TookNothing
  <1> QED BY <1>2, <1>4, <1>5, <1>6, <1>7, FollowsDetached

\* Delivering a marker preserves Follows.
LEMMA FollowsMarks ==
    ASSUME Base, Base', Follows, AnnounceLimit \/ Restart
    PROVE  Follows'
  <1>1. PICK item \in Items : item.kind # "record" /\ out' = Append(out, item)
    BY BaseMarks
  <1>2. /\ Deliveries' = Deliveries /\ Places' = Places
        /\ Places # {} => First' = First
        /\ \A i \in 1..Len(out) : out'[i] = out[i]
        /\ Len(out') = Len(out) + 1 /\ out'[Len(out) + 1] = item
    BY <1>1, TookMarker DEF Base
  <1>3. /\ Deliveries \in SUBSET (1..Len(out)) /\ Deliveries \in SUBSET Nat
        /\ Len(out) \in Nat
    BY PlacesFacts DEF Base
  <1>4. /\ log' = log /\ conn' = conn /\ pc' \notin {"read", "send"} /\ pc # "send"
    BY DEF AnnounceLimit, Restart, serverVars, workerVars
  <1>5. /\ cursor'.time = cursor.time /\ cursor'.counts = cursor.counts
        /\ cursor'.uncertain <=> cursor.uncertain
        /\ cursor'.inKey <=> cursor.inKey
        /\ cursor.failClosed => cursor'.failClosed
    <2>1. cursor \in Cursors
      BY DEF Base, TypeOK
    <2>2. CASE AnnounceLimit
      BY <2>1, <2>2, AnnouncedFields DEF AnnounceLimit
    <2>3. CASE Restart
      BY <2>3 DEF Restart
    <2> QED BY <2>2, <2>3
  <1>6. Told'
    <2> SUFFICES ASSUME NEW i \in Deliveries, Uncounted(i)'
                 PROVE  Overfull(i)' /\ Announced(i)'
      BY <1>2 DEF Told
    <2>1. Announced(i)'
      BY <1>1, <1>2, <1>3 DEF Announced
    <2>2. out'[i] = out[i] /\ (Overfull(i)' <=> Overfull(i))
      BY <1>2, <1>3, <1>4, SaidBefore
    <2>3. Uncounted(i)
      BY <1>4, <1>5, <2>2 DEF Uncounted, Current
    <2> QED BY <2>1, <2>2, <2>3 DEF Follows, Told
  <1> QED BY <1>2, <1>4, <1>5, <1>6, FollowsDetached

\* A line was delivered finitely often.
LEMMA AlikeIsFinite ==
    ASSUME Base, NEW r
    PROVE  /\ IsFiniteSet(Alike(r)) /\ IsFiniteSet(Remaining(r))
           /\ Cardinality(Alike(r)) \in Nat /\ Cardinality(Remaining(r)) \in Nat
           /\ Alike(r) = {} <=> Cardinality(Alike(r)) = 0
           /\ Remaining(r) = {} <=> Cardinality(Remaining(r)) = 0
  <1>1. Alike(r) \in SUBSET (1..Len(log)) /\ Remaining(r) \in SUBSET (1..Len(log))
        /\ Len(log) \in Nat
    BY PlacesFacts DEF Base, Alike, Remaining
  <1>2. IsFiniteSet(1..Len(log))
    BY <1>1, FS_Interval
  <1>3. IsFiniteSet(Alike(r)) /\ IsFiniteSet(Remaining(r))
    BY <1>1, <1>2, FS_Subset
  <1> QED BY <1>3, FS_CardinalityType, FS_EmptySet

\* Opening a stream preserves Follows: the allowances start at the counts.
LEMMA FollowsOpen ==
    ASSUME Base, Base', Follows, OpenStream
    PROVE  Follows'
  <1>1. /\ Places \in SUBSET (1..Len(log)) /\ Places \in SUBSET Nat
        /\ Places # {} => First \in Places
        /\ Len(log) \in Nat /\ cursor \in Cursors /\ cursor.time \in Nat
        /\ log \in Seq(Records)
    BY PlacesFacts DEF Base, TypeOK, Cursors
  <1>2. \A q \in Places : log[q].time \in Nat \ {0}
    BY <1>1, LogRecords DEF Base
  <1>3. /\ log' = log /\ out' = out /\ held' = held /\ pc = "open" /\ pc' = "read"
    BY DEF OpenStream, serverVars, workerVars
  <1>4. /\ Deliveries' = Deliveries /\ Places' = Places
        /\ Places # {} => First' = First
    BY <1>3, TookNothing
  <1> DEFINE tail == Max({1, Len(log) - TailLines + 1})
  <1>5. /\ conn'.since = cursor.time
        /\ conn'.at = IF cursor.time # 0 THEN 1 ELSE tail
    BY DEF OpenStream
  <1>6. tail = 1 \/ tail <= Len(log)
    <2>1. Len(log) - TailLines + 1 \in Int /\ TailLines \in Nat \ {0}
      BY <1>1, LogAssumption
    <2>2. tail \in {1, Len(log) - TailLines + 1}
      BY <2>1, MaxOfOne
    <2> HIDE DEF tail
    <2> QED BY <1>1, <2>1, <2>2
  <1> HIDE DEF tail
  <1>7. /\ cursor'.time = cursor.time /\ cursor'.counts = cursor.counts
        /\ cursor'.replay = cursor.counts
        /\ cursor'.uncertain <=> cursor.uncertain
        /\ cursor'.limited <=> cursor.limited
        /\ cursor'.failClosed <=> (cursor.failClosed \/ cursor.uncertain)
        /\ cursor'.inKey <=> cursor.inKey
    BY <1>1, ReconnectFields DEF OpenStream
  <1>8. Places # {} <=> cursor.time # 0
    BY <1>2 DEF Follows, Latest
  <1>9. Places # {} => conn'.at = 1
    BY <1>5, <1>8
  <1>10. ASSUME NEW r PROVE Alike(r)' = Alike(r) /\ (Places # {} => Remaining(r)' = Alike(r))
    <2>1. Alike(r)' = Alike(r) /\ Alike(r) \subseteq Places
      BY <1>3, <1>4 DEF Alike
    <2>2. \A p \in Places : p >= 1
      BY <1>1
    <2> QED BY <2>1, <2>2, <1>9 DEF Remaining
  <1>11. UnreadAtFirst'
    BY <1>3, <1>4, <1>5, <1>6 DEF UnreadAtFirst
  <1>12. Latest'
    BY <1>3, <1>4, <1>7 DEF Follows, Latest
  <1>13. SinceIsDelivered'
    BY <1>1, <1>3, <1>4, <1>5, <1>8 DEF Follows, Latest, SinceIsDelivered, Attached
  <1>14. FromTheFirst'
    BY <1>1, <1>3, <1>4 DEF Follows, FromTheFirst
  <1>15. Closed'
    BY <1>1, <1>3, <1>4 DEF Follows, Closed, Late
  <1>16. ReadSoFar'
    <2>1. Places # {} => First >= 1 /\ First \in Nat
      <3>1. Places # {} => First \in 1..Len(log)
        BY <1>1
      <3> QED BY <3>1
    <2>2. Places # {} => First..(conn'.at - 1) = {}
      BY <1>9, <2>1
    <2> QED BY <1>3, <1>4, <2>2 DEF ReadSoFar
  <1>17. RepeatedSecond'
    <2>1. Second(cursor.time) \in Nat
      BY <1>1, SecondType
    <2> QED BY <1>5, <1>7, <2>1 DEF RepeatedSecond
  <1>18. CountsAreTrue'
    BY <1>7, <1>10 DEF Follows, CountsAreTrue, Current
  <1>19. UncountedIsUncertain'
    BY <1>7, <1>10 DEF Follows, UncountedIsUncertain, Current, Counted
  <1>20. ReplayIsTrue'
    <2> SUFFICES ASSUME NEW r \in Records
                 PROVE  cursor.counts[r] = IF cursor.counts[r] > 0
                                           THEN Cardinality(Remaining(r)') ELSE 0
      BY <1>7 DEF ReplayIsTrue
    <2>1. cursor.counts[r] \in Nat
      BY <1>1 DEF Cursors
    <2>2. CASE cursor.counts[r] > 0
      <3>1. cursor.counts[r] = Cardinality(Alike(r))
        BY <2>2 DEF Follows, CountsAreTrue
      <3>2. Alike(r) # {}
        BY <2>2, <3>1, AlikeIsFinite
      <3>3. Remaining(r)' = Alike(r)
        BY <1>10, <3>2 DEF Alike
      <3> QED BY <2>2, <3>1, <3>3
    <2> QED BY <2>1, <2>2
  <1>21. Told'
    <2> SUFFICES ASSUME NEW i \in Deliveries, Uncounted(i)'
                 PROVE  Overfull(i)' /\ Announced(i)'
      BY <1>4 DEF Told
    <2>1. Uncounted(i)
      BY <1>3, <1>7 DEF Uncounted, Current
    <2>2. Overfull(i) /\ Announced(i)
      BY <1>3, <2>1 DEF Follows, Told, Attached
    <2>3. Deliveries \in SUBSET (1..Len(out)) /\ Deliveries \in SUBSET Nat /\ Len(out) \in Nat
      BY PlacesFacts DEF Base
    <2> QED BY <1>3, <1>4, <2>2, <2>3, SaidBefore
  <1>22. HeldIsNext'
    BY <1>3 DEF HeldIsNext
  <1>23. KeyIsKnown'
    <2>1. Exposed(Places)' <=> Exposed(Places)
      BY <1>3, <1>4 DEF Exposed, Opens
    <2> QED BY <1>3, <1>7, <2>1 DEF Follows, KeyIsKnown
  <1> QED BY <1>11, <1>12, <1>13, <1>14, <1>15, <1>16, <1>17, <1>18, <1>19, <1>20, <1>21,
             <1>22, <1>23 DEF Follows

\* The next line of a stream, compared with what was delivered.
LEMMA NextPlace ==
    ASSUME Base, ~TailCutsSecond, Follows, pc = "read", Available # {},
           NEW STATE i, i = Min(Available)
    PROVE  /\ Places # {} => First <= i
           /\ Places # {} => \A p \in First..(i - 1) : p \in Places \/ Late(p, Places)
           /\ \A r \in Records : cursor.counts[r] > 0 => \A p \in Remaining(r) : p >= i
           /\ i \notin Places => \A q \in Places : q < i
           /\ i \in Places => Current(log[i]) /\ (cursor.uncertain => cursor.failClosed)
           /\ i \in Nat /\ i >= conn.at /\ i \in 1..Len(log) /\ log[i] \in Records
  <1>1. TypeOK /\ Bounds
    BY DEF Base
  <1>2. /\ i \in conn.at..Len(log) /\ i \in 1..Len(log)
        /\ Sec(i) >= Second(conn.since)
        /\ \A p \in conn.at..(i - 1) : Sec(p) < Second(conn.since)
    BY <1>1, NextToRead
  <1>3. /\ Places \in SUBSET (1..Len(log)) /\ Places \in SUBSET Nat
        /\ Places # {} => First \in 1..Len(log) /\ First \in Places
        /\ Len(log) \in Nat /\ cursor \in Cursors /\ cursor.time \in Nat
        /\ conn.at \in Nat \ {0} /\ conn.since \in Nat
    BY <1>1, PlacesFacts DEF TypeOK, Cursors, Streams
  <1>4. i \in Nat /\ i >= conn.at /\ log[i] \in Records
    BY <1>1, <1>2, <1>3, LogRecords
  <1>5. \A p \in 1..Len(log) : log[p].time \in Nat \ {0} /\ Sec(p) \in Nat
    BY <1>1, LogRecords, SecondType DEF Sec
  <1>6. Second(conn.since) \in Nat /\ Second(cursor.time) \in Nat /\ Second(0) = 0
    BY <1>3, SecondType, SecondZero
  <1>7. \A q \in Places : Sec(q) <= Second(cursor.time)
    <2>1. \A q \in Places : q \in 1..Len(log) /\ log[q].time <= cursor.time
      BY <1>3 DEF Follows, Latest
    <2> QED BY <1>3, <1>5, <2>1, SecondMonotone DEF Sec
  <1>8. conn.since # 0 => \E q \in Places : Sec(q) = Second(conn.since)
    BY DEF Follows, SinceIsDelivered, Sec
  <1>9. ASSUME Places # {} PROVE First <= i
    <2>1. CASE conn.since = 0
      <3>1. First < conn.at
        BY <1>9, <2>1 DEF Follows, SinceIsDelivered, Attached
      <3>2. First \in Nat
        BY <1>3, <1>9
      <3> QED BY <1>3, <1>4, <3>1, <3>2
    <2>2. CASE conn.since # 0
      <3>1. First \in 1..Len(log) /\ log[First].time <= conn.since
        BY <1>3, <1>9, <2>2 DEF Follows, SinceIsDelivered
      <3>2. Sec(First) <= Second(conn.since)
        BY <1>3, <1>5, <3>1, SecondMonotone DEF Sec
      <3>3. Sec(First) <= Sec(i)
        BY <1>2, <1>5, <1>6, <3>1, <3>2
      <3>4. \A p \in 1..(First - 1) : Sec(p) < Sec(First)
        BY <1>9, BeforeTheFirst
      <3>5. ~(i < First)
        BY <1>2, <1>4, <1>5, <3>1, <3>3, <3>4
      <3> QED BY <1>4, <3>1, <3>5
    <2> QED BY <2>1, <2>2
  <1>10. ASSUME Places # {}, NEW p \in First..(i - 1), p \notin Places
         PROVE  Late(p, Places)
    <2>1. First \in 1..Len(log)
      BY <1>3, <1>10
    <2>2. p \in 1..Len(log) /\ p \in Nat /\ First <= p /\ p < i
      BY <1>2, <1>3, <1>10, <2>1
    <2>3. CASE p < conn.at
      <3>1. p \in First..(conn.at - 1)
        BY <1>3, <2>1, <2>2, <2>3
      <3> QED BY <1>10, <3>1 DEF Follows, ReadSoFar
    <2>4. CASE p >= conn.at
      <3>1. p \in conn.at..(i - 1)
        BY <1>3, <1>4, <2>2, <2>4
      <3>2. Sec(p) < Second(conn.since)
        BY <1>2, <3>1
      <3>3. conn.since # 0
        BY <1>5, <1>6, <2>2, <3>2
      <3>4. PICK q \in Places : Sec(q) = Second(conn.since)
        BY <1>8, <3>3
      <3>5. q \in Nat /\ q \in 1..Len(log) /\ Sec(p) < Sec(q)
        BY <1>3, <3>2, <3>4
      <3>6. CASE q < p
        BY <1>5, <2>2, <3>5, <3>6 DEF Late, Sec
      <3>7. CASE p < q
        <4>1. p \in First..q
          BY <2>1, <2>2, <3>5, <3>7
        <4> QED BY <1>10, <4>1 DEF Follows, Closed
      <3>8. p # q
        BY <1>10
      <3> QED BY <2>2, <3>5, <3>6, <3>7, <3>8
    <2> QED BY <1>3, <2>2, <2>3, <2>4
  <1>11. ASSUME NEW m \in Places, m >= conn.at
         PROVE  Second(cursor.time) <= Second(conn.since)
                /\ (cursor.uncertain => cursor.failClosed)
    BY <1>11 DEF Follows, RepeatedSecond, Ahead, Attached
  <1>12. ASSUME NEW r \in Records, cursor.counts[r] > 0, NEW p \in Remaining(r), p < i
         PROVE  FALSE
    <2>1. p \in Places /\ p >= conn.at /\ log[p] = r /\ p \in Nat
      BY <1>3, <1>12 DEF Remaining, Alike
    <2>2. Sec(p) = Second(cursor.time)
      BY <1>12, <2>1 DEF Follows, CountsAreTrue, Current, Sec
    <2>3. p \in conn.at..(i - 1)
      BY <1>3, <1>4, <1>12, <2>1
    <2>4. Sec(p) < Second(conn.since)
      BY <1>2, <2>3
    <2>5. conn.since # 0
      BY <1>6, <2>2, <2>4
    <2>6. Second(conn.since) <= Second(cursor.time)
      BY <1>7, <1>8, <2>5
    <2> QED BY <1>6, <2>2, <2>4, <2>6
  <1>13. ASSUME i \notin Places, NEW q \in Places PROVE q < i
    <2>1. SUFFICES ASSUME q > i PROVE FALSE
      BY <1>3, <1>4, <1>13
    <2>2. q >= conn.at
      BY <1>3, <1>4, <2>1
    <2>3. First <= i /\ First \in Nat /\ q \in Nat
      BY <1>3, <1>9
    <2>4. i \in First..q
      BY <1>4, <2>1, <2>3
    <2>5. Late(i, Places)
      BY <1>13, <2>4 DEF Follows, Closed
    <2>6. PICK l \in Places : Sec(l) > Sec(i)
      BY <2>5 DEF Late, Sec
    <2>7. Sec(l) <= Second(cursor.time) /\ Second(cursor.time) <= Second(conn.since)
      BY <1>7, <1>11, <2>2
    <2>8. Sec(l) \in Nat /\ Sec(i) \in Nat
      BY <1>2, <1>3, <1>5
    <2> QED BY <1>2, <1>6, <2>6, <2>7, <2>8
  <1>14. ASSUME i \in Places
         PROVE  Current(log[i]) /\ (cursor.uncertain => cursor.failClosed)
    <2>1. Second(cursor.time) <= Second(conn.since)
          /\ (cursor.uncertain => cursor.failClosed)
      BY <1>4, <1>11, <1>14
    <2>2. Sec(i) <= Second(cursor.time)
      BY <1>7, <1>14
    <2>3. Sec(i) = Second(cursor.time)
      BY <1>2, <1>5, <1>6, <2>1, <2>2
    <2> QED BY <2>1, <2>3 DEF Current, Sec
  <1>15. \A r \in Records : cursor.counts[r] > 0 => \A p \in Remaining(r) : p >= i
    <2>1. \A r : Remaining(r) \subseteq Nat
      BY <1>3 DEF Remaining, Alike
    <2> QED BY <1>4, <1>12, <2>1
  <1> QED BY <1>2, <1>4, <1>9, <1>10, <1>13, <1>14, <1>15

\* What the two ways of reading a line have in common.
LEMMA FollowsReadCommon ==
    ASSUME Base, Base', ~TailCutsSecond, Follows, pc = "read", Available # {},
           log' = log, out' = out, conn'.at = Min(Available) + 1, conn'.since = conn.since,
           cursor'.time = cursor.time, cursor'.counts = cursor.counts,
           cursor'.uncertain <=> cursor.uncertain, cursor'.limited <=> cursor.limited,
           cursor.failClosed => cursor'.failClosed,
           \/ pc' = "read" /\ Min(Available) \in Places
           \/ pc' = "send" /\ held'.pos = Min(Available)
    PROVE  /\ UnreadAtFirst' /\ Latest' /\ SinceIsDelivered' /\ FromTheFirst' /\ Closed'
           /\ ReadSoFar' /\ RepeatedSecond' /\ CountsAreTrue' /\ UncountedIsUncertain'
           /\ Told'
  <1> DEFINE i == Min(Available)
  <1>1. /\ Places # {} => First <= i
        /\ Places # {} => \A p \in First..(i - 1) : p \in Places \/ Late(p, Places)
        /\ i \in Nat /\ i >= conn.at /\ i \in 1..Len(log)
    BY NextPlace
  <1>2. /\ conn'.at = i + 1
        /\ \/ pc' = "read" /\ i \in Places
           \/ pc' = "send" /\ held'.pos = i
    OBVIOUS
  <1> HIDE DEF i
  <1>3. /\ Places \in SUBSET (1..Len(log)) /\ Places \in SUBSET Nat
        /\ Places # {} => First \in 1..Len(log) /\ First \in Places
        /\ Len(log) \in Nat /\ conn.at \in Nat \ {0}
    BY PlacesFacts DEF Base, TypeOK, Streams
  <1>4. /\ Deliveries' = Deliveries /\ Places' = Places
        /\ Places # {} => First' = First
    BY TookNothing
  <1>5. ASSUME NEW r PROVE Alike(r)' = Alike(r)
    BY <1>4 DEF Alike
  <1>6. UnreadAtFirst'
    BY <1>2, <1>4 DEF UnreadAtFirst
  <1>7. Latest'
    BY <1>4 DEF Follows, Latest
  <1>8. SinceIsDelivered'
    <2>1. Places # {} => First < i + 1
      BY <1>1, <1>3
    <2> QED BY <1>2, <1>4, <2>1 DEF Follows, SinceIsDelivered, Attached
  <1>9. FromTheFirst'
    BY <1>1, <1>2, <1>3, <1>4 DEF Follows, FromTheFirst
  <1>10. Closed'
    BY <1>3, <1>4 DEF Follows, Closed, Late
  <1>11. ReadSoFar'
    <2>1. SUFFICES ASSUME Places # {}, NEW p \in First..i
                   PROVE  p \in Places \/ Late(p, Places) \/ (pc' = "send" /\ p = held'.pos)
      <3>1. (i + 1) - 1 = i
        BY <1>1
      <3> QED BY <1>2, <1>4, <3>1 DEF ReadSoFar, Late
    <2>2. First \in Nat
      BY <1>3, <2>1
    <2>3. CASE p = i
      BY <1>2, <2>3
    <2>4. CASE p # i
      <3>1. p \in First..(i - 1)
        BY <1>1, <2>1, <2>2, <2>4
      <3> QED BY <1>1, <2>1, <3>1
    <2> QED BY <2>3, <2>4
  <1>12. RepeatedSecond'
    <2>1. Ahead' => Ahead
      BY <1>1, <1>2, <1>3, <1>4 DEF Ahead, Attached
    <2> QED BY <2>1 DEF Follows, RepeatedSecond
  <1>13. CountsAreTrue'
    BY <1>5 DEF Follows, CountsAreTrue, Current
  <1>14. UncountedIsUncertain'
    BY <1>5 DEF Follows, UncountedIsUncertain, Current, Counted
  <1>15. Told'
    <2> SUFFICES ASSUME NEW k \in Deliveries, Uncounted(k)'
                 PROVE  /\ Overfull(k)'
                        /\ \/ Announced(k)'
                           \/ cursor'.limited /\ out'[k].pos < conn'.at
      BY <1>2, <1>4 DEF Told, Attached
    <2>1. /\ Deliveries \in SUBSET (1..Len(out)) /\ Deliveries \in SUBSET Nat
          /\ Len(out) \in Nat
      BY PlacesFacts DEF Base
    <2>2. Uncounted(k)
      BY DEF Uncounted, Current
    <2>3. /\ Overfull(k)
          /\ Announced(k) \/ (cursor.limited /\ out[k].pos < conn.at)
      BY <2>2 DEF Follows, Told, Attached
    <2>4. /\ Announced(k) => Announced(k)'
          /\ Overfull(k)' <=> Overfull(k)
      BY <1>4, <2>1, SaidBefore
    <2>5. out[k].pos \in Nat
      <3>1. out[k].pos \in 1..Len(log)
        BY DEF Base, Bounds
      <3> QED BY <3>1
    <2> QED BY <1>1, <1>2, <1>3, <2>3, <2>4, <2>5
  <1> QED BY <1>6, <1>7, <1>8, <1>9, <1>10, <1>11, <1>12, <1>13, <1>14, <1>15

\* Passing over a repeated line preserves Follows.
LEMMA FollowsReplayed ==
    ASSUME Base, Base', ~TailCutsSecond, Follows, ReadReplayed
    PROVE  Follows'
  <1> DEFINE i == Min(Available)
             r == log[i]
  <1>1. /\ pc = "read" /\ Available # {} /\ Replayed(cursor, r)
        /\ cursor' = [cursor EXCEPT !.replay[r] = @ - 1]
        /\ pc' = "read" /\ held' = held
    BY DEF ReadReplayed, workerVars
  <1>2. /\ conn'.at = i + 1 /\ conn'.since = conn.since
        /\ UNCHANGED <<log, out>>
    BY BaseReads
  <1>3. /\ \A s \in Records : cursor.counts[s] > 0 => \A p \in Remaining(s) : p >= i
        /\ i \notin Places => \A q \in Places : q < i
        /\ i \in Nat /\ i >= conn.at /\ i \in 1..Len(log) /\ r \in Records
    BY <1>1, NextPlace
  <1> HIDE DEF i
  <1>4. /\ cursor \in Cursors /\ cursor.replay[r] > 0
        /\ Places \in SUBSET Nat /\ conn.at \in Nat
    BY <1>1, PlacesFacts DEF Base, TypeOK, Replayed, Streams
  <1>5. /\ cursor'.time = cursor.time /\ cursor'.counts = cursor.counts
        /\ cursor'.replay = [cursor.replay EXCEPT ![r] = @ - 1]
        /\ cursor'.uncertain <=> cursor.uncertain
        /\ cursor'.limited <=> cursor.limited
        /\ cursor'.failClosed <=> cursor.failClosed
        /\ cursor'.inKey <=> cursor.inKey
    BY <1>1, <1>3, <1>4, ReplayedFields
  <1>6. cursor.counts[r] > 0 /\ Remaining(r) # {}
    <2>1. cursor.replay[r] = IF cursor.counts[r] > 0 THEN Cardinality(Remaining(r)) ELSE 0
      BY <1>1, <1>3 DEF Follows, ReplayIsTrue, Attached
    <2> QED BY <1>4, <2>1, AlikeIsFinite
  <1>7. i \in Places
    <2>1. PICK p \in Remaining(r) : p >= i
      BY <1>3, <1>6
    <2>2. p \in Places /\ p \in Nat
      BY <1>4 DEF Remaining, Alike
    <2>3. i \notin Places => p < i
      BY <1>3, <2>2
    <2> QED BY <1>3, <2>1, <2>2, <2>3
  <1>8. /\ Deliveries' = Deliveries /\ Places' = Places
    BY <1>2, TookNothing
  <1>9. ASSUME NEW s \in Records, cursor.counts[s] > 0
        PROVE  Remaining(s)' = IF s = r THEN Remaining(r) \ {i} ELSE Remaining(s)
    <2>1. Remaining(s)' = {p \in Places : log[p] = s /\ p >= i + 1}
      BY <1>2, <1>8 DEF Remaining, Alike
    <2>2. Remaining(s) = {p \in Places : log[p] = s /\ p >= conn.at}
      BY DEF Remaining, Alike
    <2>3. \A p \in Remaining(s) : p >= i
      BY <1>3, <1>9
    <2>4. ASSUME NEW p \in Places, log[p] = s
          PROVE  p >= i + 1 <=> p >= conn.at /\ p # i
      <3>1. p >= conn.at => p >= i
        BY <2>2, <2>3, <2>4
      <3> QED BY <1>3, <1>4, <3>1
    <2>5. Remaining(s)' = Remaining(s) \ {i}
      BY <2>1, <2>2, <2>4
    <2>6. s # r => i \notin Remaining(s)
      BY <2>2
    <2> QED BY <2>5, <2>6
  <1>10. i \in Remaining(r)
    BY <1>3, <1>7 DEF Remaining, Alike
  <1>11. ReplayIsTrue'
    <2> SUFFICES ASSUME NEW s \in Records
                 PROVE  cursor'.replay[s] = IF cursor.counts[s] > 0
                                            THEN Cardinality(Remaining(s)') ELSE 0
      BY <1>5 DEF ReplayIsTrue
    <2>1. cursor.replay[s] = IF cursor.counts[s] > 0 THEN Cardinality(Remaining(s)) ELSE 0
      BY <1>1 DEF Follows, ReplayIsTrue, Attached
    <2>2. cursor.replay \in [Records -> Nat]
      BY <1>4 DEF Cursors
    <2>3. CASE s = r
      <3>1. Cardinality(Remaining(r) \ {i}) = Cardinality(Remaining(r)) - 1
        BY <1>10, AlikeIsFinite, FS_RemoveElement
      <3> QED BY <1>5, <1>6, <1>9, <2>1, <2>2, <2>3, <3>1
    <2>4. CASE s # r
      BY <1>5, <1>9, <2>1, <2>2, <2>4
    <2> QED BY <2>3, <2>4
  <1>12. HeldIsNext'
    BY <1>1 DEF HeldIsNext
  <1>13. KeyIsKnown'
    <2>1. Exposed(Places)' <=> Exposed(Places)
      BY <1>2, <1>8 DEF Exposed, Opens
    <2> QED BY <1>1, <1>5, <2>1 DEF Follows, KeyIsKnown
  <1>14. /\ UnreadAtFirst' /\ Latest' /\ SinceIsDelivered' /\ FromTheFirst' /\ Closed'
         /\ ReadSoFar' /\ RepeatedSecond' /\ CountsAreTrue' /\ UncountedIsUncertain'
         /\ Told'
    BY <1>1, <1>2, <1>5, <1>7, FollowsReadCommon DEF i
  <1> QED BY <1>11, <1>12, <1>13, <1>14 DEF Follows

\* Taking a line to send preserves Follows.
LEMMA FollowsRead ==
    ASSUME Base, Base', ~TailCutsSecond, Follows, ReadRecord
    PROVE  Follows'
  <1> DEFINE i == Min(Available)
             r == log[i]
  <1>1. /\ pc = "read" /\ Available # {} /\ ~Replayed(cursor, r)
        /\ held' = [pos |-> i, masked |-> Masked(cursor, r)]
        /\ cursor' = Track(cursor, r)
        /\ pc' = "send"
    BY DEF ReadRecord
  <1>2. /\ conn'.at = i + 1 /\ conn'.since = conn.since
        /\ UNCHANGED <<log, out>>
    BY BaseReads
  <1>3. /\ \A s \in Records : cursor.counts[s] > 0 => \A p \in Remaining(s) : p >= i
        /\ i \notin Places => \A q \in Places : q < i
        /\ i \in Places => Current(r) /\ (cursor.uncertain => cursor.failClosed)
        /\ i \in Nat /\ i >= conn.at /\ i \in 1..Len(log) /\ r \in Records
    BY <1>1, NextPlace
  <1>4. cursor \in Cursors /\ Places \in SUBSET Nat /\ conn.at \in Nat /\ r.text \in Texts
    BY <1>3, PlacesFacts, LogRecords DEF Base, TypeOK, Streams
  <1>5. /\ cursor'.time = cursor.time /\ cursor'.counts = cursor.counts
        /\ cursor'.replay = cursor.replay
        /\ cursor'.uncertain <=> cursor.uncertain
        /\ cursor'.limited <=> cursor.limited
        /\ cursor'.failClosed <=> (cursor.failClosed \/ r.text = "cut")
        /\ cursor'.inKey <=>
               IF r.text \in {"begin", "end"} THEN r.text = "begin" ELSE cursor.inKey
    BY <1>1, <1>3, <1>4, TrackFields
  <1>6. held'.pos = i /\ (held'.masked <=> cursor.inKey \/ r.text = "begin" \/ cursor'.failClosed)
    BY <1>1 DEF Masked
  <1>7. /\ UnreadAtFirst' /\ Latest' /\ SinceIsDelivered' /\ FromTheFirst' /\ Closed'
        /\ ReadSoFar' /\ RepeatedSecond' /\ CountsAreTrue' /\ UncountedIsUncertain'
        /\ Told'
    BY <1>1, <1>2, <1>5, <1>6, FollowsReadCommon
  <1> HIDE DEF i
  <1>8. Deliveries' = Deliveries /\ Places' = Places
    BY <1>2, TookNothing
  <1>9. \A s \in Records : cursor.replay[s] =
            IF cursor.counts[s] > 0 THEN Cardinality(Remaining(s)) ELSE 0
    BY <1>1 DEF Follows, ReplayIsTrue, Attached
  <1>10. ASSUME i \in Places PROVE cursor.counts[r] = 0
    <2>1. SUFFICES ASSUME cursor.counts[r] > 0 PROVE FALSE
      BY <1>3, <1>4 DEF Cursors
    <2>2. cursor.replay[r] = Cardinality(Remaining(r))
      BY <1>3, <1>9, <2>1
    <2>3. i \in Remaining(r)
      BY <1>3, <1>10 DEF Remaining, Alike
    <2>4. Cardinality(Remaining(r)) \in Nat /\ Cardinality(Remaining(r)) # 0
      BY <2>3, AlikeIsFinite
    <2>5. Current(r)
      BY <1>3, <1>10
    <2> QED BY <1>1, <2>2, <2>4, <2>5 DEF Replayed, Current
  <1>11. ReplayIsTrue'
    <2> SUFFICES ASSUME NEW s \in Records, cursor.counts[s] > 0
                 PROVE  Remaining(s)' = Remaining(s)
      BY <1>5, <1>9 DEF ReplayIsTrue
    <2>1. Remaining(s)' = {p \in Places : log[p] = s /\ p >= i + 1}
      BY <1>2, <1>8 DEF Remaining, Alike
    <2>2. Remaining(s) = {p \in Places : log[p] = s /\ p >= conn.at}
      BY DEF Remaining, Alike
    <2>3. ASSUME NEW p \in Places, log[p] = s
          PROVE  p >= i + 1 <=> p >= conn.at
      <3>1. p >= conn.at => p >= i
        BY <1>3, <2>2, <2>3
      <3>2. p # i
        BY <1>10, <2>3
      <3> QED BY <1>3, <1>4, <3>1, <3>2
    <2> QED BY <2>1, <2>2, <2>3
  <1>12. ASSUME i \in Places PROVE cursor.failClosed
    <2>1. i \in Alike(r)
      BY <1>12 DEF Alike
    <2>2. cursor.uncertain
      BY <1>3, <1>10, <1>12, <2>1 DEF Follows, UncountedIsUncertain
    <2> QED BY <1>3, <1>12, <2>2
  <1>13. HeldIsNext'
    <2>1. CASE i \in Places
      <3>1. ASSUME NEW k \in Deliveries, out[k].pos = i
            PROVE  Uncounted(k)' /\ Announced(k)'
        <4>1. Current(r) /\ cursor.counts[r] = 0
          BY <1>3, <1>10, <2>1
        <4>2. Uncounted(k) /\ Uncounted(k)'
          BY <1>2, <1>5, <3>1, <4>1 DEF Uncounted, Current
        <4>3. Announced(k)
          BY <1>1, <1>3, <1>4, <3>1, <4>2 DEF Follows, Told, Attached
        <4> QED BY <1>2, <4>2, <4>3 DEF Announced
      <3> QED BY <1>2, <1>5, <1>6, <1>8, <1>12, <2>1, <3>1 DEF HeldIsNext
    <2>2. CASE i \notin Places
      BY <1>3, <1>6, <1>8, <2>2 DEF HeldIsNext
    <2> QED BY <2>1, <2>2
  <1>14. KeyIsKnown'
    <2>1. Exposed(Places) /\ ~cursor.failClosed => cursor.inKey
      BY <1>1 DEF Follows, KeyIsKnown
    <2>2. Exposed(Places)' <=> Exposed(Places)
      BY <1>2, <1>8 DEF Exposed, Opens
    <2>3. Opens(held.pos)' <=> r.text \in {"begin", "cut"}
      BY <1>2, <1>6 DEF Opens
    <2>4. Exposed(Places)' \/ Opens(held.pos)' => held'.masked
      BY <1>5, <1>6, <2>1, <2>2, <2>3
    <2>5. ASSUME Exposed(Places \cup {held.pos})', ~cursor'.failClosed
          PROVE  cursor'.inKey
      <3>1. i \notin Places /\ \A q \in Places : q < i
        BY <1>3, <1>5, <1>12, <2>5
      <3>2. Exposed(Places \cup {held.pos})' <=> Exposed(Places \cup {i})
        BY <1>2, <1>6, <1>8 DEF Exposed, Opens
      <3>3. PICK q \in Places \cup {i} :
                Opens(q) /\ \A m \in Places \cup {i} : m > q => log[m].text # "end"
        BY <2>5, <3>2 DEF Exposed
      <3>4. CASE q = i
        BY <1>5, <2>5, <3>3, <3>4 DEF Opens
      <3>5. CASE q # i
        <4>1. q \in Places /\ i > q
          BY <1>3, <1>4, <3>1, <3>5
        <4>2. Exposed(Places) /\ r.text # "end"
          BY <3>3, <4>1 DEF Exposed
        <4> QED BY <1>5, <2>1, <2>5, <4>2
      <3> QED BY <3>4, <3>5
    <2> QED BY <1>1, <2>4, <2>5 DEF KeyIsKnown
  <1> QED BY <1>7, <1>11, <1>13, <1>14 DEF Follows

\* The lines at finitely many places are finitely many.
LEMMA LinesAreFinite ==
    ASSUME NEW f, NEW n \in Nat, NEW S \in SUBSET (1..n)
    PROVE  IsFiniteSet({f[p] : p \in S})
  <1> DEFINE T == {f[p] : p \in S}
             g == [p \in S |-> f[p]]
  <1>1. IsFiniteSet(S)
    <2>1. IsFiniteSet(1..n)
      BY FS_Interval
    <2> QED BY <2>1, FS_Subset
  <1>2. g \in Surjection(S, T)
    BY DEF Surjection
  <1> QED BY <1>1, <1>2, FS_Surjection

\* The cursor counts finitely many lines, and has room for another until the limit.
LEMMA CountedIsFinite ==
    ASSUME Base, CountsAreTrue
    PROVE  /\ IsFiniteSet(Counted) /\ Cardinality(Counted) \in Nat
           /\ \A r \in Records :
                  Room(cursor, r) <=> cursor.counts[r] > 0 \/ Cardinality(Counted) < CountLimit
           /\ CountLimit \in Nat \ {0}
  <1>1. Places \in SUBSET (1..Len(log)) /\ Len(log) \in Nat
    BY PlacesFacts DEF Base
  <1>2. IsFiniteSet({log[p] : p \in Places})
    BY <1>1, LinesAreFinite
  <1>3. ASSUME NEW k \in Counted PROVE k \in {log[p] : p \in Places}
    <2>1. k \in Records /\ cursor.counts[k] > 0
      BY DEF Counted
    <2>2. Cardinality(Alike(k)) > 0
      BY <2>1 DEF CountsAreTrue
    <2>3. Alike(k) # {}
      BY <2>2, AlikeIsFinite
    <2> QED BY <2>3 DEF Alike
  <1>4. IsFiniteSet(Counted)
    BY <1>2, <1>3, FS_Subset
  <1> QED BY <1>4, FS_CardinalityType, LogAssumption DEF Room, Counted

\* When there is no room for a line, its second already holds too many lines.
LEMMA OverfullNow ==
    ASSUME Base, CountsAreTrue, log' = log, NEW h \in 1..Len(log), Level(cursor, log[h]),
           ~Room(cursor, log[h]), Places' = Places \cup {h},
           NEW j, j = Len(out) + 1, Deliveries' = Deliveries \cup {j}, out'[j].pos = h
    PROVE  Overfull(j)'
  <1> DEFINE r == log[h]
             full == {log[p] : p \in {q \in Places \cup {h} :
                          Second(log[q].time) = Second(r.time)}}
  <1>1. /\ Places \in SUBSET (1..Len(log)) /\ Len(log) \in Nat /\ Len(out) \in Nat
        /\ Deliveries \in SUBSET (1..Len(out)) /\ Deliveries \in SUBSET Nat
    BY PlacesFacts DEF Base
  <1>2. r \in Records
    BY LogRecords DEF Base
  <1>3. /\ IsFiniteSet(Counted) /\ Cardinality(Counted) \in Nat
        /\ CountLimit \in Nat \ {0}
        /\ ~(cursor.counts[r] > 0) /\ ~(Cardinality(Counted) < CountLimit)
    BY <1>2, CountedIsFinite
  <1>4. {k \in Deliveries' : k < j + 1} = Deliveries'
    <2>1. ASSUME NEW k \in Deliveries' PROVE k < j + 1
      <3>1. CASE k = j
        BY <1>1, <3>1
      <3>2. CASE k \in Deliveries
        <4>1. k \in Nat /\ k <= Len(out)
          BY <1>1, <3>2
        <4> QED BY <1>1, <4>1
      <3> QED BY <3>1, <3>2
    <2> QED BY <2>1
  <1>5. DeliveredBefore(j + 1)' = Places \cup {h}
    <2>1. DeliveredBefore(j + 1)' = {out'[k].pos : k \in {k \in Deliveries' : k < j + 1}}
      BY DEF DeliveredBefore
    <2> QED BY <1>4, <2>1 DEF Places
  <1>6. Overfull(j)' <=> Cardinality(full) > CountLimit
    BY <1>5 DEF Overfull
  <1>7. IsFiniteSet(full)
    <2>1. {q \in Places \cup {h} : Second(log[q].time) = Second(r.time)} \in SUBSET (1..Len(log))
      BY <1>1
    <2> QED BY <1>1, <2>1, LinesAreFinite
  <1>8. r \in full
    OBVIOUS
  <1>9. ASSUME NEW k \in Counted PROVE k \in full
    <2>1. k \in Records /\ cursor.counts[k] > 0
      BY DEF Counted
    <2>2. Current(k) /\ Cardinality(Alike(k)) > 0
      BY <2>1 DEF CountsAreTrue
    <2>3. PICK p \in Alike(k) : TRUE
      BY <2>2, AlikeIsFinite
    <2>4. p \in Places /\ log[p] = k
      BY <2>3 DEF Alike
    <2> QED BY <2>2, <2>4 DEF Current, Level
  <1> HIDE DEF full
  <1>10. Counted \cup {r} \in SUBSET full
    BY <1>8, <1>9
  <1>11. Cardinality(Counted \cup {r}) = Cardinality(Counted) + 1
    <2>1. r \notin Counted
      BY <1>3 DEF Counted
    <2> QED BY <1>3, <2>1, FS_AddElement
  <1>12. Cardinality(Counted \cup {r}) <= Cardinality(full)
    BY <1>7, <1>10, FS_Subset
  <1>13. Cardinality(full) \in Nat
    BY <1>7, FS_CardinalityType
  <1> QED BY <1>3, <1>6, <1>11, <1>12, <1>13

\* A line delivered again leaves the places as they were.
LEMMA FollowsDeliverAgain ==
    ASSUME Base, Base', Follows, Deliver, held.pos \in Places
    PROVE  Follows'
  <1>1. /\ cursor' = Advance(cursor, log[held.pos])
        /\ out' = Append(out, Item("record", held.pos, held.masked))
        /\ held.pos = conn.at - 1 /\ held.masked \in BOOLEAN
        /\ pc = "send" /\ pc' = "read" /\ UNCHANGED <<log, conn>>
    BY BaseDeliver
  <1>2. PICK h \in 1..Len(log) : h = held.pos /\ log[h] \in Records /\ h \in Nat
    BY BaseDeliver
  <1>3. PICK j \in Nat : j = Len(out) + 1
    BY DEF Base, TypeOK
  <1> DEFINE r == log[h]
  <1>4. /\ Places \in SUBSET (1..Len(log)) /\ Places \in SUBSET Nat
        /\ Deliveries \in SUBSET (1..Len(out)) /\ Deliveries \in SUBSET Nat
        /\ Len(log) \in Nat /\ Len(out) \in Nat /\ conn.at \in Nat \ {0}
        /\ cursor \in Cursors /\ cursor.time \in Nat
    BY PlacesFacts DEF Base, TypeOK, Streams, Cursors
  <1>5. /\ Deliveries' = Deliveries \cup {j} /\ Places' = Places \cup {h}
        /\ First' = First
        /\ \A i \in 1..Len(out) : out'[i] = out[i]
        /\ Len(out') = Len(out) + 1 /\ out'[j].pos = h
    BY <1>1, <1>2, <1>3, TookRecord DEF Base
  <1>6. Places' = Places
    BY <1>2, <1>5
  <1>7. /\ cursor.failClosed
        /\ \A k \in Deliveries : out[k].pos = h => Uncounted(k) /\ Announced(k)
    BY <1>1, <1>2 DEF Follows, HeldIsNext
  <1>8. Level(cursor, r) /\ cursor.counts[r] = 0
    <2>1. PICK k \in Deliveries : out[k].pos = h
      BY <1>2 DEF Places
    <2> QED BY <1>7, <2>1 DEF Uncounted, Current, Level
  <1>9. cursor.uncertain /\ Cardinality(Counted) >= CountLimit
    <2>1. h \in Alike(r)
      BY <1>2 DEF Alike
    <2> QED BY <1>2, <1>8, <2>1 DEF Follows, UncountedIsUncertain, Current, Level
  <1>10. CountsAreTrue
    BY DEF Follows
  <1>11. ~Room(cursor, r)
    <2>1. ~(Cardinality(Counted) < CountLimit)
      BY <1>9, <1>10, CountedIsFinite
    <2> QED BY <1>2, <1>8, <1>10, <2>1, CountedIsFinite
  <1>12. log[h].time <= cursor.time /\ log[h].time \in Nat
    BY <1>2, LogRecords DEF Follows, Latest, Base
  <1>13. /\ cursor'.time = cursor.time /\ cursor'.counts = cursor.counts
         /\ cursor'.replay = cursor.replay
         /\ cursor'.uncertain /\ cursor'.limited
         /\ cursor'.failClosed <=> cursor.failClosed
         /\ cursor'.inKey <=> cursor.inKey
    <2>1. cursor' = Advance(cursor, r)
      BY <1>1, <1>2
    <2>2. Second(r.time) \in Nat /\ Second(cursor.time) \in Nat
      BY <1>4, <1>12, SecondType
    <2>3. Second(r.time) >= Second(cursor.time)
      BY <1>8, <2>2 DEF Level
    <2>4. ~(r.time > cursor.time)
      BY <1>4, <1>12
    <2> QED BY <1>2, <1>4, <1>8, <1>11, <2>1, <2>3, <2>4, AdvanceFields
  <1>14. ASSUME NEW s PROVE Alike(s)' = Alike(s) /\ Remaining(s)' = Remaining(s)
    BY <1>1, <1>6 DEF Alike, Remaining
  <1>15. UnreadAtFirst' /\ Latest' /\ FromTheFirst'
    BY <1>1, <1>2, <1>5, <1>6, <1>13
       DEF Follows, UnreadAtFirst, Latest, FromTheFirst
  <1>16. SinceIsDelivered'
    BY <1>1, <1>5, <1>6 DEF Follows, SinceIsDelivered, Attached
  <1>17. Closed'
    BY <1>1, <1>5, <1>6 DEF Follows, Closed, Late
  <1>18. ReadSoFar'
    BY <1>1, <1>2, <1>5, <1>6 DEF Follows, ReadSoFar, Late
  <1>19. RepeatedSecond'
    BY <1>1, <1>6, <1>7, <1>13 DEF Follows, RepeatedSecond, Ahead, Attached
  <1>20. CountsAreTrue'
    BY <1>13, <1>14 DEF Follows, CountsAreTrue, Current
  <1>21. UncountedIsUncertain'
    BY <1>9, <1>13, <1>14 DEF UncountedIsUncertain, Counted
  <1>22. ReplayIsTrue'
    BY <1>1, <1>13, <1>14 DEF Follows, ReplayIsTrue, Attached
  <1>23. Told'
    <2>1. ASSUME NEW k \in Deliveries, Uncounted(k)'
          PROVE  Overfull(k)' /\ (Announced(k)' \/ out'[k].pos < conn'.at)
      <3>1. /\ Announced(k) => Announced(k)'
            /\ Overfull(k)' <=> Overfull(k)
            /\ out'[k] = out[k]
        <4>1. /\ Deliveries' \in SUBSET Nat /\ k \in Deliveries'
              /\ Deliveries \subseteq Deliveries'
          BY <1>3, <1>4, <1>5
        <4>3. Len(out') \in Nat /\ Len(out') >= Len(out)
          BY <1>4, <1>5
        <4>2. \A l \in Deliveries' : l > Len(out) \/ l \in Deliveries
          BY <1>3, <1>4, <1>5
        <4> QED BY <1>1, <1>5, <4>1, <4>2, <4>3, SaidBefore
      <3>2. Uncounted(k)
        BY <1>1, <1>13, <2>1, <3>1 DEF Uncounted, Current
      <3>3. Overfull(k) /\ (Announced(k) \/ out[k].pos < conn.at)
        BY <1>1, <3>2 DEF Follows, Told
      <3> QED BY <1>1, <3>1, <3>3
    <2>2. Overfull(j)'
      BY <1>1, <1>3, <1>5, <1>8, <1>10, <1>11, OverfullNow
    <2>3. out'[j].pos < conn'.at
      <3>1. h = conn.at - 1
        BY <1>1, <1>2
      <3>2. h < conn.at
        BY <1>4, <3>1
      <3> QED BY <1>1, <1>5, <3>2
    <2> QED BY <1>1, <1>5, <1>13, <2>1, <2>2, <2>3 DEF Told, Attached
  <1>24. HeldIsNext'
    BY <1>1 DEF HeldIsNext
  <1>25. KeyIsKnown'
    BY <1>1, <1>7, <1>13 DEF KeyIsKnown
  <1> QED BY <1>15, <1>16, <1>17, <1>18, <1>19, <1>20, <1>21, <1>22, <1>23, <1>24, <1>25
          DEF Follows

\* The counts after a line was delivered that had not been.
LEMMA CountsDeliverNew ==
    ASSUME Base, Base', Follows, NEW h \in 1..Len(log), h \notin Places,
           Places' = Places \cup {h}, log' = log, cursor' = Advance(cursor, log[h])
    PROVE  CountsAreTrue' /\ UncountedIsUncertain'
  <1> DEFINE r == log[h]
  <1>1. /\ r \in Records /\ r.time \in Nat \ {0} /\ cursor \in Cursors /\ cursor.time \in Nat
        /\ cursor.counts \in [Records -> Nat] /\ cursor' \in Cursors
    BY LogRecords DEF Base, TypeOK, Cursors
  <1>2. Second(r.time) \in Nat /\ Second(cursor.time) \in Nat
    BY <1>1, SecondType
  <1>3. /\ Places \in SUBSET (1..Len(log)) /\ Len(log) \in Nat
        /\ \A q \in Places : log[q].time <= cursor.time /\ log[q].time \in Nat
    BY PlacesFacts, LogRecords DEF Base, Follows, Latest
  <1>4. \A q \in Places : Second(log[q].time) <= Second(cursor.time)
    BY <1>1, <1>3, SecondMonotone
  <1>5. \A s : Alike(s)' = IF s = r THEN Alike(s) \cup {h} ELSE Alike(s)
    BY DEF Alike
  <1>6. ASSUME NEW s \in Records
        PROVE  /\ Cardinality(Alike(s)) \in Nat
               /\ Cardinality(Alike(s)') = IF s = r THEN Cardinality(Alike(s)) + 1
                                           ELSE Cardinality(Alike(s))
               /\ Alike(s) = {} <=> Cardinality(Alike(s)) = 0
    <2>1. IsFiniteSet(Alike(s)) /\ h \notin Alike(s)
      BY AlikeIsFinite DEF Alike
    <2>2. Cardinality(Alike(s) \cup {h}) = Cardinality(Alike(s)) + 1
      BY <2>1, FS_AddElement
    <2> QED BY <1>5, <2>2, AlikeIsFinite
  <1>7. CountsAreTrue /\ UncountedIsUncertain
    BY DEF Follows
  <1>8. /\ IsFiniteSet(Counted) /\ Cardinality(Counted) \in Nat
        /\ CountLimit \in Nat \ {0}
        /\ Room(cursor, r) <=> cursor.counts[r] > 0 \/ Cardinality(Counted) < CountLimit
    BY <1>1, <1>7, CountedIsFinite
  <1>9. cursor' = Advance(cursor, r)
    OBVIOUS
  <1> HIDE DEF r
  <1>10. /\ Second(r.time) < Second(cursor.time) => Advance(cursor, r) = cursor
         /\ Second(r.time) >= Second(cursor.time) => Advance(cursor, r).time =
                IF r.time > cursor.time THEN r.time ELSE cursor.time
         /\ Second(r.time) > Second(cursor.time) =>
                Advance(cursor, r).counts = [None EXCEPT ![r] = 1]
         /\ Level(cursor, r) /\ Room(cursor, r) =>
                /\ Advance(cursor, r).counts = [cursor.counts EXCEPT ![r] = @ + 1]
                /\ Advance(cursor, r).uncertain <=> cursor.uncertain
         /\ Level(cursor, r) /\ ~Room(cursor, r) =>
                Advance(cursor, r).counts = cursor.counts /\ Advance(cursor, r).uncertain
    BY <1>1, AdvanceFields
  <1>11. CASE Second(r.time) < Second(cursor.time)
    <2>1. cursor' = cursor
      BY <1>9, <1>1, <1>11, <1>10
    <2>2. ~Current(r)
      BY <1>2, <1>11 DEF Current
    <2>3. \A s \in Records : Current(s) => Alike(s)' = Alike(s) /\ s # r
      BY <1>5, <2>2
    <2>4. CountsAreTrue'
      <3> SUFFICES ASSUME NEW s \in Records, cursor.counts[s] > 0
                   PROVE  Current(s)' /\ cursor.counts[s] = Cardinality(Alike(s)')
        BY <2>1 DEF CountsAreTrue
      <3>1. Current(s) /\ cursor.counts[s] = Cardinality(Alike(s))
        BY <1>7 DEF CountsAreTrue
      <3> QED BY <2>1, <2>3, <3>1 DEF Current
    <2>5. UncountedIsUncertain'
      <3> SUFFICES ASSUME NEW s \in Records, cursor.counts[s] = 0, Alike(s)' # {}, Current(s)'
                   PROVE  cursor.uncertain /\ Cardinality(Counted') >= CountLimit
        BY <2>1 DEF UncountedIsUncertain
      <3>1. Current(s) /\ Alike(s) # {}
        BY <2>1, <2>3 DEF Current
      <3>2. Counted' = Counted
        BY <2>1 DEF Counted
      <3> QED BY <1>7, <3>1, <3>2 DEF UncountedIsUncertain
    <2> QED BY <2>4, <2>5
  <1>12. CASE Second(r.time) > Second(cursor.time)
    <2>1. cursor'.counts = [None EXCEPT ![r] = 1]
      BY <1>9, <1>1, <1>12, <1>10
    <2>2. cursor'.time = r.time
      <3>1. r.time > cursor.time
        BY <1>1, <1>2, <1>12, SecondMonotone
      <3>2. Second(r.time) >= Second(cursor.time)
        BY <1>2, <1>12
      <3> QED BY <1>9, <1>1, <3>1, <3>2, <1>10
    <2>3. \A s \in Records : cursor'.counts[s] = IF s = r THEN 1 ELSE 0
      BY <1>1, <2>1 DEF None
    <2>4. \A s \in Records : Alike(s) # {} => Second(s.time) # Second(r.time)
      <3> SUFFICES ASSUME NEW s \in Records, NEW p \in Alike(s), Second(s.time) = Second(r.time)
                   PROVE  FALSE
        OBVIOUS
      <3>1. p \in Places /\ log[p] = s
        BY DEF Alike
      <3>2. Second(s.time) <= Second(cursor.time)
        BY <1>4, <3>1
      <3> QED BY <1>2, <1>12, <3>2
    <2>5. CountsAreTrue'
      <3>1. Cardinality(Alike(r)) = 0 /\ r \in Records
        BY <1>1, <1>6, <2>4
      <3>2. Cardinality(Alike(r)) + 1 = 1
        BY <3>1
      <3> SUFFICES ASSUME NEW s \in Records, cursor'.counts[s] > 0
                   PROVE  Current(s)' /\ cursor'.counts[s] = Cardinality(Alike(s)')
        BY DEF CountsAreTrue
      <3>3. s = r
        BY <2>3
      <3> QED BY <1>6, <2>2, <2>3, <3>2, <3>3 DEF Current
    <2>6. UncountedIsUncertain'
      <3> SUFFICES ASSUME NEW s \in Records, cursor'.counts[s] = 0, Alike(s)' # {}, Current(s)'
                   PROVE  FALSE
        BY DEF UncountedIsUncertain
      <3>1. s # r
        BY <2>3
      <3>2. Alike(s) # {} /\ Second(s.time) = Second(r.time)
        BY <1>5, <2>2, <3>1 DEF Current
      <3> QED BY <2>4, <3>2
    <2> QED BY <2>5, <2>6
  <1>13. CASE Second(r.time) = Second(cursor.time)
    <2>1. Level(cursor, r) /\ Current(r)
      BY <1>13 DEF Level, Current
    <2>2. Second(cursor'.time) = Second(cursor.time)
      <3>1. cursor'.time = IF r.time > cursor.time THEN r.time ELSE cursor.time
        <4>1. Second(r.time) >= Second(cursor.time)
          BY <1>2, <1>13
        <4> QED BY <1>9, <1>1, <4>1, <1>10
      <3> QED BY <1>13, <3>1
    <2>3. \A s : Current(s)' <=> Current(s)
      BY <2>2 DEF Current
    <2>4. CASE Room(cursor, r)
      <3>1. cursor'.counts = [cursor.counts EXCEPT ![r] = @ + 1]
        BY <1>9, <1>1, <2>1, <2>4, <1>10
      <3>2. cursor'.uncertain <=> cursor.uncertain
        BY <1>9, <1>1, <2>1, <2>4, <1>10
      <3>3. cursor.counts[r] = Cardinality(Alike(r))
        <4>1. CASE cursor.counts[r] > 0
          BY <1>1, <1>7, <4>1 DEF CountsAreTrue
        <4>2. CASE ~(cursor.counts[r] > 0)
          <5>1. cursor.counts[r] = 0 /\ Cardinality(Counted) < CountLimit
            BY <1>1, <1>8, <2>4, <4>2
          <5>2. ~(Cardinality(Counted) >= CountLimit)
            BY <1>8, <5>1
          <5>3. Alike(r) = {}
            BY <1>1, <1>7, <2>1, <5>1, <5>2 DEF UncountedIsUncertain
          <5> QED BY <1>1, <1>6, <5>1, <5>3
        <4> QED BY <4>1, <4>2
      <3>4. \A s \in Records : cursor'.counts[s] = IF s = r THEN cursor.counts[r] + 1
                                                   ELSE cursor.counts[s]
        BY <1>1, <3>1
      <3>5. CountsAreTrue'
        <4> SUFFICES ASSUME NEW s \in Records, cursor'.counts[s] > 0
                     PROVE  Current(s) /\ cursor'.counts[s] = Cardinality(Alike(s)')
          BY <2>3 DEF CountsAreTrue
        <4>1. CASE s = r
          BY <1>6, <2>1, <3>3, <3>4, <4>1
        <4>2. CASE s # r
          BY <1>6, <1>7, <3>4, <4>2 DEF CountsAreTrue
        <4> QED BY <4>1, <4>2
      <3>6. UncountedIsUncertain'
        <4> SUFFICES ASSUME NEW s \in Records, cursor'.counts[s] = 0, Alike(s)' # {}, Current(s)
                     PROVE  cursor.uncertain /\ Cardinality(Counted') >= CountLimit
          BY <2>3, <3>2 DEF UncountedIsUncertain
        <4>1. s # r /\ cursor.counts[s] = 0 /\ Alike(s) # {}
          BY <1>1, <1>5, <3>4
        <4>2. cursor.uncertain /\ Cardinality(Counted) >= CountLimit
          BY <1>7, <4>1 DEF UncountedIsUncertain
        <4>3. cursor.counts[r] > 0
          BY <1>8, <2>4, <4>2
        <4>4. Counted' = Counted
          BY <1>1, <3>4, <4>3 DEF Counted
        <4> QED BY <4>2, <4>4
      <3> QED BY <3>5, <3>6
    <2>5. CASE ~Room(cursor, r)
      <3>1. cursor'.counts = cursor.counts /\ cursor'.uncertain
        BY <1>9, <1>1, <2>1, <2>5, <1>10
      <3>2. cursor.counts[r] = 0 /\ Cardinality(Counted) >= CountLimit
        BY <1>1, <1>8, <2>5
      <3>3. CountsAreTrue'
        <4> SUFFICES ASSUME NEW s \in Records, cursor.counts[s] > 0
                     PROVE  Current(s) /\ cursor.counts[s] = Cardinality(Alike(s)')
          BY <2>3, <3>1 DEF CountsAreTrue
        <4>1. s # r
          BY <3>2
        <4> QED BY <1>6, <1>7, <4>1 DEF CountsAreTrue
      <3>4. Counted' = Counted
        BY <3>1 DEF Counted
      <3>5. UncountedIsUncertain'
        BY <3>1, <3>2, <3>4 DEF UncountedIsUncertain
      <3> QED BY <3>3, <3>5
    <2> QED BY <2>4, <2>5
  <1> QED BY <1>2, <1>11, <1>12, <1>13

\* Delivering a line for the first time preserves Follows.
LEMMA FollowsDeliverNew ==
    ASSUME Base, Base', Follows, Deliver, held.pos \notin Places
    PROVE  Follows'
  <1>1. /\ cursor' = Advance(cursor, log[held.pos])
        /\ out' = Append(out, Item("record", held.pos, held.masked))
        /\ held.pos = conn.at - 1 /\ held.masked \in BOOLEAN
        /\ pc = "send" /\ pc' = "read" /\ UNCHANGED <<log, conn>>
    BY BaseDeliver
  <1>2. PICK h \in 1..Len(log) : h = held.pos /\ log[h] \in Records /\ h \in Nat
    BY BaseDeliver
  <1>3. PICK j \in Nat : j = Len(out) + 1
    BY DEF Base, TypeOK
  <1> DEFINE r == log[h]
  <1>4. /\ Places \in SUBSET (1..Len(log)) /\ Places \in SUBSET Nat
        /\ Places # {} => First \in 1..Len(log) /\ First \in Places
        /\ Deliveries \in SUBSET (1..Len(out)) /\ Deliveries \in SUBSET Nat
        /\ Len(log) \in Nat /\ Len(out) \in Nat /\ conn.at \in Nat \ {0}
        /\ cursor \in Cursors /\ cursor.time \in Nat
        /\ cursor.counts \in [Records -> Nat]
    BY PlacesFacts DEF Base, TypeOK, Streams, Cursors
  <1>5. /\ Deliveries' = Deliveries \cup {j} /\ Places' = Places \cup {h}
        /\ First' = IF Places = {} THEN h ELSE First
        /\ \A i \in 1..Len(out) : out'[i] = out[i]
        /\ Len(out') = Len(out) + 1 /\ out'[j].pos = h
    BY <1>1, <1>2, <1>3, TookRecord DEF Base
  <1>6. h \notin Places /\ \A q \in Places : q < h
    BY <1>1, <1>2 DEF Follows, HeldIsNext
  <1>7. h < conn.at /\ conn.at - 1 = h /\ conn.at = h + 1
    BY <1>1, <1>2, <1>4
  <1>8. /\ r.time \in Nat \ {0} /\ r \in Records /\ Second(r.time) \in Nat
        /\ Second(cursor.time) \in Nat
    BY <1>2, <1>4, LogRecords, SecondType DEF Base
  <1>9. /\ Second(r.time) < Second(cursor.time) => Advance(cursor, r) = cursor
        /\ Second(r.time) >= Second(cursor.time) => Advance(cursor, r).time =
               IF r.time > cursor.time THEN r.time ELSE cursor.time
        /\ Second(r.time) > Second(cursor.time) =>
               /\ Advance(cursor, r).replay = None
               /\ Advance(cursor, r).counts = [None EXCEPT ![r] = 1]
               /\ Advance(cursor, r).limited <=> cursor.limited
        /\ Level(cursor, r) =>
               Advance(cursor, r).replay = IF r.time > cursor.time THEN None ELSE cursor.replay
        /\ Level(cursor, r) /\ Room(cursor, r) =>
               /\ Advance(cursor, r).counts = [cursor.counts EXCEPT ![r] = @ + 1]
               /\ Advance(cursor, r).limited <=> cursor.limited
        /\ Level(cursor, r) /\ ~Room(cursor, r) =>
               Advance(cursor, r).counts = cursor.counts /\ Advance(cursor, r).limited
        /\ Advance(cursor, r).failClosed <=> cursor.failClosed
        /\ Advance(cursor, r).inKey <=> cursor.inKey
    BY <1>4, <1>8, AdvanceFields
  <1>10. cursor' = Advance(cursor, r)
    BY <1>1, <1>2
  <1> HIDE DEF r
  <1>11. CountsAreTrue' /\ UncountedIsUncertain'
    BY <1>1, <1>2, <1>5, <1>6, CountsDeliverNew
  <1>12. cursor'.time = IF r.time > cursor.time THEN r.time ELSE cursor.time
    <2>1. CASE Second(r.time) < Second(cursor.time)
      <3>1. ~(r.time > cursor.time)
        BY <1>4, <1>8, <2>1, SecondMonotone
      <3> QED BY <1>9, <1>10, <2>1, <3>1
    <2>2. CASE Second(r.time) >= Second(cursor.time)
      BY <1>9, <1>10, <2>2
    <2> QED BY <1>8, <2>1, <2>2
  <1>13. UnreadAtFirst'
    BY <1>5 DEF UnreadAtFirst
  <1>14. Latest'
    <2>1. \A q \in Places : log[q].time <= cursor.time /\ log[q].time \in Nat
      BY <1>4, LogRecords DEF Follows, Latest, Base
    <2>2. \A q \in Places \cup {h} : log[q].time <= cursor'.time
      BY <1>4, <1>8, <1>12, <2>1 DEF r
    <2>3. \E q \in Places \cup {h} : log[q].time = cursor'.time
      <3>1. CASE r.time > cursor.time
        BY <1>12, <3>1 DEF r
      <3>2. CASE ~(r.time > cursor.time)
        <4>1. Places # {}
          BY <1>8, <3>2 DEF Follows, Latest
        <4> QED BY <1>12, <3>2, <4>1 DEF Follows, Latest
      <3> QED BY <3>1, <3>2
    <2> QED BY <1>1, <1>5, <2>2, <2>3 DEF Latest
  <1>15. SinceIsDelivered'
    BY <1>1, <1>5, <1>7 DEF Follows, SinceIsDelivered, Attached
  <1>16. FromTheFirst'
    <2>1. Places # {} => First <= h
      BY <1>1, <1>2 DEF Follows, FromTheFirst
    <2> QED BY <1>1, <1>2, <1>5, <2>1 DEF Follows, FromTheFirst
  <1>17. ASSUME Places # {}, NEW p \in First..h PROVE p \in Places \cup {h} \/ Late(p, Places)
    BY <1>1, <1>2, <1>7, <1>17 DEF Follows, ReadSoFar
  <1>18. ASSUME NEW q \in Places \cup {h}, NEW p \in First'..q
         PROVE  p \in Places \cup {h} \/ Late(p, Places)
    <2>1. CASE Places = {}
      BY <1>2, <1>5, <1>18, <2>1
    <2>2. CASE Places # {} /\ q = h
      BY <1>5, <1>17, <2>2
    <2>3. CASE q \in Places
      BY <1>5, <2>3 DEF Follows, Closed
    <2> QED BY <2>1, <2>2, <2>3
  <1>19. Closed'
    BY <1>1, <1>5, <1>18 DEF Closed, Late
  <1>20. ReadSoFar'
    BY <1>1, <1>5, <1>7, <1>18 DEF ReadSoFar, Late
  <1>21. \A q \in Places' : ~(q >= conn'.at)
    <2>1. \A q \in Places : q \in Nat /\ q < h
      BY <1>4, <1>6
    <2> QED BY <1>1, <1>2, <1>5, <1>7, <2>1
  <1>22. RepeatedSecond'
    BY <1>21 DEF RepeatedSecond, Ahead
  <1>23. ReplayIsTrue'
    <2>1. \A s : Remaining(s)' = {}
      BY <1>21 DEF Remaining, Alike
    <2>2. \A s : Remaining(s) = {}
      <3>1. \A q \in Places : ~(q >= conn.at)
        BY <1>1, <1>5, <1>21
      <3> QED BY <3>1 DEF Remaining, Alike
    <2>3. Cardinality({}) = 0
      BY FS_EmptySet
    <2>4. \A s \in Records : cursor.replay[s] = 0
      BY <1>1, <2>2, <2>3 DEF Follows, ReplayIsTrue, Attached
    <2>5. cursor'.replay = None \/ cursor'.replay = cursor.replay
      BY <1>8, <1>9, <1>10 DEF Level
    <2>6. \A s \in Records : cursor'.replay[s] = 0
      BY <2>4, <2>5 DEF None
    <2> QED BY <2>1, <2>3, <2>6 DEF ReplayIsTrue
  <1>24. Told'
    <2>1. ASSUME NEW k \in Deliveries, Uncounted(k)'
          PROVE  /\ Overfull(k)'
                 /\ Announced(k)' \/ (cursor'.limited /\ out'[k].pos < conn'.at)
      <3>1. /\ Announced(k) => Announced(k)'
            /\ Overfull(k)' <=> Overfull(k)
            /\ out'[k] = out[k]
        <4>1. /\ Deliveries' \in SUBSET Nat /\ k \in Deliveries'
              /\ Deliveries \subseteq Deliveries'
          BY <1>3, <1>4, <1>5
        <4>2. \A l \in Deliveries' : l > Len(out) \/ l \in Deliveries
          BY <1>3, <1>4, <1>5
        <4>3. Len(out') \in Nat /\ Len(out') >= Len(out)
          BY <1>4, <1>5
        <4> QED BY <1>1, <1>5, <4>1, <4>2, <4>3, SaidBefore
      <3> DEFINE x == log[out[k].pos]
      <3>2. x \in Records /\ Second(x.time) \in Nat /\ Second(x.time) <= Second(cursor.time)
        <4>1. out[k].pos \in Places /\ out[k].pos \in 1..Len(log)
          BY <1>4 DEF Places
        <4>2. x \in Records /\ x.time \in Nat /\ x.time <= cursor.time
          BY <4>1, LogRecords DEF Follows, Latest, Base
        <4> QED BY <1>4, <4>2, SecondType, SecondMonotone
      <3>3. Second(x.time) = Second(cursor'.time) /\ cursor'.counts[x] = 0
        BY <1>1, <2>1, <3>1 DEF Uncounted, Current
      <3>4. ~(Second(r.time) > Second(cursor.time))
        <4>1. SUFFICES ASSUME Second(r.time) > Second(cursor.time) PROVE FALSE
          OBVIOUS
        <4>2. r.time > cursor.time
          BY <1>4, <1>8, <4>1, SecondMonotone
        <4>3. Second(x.time) = Second(r.time)
          BY <1>12, <3>3, <4>2
        <4> QED BY <1>8, <3>2, <4>1, <4>3
      <3> HIDE DEF x
      <3>5. /\ Second(x.time) = Second(cursor.time) /\ cursor.counts[x] = 0
            /\ cursor.limited => cursor'.limited
        <4>1. CASE Second(r.time) < Second(cursor.time)
          BY <1>9, <1>10, <3>3, <4>1
        <4>2. CASE Second(r.time) = Second(cursor.time)
          <5>1. Second(cursor'.time) = Second(cursor.time)
            BY <1>12, <4>2
          <5>2. Level(cursor, r)
            BY <4>2 DEF Level
          <5>3. CASE Room(cursor, r)
            <6>1. cursor'.counts = [cursor.counts EXCEPT ![r] = @ + 1]
                  /\ (cursor'.limited <=> cursor.limited)
              BY <1>9, <1>10, <5>2, <5>3
            <6>2. cursor.counts[r] \in Nat /\ cursor.counts[x] \in Nat
              BY <1>4, <1>8, <3>2
            <6>3. x # r
              BY <1>4, <1>8, <3>3, <6>1, <6>2
            <6> QED BY <1>4, <3>2, <3>3, <5>1, <6>1, <6>3
          <5>4. CASE ~Room(cursor, r)
            BY <1>9, <1>10, <3>3, <5>1, <5>2, <5>4
          <5> QED BY <5>3, <5>4
        <4> QED BY <1>8, <3>4, <4>1, <4>2
      <3>6. Uncounted(k)
        BY <3>5 DEF Uncounted, Current, x
      <3>7. Overfull(k) /\ (Announced(k) \/ (cursor.limited /\ out[k].pos < conn.at))
        BY <1>1, <3>6 DEF Follows, Told
      <3> QED BY <1>1, <3>1, <3>5, <3>7
    <2>2. ASSUME Uncounted(j)' PROVE Overfull(j)' /\ cursor'.limited
      <3>1. Second(r.time) = Second(cursor'.time) /\ cursor'.counts[r] = 0
        BY <1>1, <1>5, <2>2 DEF Uncounted, Current, r
      <3>2. ~(Second(r.time) < Second(cursor.time))
        BY <1>8, <1>9, <1>10, <3>1
      <3>3. ~(Second(r.time) > Second(cursor.time))
        BY <1>8, <1>9, <1>10, <3>1 DEF None
      <3>4. Level(cursor, r)
        BY <1>8, <3>2, <3>3 DEF Level
      <3>5. ~Room(cursor, r)
        BY <1>4, <1>8, <1>9, <1>10, <3>1, <3>4
      <3>6. Overfull(j)'
        BY <1>1, <1>3, <1>5, <3>4, <3>5, OverfullNow DEF Follows, r
      <3> QED BY <1>9, <1>10, <3>4, <3>5, <3>6
    <2> QED BY <1>1, <1>5, <1>7, <2>1, <2>2 DEF Told, Attached
  <1>25. HeldIsNext'
    BY <1>1 DEF HeldIsNext
  <1>26. KeyIsKnown'
    <2>1. Exposed(Places)' <=> Exposed(Places \cup {held.pos})
      BY <1>1, <1>2, <1>5 DEF Exposed, Opens
    <2> QED BY <1>1, <1>9, <1>10, <2>1 DEF Follows, KeyIsKnown
  <1> QED BY <1>11, <1>13, <1>14, <1>15, <1>16, <1>19, <1>20, <1>22, <1>23, <1>24, <1>25,
             <1>26 DEF Follows

\* What a step may do to the log and to what the channel has taken.
LEMMA HistoryGrows ==
    ASSUME LogSourceInv, [Next]_vars
    PROVE  /\ Base' /\ Grows
           /\ Places # {} => Places' # {} /\ First' = First
           /\ \A i \in 1..Len(out) : out'[i] = out[i]
           /\ Len(out') \in Nat /\ Len(out') >= Len(out)
           /\ Deliveries' = IF Deliver THEN Deliveries \cup {Len(out) + 1} ELSE Deliveries
           /\ ~Deliver => Places' = Places
  <1>1. Base /\ TypeOK /\ Bounds /\ Len(out) \in Nat /\ Len(log) \in Nat
    BY DEF LogSourceInv, Base, TypeOK
  <1>2. CASE Deliver
    <2>1. /\ Base' /\ out' = Append(out, Item("record", held.pos, held.masked))
          /\ held.pos \in 1..Len(log) /\ held.masked \in BOOLEAN /\ log' = log
      BY <1>1, <1>2, BaseDeliver
    <2>2. held.pos \in Nat
      BY <1>1, <2>1
    <2>3. /\ Deliveries' = Deliveries \cup {Len(out) + 1}
          /\ Places' = Places \cup {held.pos}
          /\ First' = IF Places = {} THEN held.pos ELSE First
          /\ \A i \in 1..Len(out) : out'[i] = out[i]
          /\ Len(out') = Len(out) + 1
      BY <1>1, <2>1, <2>2, TookRecord
    <2> QED BY <1>1, <1>2, <2>1, <2>3 DEF Grows
  <1>3. CASE AnnounceLimit \/ Restart
    <2>1. ~Deliver /\ log' = log
      BY <1>3 DEF AnnounceLimit, Restart, Deliver, serverVars
    <2>2. Base' /\ \E item \in Items : item.kind # "record" /\ out' = Append(out, item)
      BY <1>1, <1>3, BaseMarks
    <2>3. /\ Deliveries' = Deliveries /\ Places' = Places
          /\ Places # {} => First' = First
          /\ \A i \in 1..Len(out) : out'[i] = out[i]
          /\ Len(out') = Len(out) + 1
      BY <1>1, <2>2, TookMarker
    <2> QED BY <1>1, <2>1, <2>2, <2>3 DEF Grows
  <1>4. CASE Base' /\ Grows /\ out' = out
    <2>1. ~Deliver
      <3>1. SUFFICES ASSUME Deliver PROVE FALSE
        OBVIOUS
      <3>2. out' = Append(out, Item("record", held.pos, held.masked))
        BY <3>1 DEF Deliver
      <3>3. Len(out') = Len(out) + 1
        BY <1>1, <3>2 DEF TypeOK
      <3> QED BY <1>1, <1>4, <3>3
    <2> QED BY <1>1, <1>4, <2>1, TookNothing
  <1>5. CASE \/ \E r \in Records : WriteLine(r)
             \/ ContainerEnds \/ StreamFails \/ StreamBreaks \/ StreamCompletes
             \/ StoreTerminal \/ Cancel
    <2>1. Base'
      BY <1>1, <1>5, BaseServer
    <2>2. out' = out
      BY <1>5 DEF WriteLine, ContainerEnds, StreamFails, StreamBreaks, StreamCompletes,
                  StoreTerminal, Cancel, Shut
    <2>3. Grows
      <3>1. CASE \E r \in Records : WriteLine(r)
        BY <1>1, <3>1, LogGrows DEF WriteLine, Grows
      <3>2. CASE ~ \E r \in Records : WriteLine(r)
        <4>1. log' = log
          BY <1>5, <3>2 DEF ContainerEnds, StreamFails, StreamBreaks, StreamCompletes,
                            StoreTerminal, Cancel, Shut, serverVars
        <4> QED BY <1>1, <4>1 DEF Grows
      <3> QED BY <3>1, <3>2
    <2> QED BY <1>4, <2>1, <2>2, <2>3
  <1>6. CASE \/ Quit \/ OpenFails \/ OpenDenied \/ ReadEnds \/ Complete \/ Exhausted
             \/ TryAgain \/ SkipMarker \/ RetryTimer \/ SendCancelled
    <2>1. Base'
      BY <1>1, <1>6, BaseMoves
    <2>2. log' = log /\ out' = out
      BY <1>6 DEF Quit, OpenFails, OpenDenied, ReadEnds, Complete, Exhausted, TryAgain,
                  SkipMarker, RetryTimer, SendCancelled, Finish, serverVars
    <2> QED BY <1>1, <1>4, <2>1, <2>2 DEF Grows
  <1>7. CASE OpenStream
    <2>1. Base' /\ log' = log /\ out' = out
      BY <1>1, <1>7, BaseOpen DEF OpenStream, serverVars
    <2> QED BY <1>1, <1>4, <2>1 DEF Grows
  <1>8. CASE ReadReplayed \/ ReadRecord
    <2>1. Base' /\ log' = log /\ out' = out
      BY <1>1, <1>8, BaseReads
    <2> QED BY <1>1, <1>4, <2>1 DEF Grows
  <1>9. CASE UNCHANGED vars
    <2>1. Base' /\ log' = log /\ out' = out
      BY <1>1, <1>9 DEF vars, Base, TypeOK, Bounds, Ending, Deliveries, Sec
    <2> QED BY <1>1, <1>4, <2>1 DEF Grows
  <1> QED BY <1>2, <1>3, <1>5, <1>6, <1>7, <1>8, <1>9 DEF Next, Worker, Consumer

\* Every step preserves the invariant.
LEMMA LogSourceStep ==
    ASSUME LogSourceInv, [Next]_vars
    PROVE  LogSourceInv'
  <1>1. Base /\ Base' /\ Grows /\ (Places # {} => Places' # {} /\ First' = First)
    BY HistoryGrows DEF LogSourceInv
  <1>2. SUFFICES ASSUME ~TailCutsSecond' PROVE Follows'
    BY <1>1 DEF LogSourceInv
  <1>3. ~TailCutsSecond
    BY <1>1, <1>2, CutIsStable
  <1>4. Follows
    BY <1>3 DEF LogSourceInv
  <1>5. CASE \/ \E r \in Records : WriteLine(r)
             \/ ContainerEnds \/ StreamFails \/ StreamBreaks \/ StreamCompletes
             \/ StoreTerminal \/ Cancel \/ UNCHANGED vars
    <2>1. UNCHANGED <<cursor, pc, held, out>>
      BY <1>5 DEF WriteLine, ContainerEnds, StreamFails, StreamBreaks, StreamCompletes,
                  StoreTerminal, Cancel, Shut, workerVars, serverVars, vars
    <2>2. conn'.at = conn.at /\ conn'.since = conn.since
      <3>1. conn' = conn \/ \E h, upto : conn' = [conn EXCEPT !.shut = h, !.upto = upto]
        BY <1>5 DEF WriteLine, ContainerEnds, StreamFails, StreamBreaks, StreamCompletes,
                    StoreTerminal, Cancel, Shut, workerVars, serverVars, vars
      <3>2. conn \in Streams
        BY <1>1 DEF Base, TypeOK
      <3> QED BY <3>1, <3>2 DEF Streams
    <2>3. Deliveries' = Deliveries /\ Places' = Places
      BY <2>1, TookNothing
    <2> QED BY <1>1, <1>4, <2>1, <2>2, <2>3, FollowsIdle
  <1>6. CASE \/ Quit \/ OpenFails \/ OpenDenied \/ ReadEnds \/ Complete \/ Exhausted
             \/ TryAgain \/ SkipMarker \/ RetryTimer \/ SendCancelled
    BY <1>1, <1>4, <1>6, FollowsMoves
  <1>7. CASE AnnounceLimit \/ Restart
    BY <1>1, <1>4, <1>7, FollowsMarks
  <1>8. CASE OpenStream
    BY <1>1, <1>4, <1>8, FollowsOpen
  <1>9. CASE ReadReplayed
    BY <1>1, <1>3, <1>4, <1>9, FollowsReplayed
  <1>10. CASE ReadRecord
    BY <1>1, <1>3, <1>4, <1>10, FollowsRead
  <1>11. CASE Deliver
    BY <1>1, <1>4, <1>11, FollowsDeliverAgain, FollowsDeliverNew
  <1> QED BY <1>5, <1>6, <1>7, <1>8, <1>9, <1>10, <1>11 DEF Next, Worker, Consumer

\* The invariant holds at first.
LEMMA LogSourceInit == Init => LogSourceInv
  <1> SUFFICES ASSUME Init PROVE Base /\ Follows
    BY DEF LogSourceInv
  <1>1. Base
    BY BaseInit
  <1>2. Deliveries = {} /\ Places = {} /\ pc = "open" /\ cursor = NewCursor /\ conn = NoStream
    BY DEF Init, Deliveries, Places
  <1>3. cursor.time = 0 /\ cursor.counts = None
    BY <1>2 DEF NewCursor
  <1>4. UnreadAtFirst /\ Latest /\ SinceIsDelivered /\ FromTheFirst /\ Closed /\ ReadSoFar
    BY <1>2, <1>3, NoStreamFields
       DEF UnreadAtFirst, Latest, SinceIsDelivered, FromTheFirst, Closed, ReadSoFar, Attached
  <1>5. RepeatedSecond /\ ReplayIsTrue /\ HeldIsNext /\ Told
    BY <1>2 DEF RepeatedSecond, Ahead, Attached, ReplayIsTrue, HeldIsNext, Told
  <1>6. CountsAreTrue /\ UncountedIsUncertain
    BY <1>2, <1>3 DEF CountsAreTrue, UncountedIsUncertain, None, Alike
  <1>7. KeyIsKnown
    BY <1>2 DEF KeyIsKnown, Exposed
  <1> QED BY <1>1, <1>4, <1>5, <1>6, <1>7 DEF Follows

\* The inductive invariant: what runLogSource and its cursor know of what they
\* delivered.
THEOREM LogSourceInvariant == Spec => []LogSourceInv
  <1>1. LogSourceInv /\ [Next]_vars => LogSourceInv'
    BY LogSourceStep
  <1> QED BY <1>1, LogSourceInit, PTL DEF Spec

\* Every variable of the source reader stays in its type.
THEOREM LogSourceTypeCorrect == Spec => []TypeOK
  <1>1. LogSourceInv => TypeOK
    BY DEF LogSourceInv, Base
  <1> QED BY <1>1, LogSourceInvariant, PTL

\* The properties, for one delivered line, or for two of the same place.
NoGap(i) ==
    \A p \in 1..(out[i].pos - 1) :
        (\E q \in DeliveredBefore(i) : q < p) =>
            p \in DeliveredBefore(i) \/ Late(p, DeliveredBefore(i))

Repeats(i, j) ==
    i < j /\ out[i].pos = out[j].pos =>
        /\ \E k \in (i + 1)..(j - 1) : out[k].kind # "record"
        /\ Overfull(i)

KeptSecret(i) ==
    (\E q \in DeliveredBefore(i) \cup {out[i].pos} :
        /\ q <= out[i].pos /\ Opens(q)
        /\ \A m \in (q + 1)..(out[i].pos - 1) :
               log[m].text = "end" => m \notin DeliveredBefore(i))
    => out[i].masked

\* The properties are about one delivered line, or about two.
LEMMA PropertyParts ==
    /\ NothingSkipped <=> (~TailCutsSecond => \A i \in Deliveries : NoGap(i))
    /\ DuplicatesAreAnnounced <=>
           (~TailCutsSecond => \A i, j \in Deliveries : Repeats(i, j))
    /\ KeyLinesStayMasked <=> (~TailCutsSecond => \A i \in Deliveries : KeptSecret(i))
  <1>1. NothingSkipped <=> (~TailCutsSecond => \A i \in Deliveries : NoGap(i))
    BY DEF NothingSkipped, NoGap
  <1>2. DuplicatesAreAnnounced <=>
           (~TailCutsSecond => \A i, j \in Deliveries : Repeats(i, j))
    BY DEF DuplicatesAreAnnounced, Repeats, Overfull
  <1>3. KeyLinesStayMasked <=> (~TailCutsSecond => \A i \in Deliveries : KeptSecret(i))
    BY DEF KeyLinesStayMasked, KeptSecret
  <1> QED BY <1>1, <1>2, <1>3

\* What holds of the lines delivered so far goes on to hold of them.
LEMMA PartsStay ==
    ASSUME LogSourceInv, [Next]_vars, NEW i \in Deliveries
    PROVE  /\ i \in Deliveries' /\ out'[i] = out[i]
           /\ DeliveredBefore(i)' = DeliveredBefore(i)
           /\ NoGap(i)' <=> NoGap(i)
           /\ KeptSecret(i)' <=> KeptSecret(i)
           /\ \A j \in Deliveries : Repeats(i, j)' <=> Repeats(i, j)
  <1>1. /\ Base /\ Base' /\ Grows
        /\ \A n \in 1..Len(out) : out'[n] = out[n]
        /\ Deliveries' = IF Deliver THEN Deliveries \cup {Len(out) + 1} ELSE Deliveries
    BY HistoryGrows DEF LogSourceInv
  <1>2. /\ Deliveries \in SUBSET (1..Len(out)) /\ Deliveries \in SUBSET Nat
        /\ Len(out) \in Nat /\ Len(log) \in Nat
        /\ \A j \in Deliveries : out[j].pos \in 1..Len(log)
    BY <1>1, PlacesFacts DEF Base, Bounds
  <1>3. ASSUME NEW n \in Nat, n <= Len(out) + 1
        PROVE  /\ DeliveredBefore(n)' = DeliveredBefore(n)
               /\ DeliveredBefore(n) \in SUBSET (1..Len(log))
    <2>1. {k \in Deliveries' : k < n} = {k \in Deliveries : k < n}
      BY <1>1, <1>2, <1>3
    <2>2. \A k \in {k \in Deliveries : k < n} : out'[k] = out[k]
      BY <1>1, <1>2
    <2>3. DeliveredBefore(n)' = {out'[j].pos : j \in {k \in Deliveries' : k < n}}
      BY DEF DeliveredBefore
    <2>4. DeliveredBefore(n)' = DeliveredBefore(n)
      BY <2>1, <2>2, <2>3 DEF DeliveredBefore
    <2> QED BY <1>2, <2>4 DEF DeliveredBefore
  <1>4. /\ i \in Deliveries' /\ out'[i] = out[i] /\ out[i].pos \in 1..Len(log)
        /\ i \in Nat /\ i <= Len(out)
    BY <1>1, <1>2
  <1>5. /\ DeliveredBefore(i)' = DeliveredBefore(i)
        /\ DeliveredBefore(i + 1)' = DeliveredBefore(i + 1)
        /\ DeliveredBefore(i) \in SUBSET (1..Len(log))
        /\ DeliveredBefore(i + 1) \in SUBSET (1..Len(log))
    <2>1. i + 1 \in Nat /\ i + 1 <= Len(out) + 1 /\ i <= Len(out) + 1
      BY <1>2, <1>4
    <2> QED BY <1>3, <1>4, <2>1
  <1>6. \A p \in 1..Len(log) : log'[p] = log[p]
    BY <1>1 DEF Grows
  <1>7. NoGap(i)' <=> NoGap(i)
    <2>1. ASSUME NEW p \in 1..(out[i].pos - 1)
          PROVE  Late(p, DeliveredBefore(i))' <=> Late(p, DeliveredBefore(i))
      <3>1. p \in 1..Len(log)
        BY <1>2, <1>4
      <3>2. \A q \in DeliveredBefore(i) : log'[q] = log[q]
        BY <1>5, <1>6
      <3> QED BY <1>5, <1>6, <3>1, <3>2 DEF Late
    <2> QED BY <1>4, <1>5, <2>1 DEF NoGap
  <1>8. KeptSecret(i)' <=> KeptSecret(i)
    <2>1. ASSUME NEW q \in DeliveredBefore(i) \cup {out[i].pos}
          PROVE  /\ Opens(q)' <=> Opens(q)
                 /\ \A m \in (q + 1)..(out[i].pos - 1) : log'[m] = log[m]
      <3>1. q \in 1..Len(log)
        BY <1>4, <1>5
      <3>2. \A m \in (q + 1)..(out[i].pos - 1) : m \in 1..Len(log)
        BY <1>2, <1>4, <3>1
      <3> QED BY <1>6, <3>1, <3>2 DEF Opens
    <2> QED BY <1>4, <1>5, <2>1 DEF KeptSecret
  <1>9. ASSUME NEW j \in Deliveries PROVE Repeats(i, j)' <=> Repeats(i, j)
    <2>1. Overfull(i)' <=> Overfull(i)
      <3>1. \A q \in DeliveredBefore(i + 1) : log'[q] = log[q]
        BY <1>5, <1>6
      <3>2. {log'[p] : p \in {q \in DeliveredBefore(i + 1) :
                 Second(log'[q].time) = Second(log'[out[i].pos].time)}}
            = {log[p] : p \in {q \in DeliveredBefore(i + 1) :
                 Second(log[q].time) = Second(log[out[i].pos].time)}}
        <4>1. log'[out[i].pos] = log[out[i].pos]
          BY <1>4, <1>6
        <4> QED BY <3>1, <4>1
      <3>3. out'[i].pos = out[i].pos
        BY <1>4
      <3> QED BY <1>5, <3>2, <3>3 DEF Overfull
    <2>2. out'[j] = out[j] /\ j \in Nat /\ j <= Len(out)
      <3>1. j \in 1..Len(out)
        BY <1>2
      <3> QED BY <1>1, <1>2, <3>1
    <2>3. \A k \in (i + 1)..(j - 1) : out'[k] = out[k]
      <3>1. (i + 1)..(j - 1) \subseteq 1..Len(out)
        BY <1>2, <1>4, <2>2
      <3> QED BY <1>1, <3>1
    <2> QED BY <1>4, <2>1, <2>2, <2>3 DEF Repeats
  <1> QED BY <1>4, <1>5, <1>7, <1>8, <1>9

\* What holds of the line that a step delivers.
LEMMA PartsOfDelivered ==
    ASSUME LogSourceInv, [Next]_vars, Deliver, ~TailCutsSecond', NEW j, j = Len(out) + 1
    PROVE  /\ NoGap(j)' /\ KeptSecret(j)'
           /\ \A i \in Deliveries : Repeats(i, j)'
           /\ \A i \in Deliveries' : Repeats(j, i)'
  <1>1. /\ Base /\ Base' /\ Grows
        /\ Places # {} => Places' # {} /\ First' = First
        /\ \A n \in 1..Len(out) : out'[n] = out[n]
        /\ Deliveries' = Deliveries \cup {j}
    BY HistoryGrows DEF LogSourceInv
  <1>2. ~TailCutsSecond
    BY <1>1, CutIsStable
  <1>3. Follows
    BY <1>2 DEF LogSourceInv
  <1>4. PICK h \in 1..Len(log) : h = held.pos /\ h = conn.at - 1 /\ log[h] \in Records
    BY <1>1, BaseDeliver
  <1>5. /\ out' = Append(out, Item("record", held.pos, held.masked))
        /\ held.masked \in BOOLEAN /\ pc = "send" /\ log' = log
    BY <1>1, BaseDeliver
  <1>6. /\ Places \in SUBSET (1..Len(log)) /\ Places \in SUBSET Nat
        /\ Places # {} => First \in Places
        /\ Deliveries \in SUBSET (1..Len(out)) /\ Deliveries \in SUBSET Nat
        /\ Len(out) \in Nat /\ Len(log) \in Nat /\ j \in Nat /\ h \in Nat
        /\ log \in Seq(Records)
    BY <1>1, PlacesFacts DEF Base, TypeOK
  <1>7. out'[j].pos = h /\ out'[j].masked = held.masked
    <2>1. held.pos \in Nat /\ TypeOK /\ Bounds
      BY <1>1, <1>4, <1>6 DEF Base
    <2> QED BY <1>4, <1>5, <2>1, TookRecord
  <1>8. DeliveredBefore(j)' = Places
    <2>1. {k \in Deliveries' : k < j} = Deliveries
      <3>1. \A k \in Deliveries : k < j
        BY <1>6
      <3>2. ~(j < j)
        BY <1>6
      <3> QED BY <1>1, <3>1, <3>2
    <2>2. \A k \in Deliveries : out'[k] = out[k]
      BY <1>1, <1>6
    <2>3. DeliveredBefore(j)' = {out'[k].pos : k \in {k \in Deliveries' : k < j}}
      BY DEF DeliveredBefore
    <2> QED BY <2>1, <2>2, <2>3 DEF Places
  <1>9. NoGap(j)'
    <2> SUFFICES ASSUME NEW p \in 1..(h - 1), NEW q \in Places, q < p
                 PROVE  p \in Places \/ Late(p, Places)
      BY <1>5, <1>7, <1>8 DEF NoGap, Late
    <2>1. First <= q /\ First \in Nat /\ q \in Nat
      BY <1>3, <1>6 DEF Follows, FromTheFirst
    <2>2. p \in First..(conn.at - 1) /\ p # h
      BY <1>4, <1>6, <2>1
    <2> QED BY <1>3, <1>4, <2>2 DEF Follows, ReadSoFar
  <1>10. ASSUME NEW i \in Deliveries PROVE Repeats(i, j)'
    <2> SUFFICES ASSUME out[i].pos = h
                 PROVE  /\ \E k \in (i + 1)..(j - 1) : out'[k].kind # "record"
                        /\ Overfull(i)
      <3>1. out'[i] = out[i] /\ (Overfull(i)' <=> Overfull(i))
        <4>1. /\ i \in Deliveries' /\ Deliveries \subseteq Deliveries'
              /\ \A n \in Deliveries' : n > Len(out) \/ n \in Deliveries
          BY <1>1, <1>6
        <4>2. Deliveries' \in SUBSET Nat
          BY <1>1, <1>6
        <4>3. Len(out') \in Nat /\ Len(out') >= Len(out)
          BY HistoryGrows
        <4> QED BY <1>1, <1>5, <4>1, <4>2, <4>3, SaidBefore
      <3> QED BY <1>7, <3>1 DEF Repeats
    <2>1. held.pos \in Places
      BY <1>4 DEF Places
    <2>2. Uncounted(i) /\ Announced(i)
      BY <1>3, <1>4, <1>5, <2>1 DEF Follows, HeldIsNext
    <2>3. Overfull(i)
      BY <1>3, <2>2 DEF Follows, Told
    <2>4. PICK k \in (i + 1)..Len(out) : out[k].kind # "record"
      BY <2>2 DEF Announced
    <2>5. k \in (i + 1)..(j - 1) /\ out'[k] = out[k]
      BY <1>1, <1>6, <2>4
    <2> QED BY <2>3, <2>4, <2>5
  <1>11. ASSUME NEW i \in Deliveries' PROVE Repeats(j, i)'
    <2>1. ~(j < i)
      <3>1. \A k \in Deliveries : ~(j < k)
        BY <1>6
      <3>2. ~(j < j)
        BY <1>6
      <3> QED BY <1>1, <1>11, <3>1, <3>2
    <2> QED BY <2>1 DEF Repeats
  <1>12. KeptSecret(j)'
    <2> SUFFICES ASSUME NEW q \in Places \cup {h}, q <= h, Opens(q),
                        \A m \in (q + 1)..(h - 1) : log[m].text = "end" => m \notin Places
                 PROVE  held.masked
      BY <1>5, <1>7, <1>8 DEF KeptSecret, Opens
    <2>1. CASE h \in Places
      BY <1>3, <1>4, <1>5, <2>1 DEF Follows, HeldIsNext
    <2>2. CASE h \notin Places
      <3>1. \A m \in Places : m < h
        BY <1>3, <1>4, <1>5, <2>2 DEF Follows, HeldIsNext
      <3>2. Exposed(Places) \/ Opens(held.pos) => held.masked
        BY <1>3, <1>5 DEF Follows, KeyIsKnown
      <3>3. CASE q = h
        BY <1>4, <3>2, <3>3
      <3>4. CASE q # h
        <4>1. q \in Places /\ q \in Nat
          BY <1>6, <3>4
        <4>2. ASSUME NEW m \in Places, m > q PROVE log[m].text # "end"
          <5>1. m \in (q + 1)..(h - 1)
            BY <1>6, <3>1, <4>1, <4>2
          <5> QED BY <4>2, <5>1
        <4>3. Exposed(Places)
          BY <4>1, <4>2 DEF Exposed
        <4> QED BY <3>2, <4>3
      <3> QED BY <3>3, <3>4
    <2> QED BY <2>1, <2>2
  <1> QED BY <1>9, <1>10, <1>11, <1>12

\* The parts of a property hold of every line after a step.
LEMMA PartsStep ==
    ASSUME LogSourceInv, [Next]_vars, ~TailCutsSecond'
    PROVE  /\ ~TailCutsSecond
           /\ (\A i \in Deliveries : NoGap(i)) => (\A i \in Deliveries' : NoGap(i)')
           /\ (\A i \in Deliveries : KeptSecret(i)) => (\A i \in Deliveries' : KeptSecret(i)')
           /\ (\A i, j \in Deliveries : Repeats(i, j)) =>
                  (\A i, j \in Deliveries' : Repeats(i, j)')
  <1>1. /\ Base /\ Base' /\ Grows /\ (Places # {} => Places' # {} /\ First' = First)
        /\ Deliveries' = IF Deliver THEN Deliveries \cup {Len(out) + 1} ELSE Deliveries
    BY HistoryGrows DEF LogSourceInv
  <1>2. ~TailCutsSecond
    BY <1>1, CutIsStable
  <1>3. CASE ~Deliver
    <2>1. Deliveries' = Deliveries
      BY <1>1, <1>3
    <2> QED BY <1>2, <2>1, PartsStay
  <1>4. CASE Deliver
    <2>1. PICK n \in Nat : n = Len(out) + 1
      BY <1>1 DEF Base, TypeOK
    <2>2. Deliveries' = Deliveries \cup {n}
      BY <1>1, <1>4, <2>1
    <2>3. /\ NoGap(n)' /\ KeptSecret(n)'
          /\ \A i \in Deliveries : Repeats(i, n)'
          /\ \A i \in Deliveries' : Repeats(n, i)'
      BY <1>4, <2>1, PartsOfDelivered
    <2> QED BY <1>2, <2>2, <2>3, PartsStay
  <1> QED BY <1>3, <1>4

\* A source that resumes (logCursor in log_cursor.go) leaves no gap: before a delivered
\* line, and after the first, everything was delivered but lines of earlier seconds
\* than something delivered.
THEOREM NothingSkippedHolds == Spec => []NothingSkipped
  <1>1. Init => NothingSkipped
    BY DEF Init, NothingSkipped, Deliveries
  <1>2. LogSourceInv /\ NothingSkipped /\ [Next]_vars => NothingSkipped'
    <2> SUFFICES ASSUME LogSourceInv, NothingSkipped, [Next]_vars, ~TailCutsSecond'
                 PROVE  \A i \in Deliveries' : NoGap(i)'
      BY DEF NothingSkipped, NoGap
    <2> QED BY PropertyParts, PartsStep
  <1> QED BY <1>1, <1>2, LogSourceInvariant, PTL DEF Spec

\* A line is delivered twice only after a marker, when its second held more distinct
\* lines than logCursor counts.
THEOREM DuplicatesAreAnnouncedHolds == Spec => []DuplicatesAreAnnounced
  <1>1. Init => DuplicatesAreAnnounced
    BY DEF Init, DuplicatesAreAnnounced, Deliveries
  <1>2. LogSourceInv /\ DuplicatesAreAnnounced /\ [Next]_vars => DuplicatesAreAnnounced'
    <2> SUFFICES ASSUME LogSourceInv, DuplicatesAreAnnounced, [Next]_vars, ~TailCutsSecond'
                 PROVE  \A i, j \in Deliveries' : Repeats(i, j)'
      BY DEF DuplicatesAreAnnounced, Repeats, Overfull
    <2> QED BY PropertyParts, PartsStep
  <1> QED BY <1>1, <1>2, LogSourceInvariant, PTL DEF Spec

\* A line inside a private key is delivered masked, whatever was lost, repeated or
\* cancelled in between (Track, sendLog and the failClosed flag).
THEOREM KeyLinesStayMaskedHolds == Spec => []KeyLinesStayMasked
  <1>1. Init => KeyLinesStayMasked
    BY DEF Init, KeyLinesStayMasked, Deliveries
  <1>2. LogSourceInv /\ KeyLinesStayMasked /\ [Next]_vars => KeyLinesStayMasked'
    <2> SUFFICES ASSUME LogSourceInv, KeyLinesStayMasked, [Next]_vars, ~TailCutsSecond'
                 PROVE  \A i \in Deliveries' : KeptSecret(i)'
      BY DEF KeyLinesStayMasked, KeptSecret
    <2> QED BY PropertyParts, PartsStep
  <1> QED BY <1>1, <1>2, LogSourceInvariant, PTL DEF Spec

\* A source that completed on a stream which the container's end had closed delivered
\* the last line of the log, unless that line is of an earlier second.
THEOREM CompletedReadIsWholeHolds == Spec => []CompletedReadIsWhole
  <1>1. LogSourceInv => CompletedReadIsWhole
    <2> SUFFICES ASSUME LogSourceInv, outcome = "completed", conn.shut = "complete",
                        Len(log) > 0, ~TailCutsSecond
                 PROVE  Len(log) \in Places \/ Late(Len(log), Places)
      BY DEF CompletedReadIsWhole, LastLineArrived, Places
    <2>1. Base /\ Follows
      BY DEF LogSourceInv
    <2>2. PICK n \in Nat \ {0} : n = Len(log)
      BY <2>1 DEF Base, TypeOK
    <2>3. /\ Places \in SUBSET (1..n) /\ Places \in SUBSET Nat
          /\ Places # {} => First \in Places
          /\ conn.at \in Nat \ {0} /\ conn.at <= n + 1 /\ conn.since \in Nat
      BY <2>1, <2>2, PlacesFacts DEF Base, TypeOK, Bounds, Streams
    <2>4. pc = "done"
      BY <2>1 DEF Base, Ending
    <2>5. \A p \in conn.at..n : Sec(p) < Second(conn.since)
      BY <2>1, <2>2 DEF Base, Ending
    <2>6. \A p \in 1..n : log[p] \in Records /\ Sec(p) \in Nat
      BY <2>1, <2>2, LogRecords, SecondType DEF Base, Sec
    <2>7. CASE conn.at <= n
      <3>1. n \in conn.at..n
        BY <2>3, <2>7
      <3>2. Sec(n) < Second(conn.since) /\ Sec(n) \in Nat
        BY <2>5, <2>6, <3>1
      <3>3. conn.since # 0
        BY <3>2, SecondZero
      <3>4. PICK q \in Places : log[q].time = conn.since
        BY <2>1, <3>3 DEF Follows, SinceIsDelivered
      <3>5. Sec(q) > Sec(n) /\ q \in 1..n
        BY <2>3, <2>6, <3>2, <3>4 DEF Sec
      <3>6. q # n
        BY <2>6, <3>5
      <3>7. q < n
        BY <3>5, <3>6
      <3> QED BY <2>2, <3>4, <3>5, <3>7 DEF Late, Sec
    <2>8. CASE ~(conn.at <= n)
      <3>1. conn.at = n + 1 /\ conn.at - 1 = n /\ conn.at # 1
        BY <2>3, <2>8
      <3>2. Places # {}
        BY <2>1, <2>2, <2>4, <2>8, <3>1 DEF Follows, UnreadAtFirst
      <3>3. First \in 1..n
        BY <2>3, <3>2
      <3>4. n \in First..(conn.at - 1)
        BY <3>1, <3>3
      <3> QED BY <2>1, <2>2, <2>4, <3>2, <3>4 DEF Follows, ReadSoFar
    <2> QED BY <2>7, <2>8
  <1> QED BY <1>1, LogSourceInvariant, PTL

(***************************************************************************)
(* The engine.                                                             *)
(***************************************************************************)

\* The entries that the engine holds or returned.
Entries ==
    [id : Nat, source : LogSources, time : Nat, kind : Kinds, text : Seq(Kinds),
     group : Seq(Nat)]

\* What a place of the ring holds: an entry, or nothing yet.
RingPlaces ==
    [id : Nat, lastID : Nat, source : LogSources \cup {"none"},
     kind : Kinds \cup {"none"}, text : Seq(Kinds), occurrences : Nat]

\* What waits in the queue.
Waiting == [entry : Entries, observed : Nat]

\* What an engine is made of.
Engines ==
    [known : SUBSET LogSources, pending : [LogSources -> Entries \cup {NoGroup}],
     touched : [LogSources -> Nat], queue : SUBSET Waiting, orderID : Nat,
     nextID : Nat, ring : [0 .. Capacity - 1 -> RingPlaces], start : 0 .. Capacity - 1,
     size : 0 .. Capacity, evicted : Nat, collapse : BOOLEAN, multiline : BOOLEAN,
     out : Seq(Entries)]

\* Sources have state, and entries wait, in finite numbers.
Typed(e) == e \in Engines /\ IsFiniteSet(e.queue) /\ IsFiniteSet(e.known)

\* An entry has lines of its source, in their order, and the time of the first.
Whole(x, ls, top) ==
    /\ x.group # <<>>
    /\ \A j, k \in DOMAIN x.group : j < k => x.group[j] < x.group[k]
    /\ \A i \in Lines(x) : i \in 1 .. top /\ ls[i].source = x.source
    /\ x.time = ls[x.group[1]].time

\* The times of a source's lines never decrease.
OrderedIn(s, ls) ==
    \A i, j \in DOMAIN ls :
        i < j /\ ls[i].source = s /\ ls[j].source = s => ls[i].time <= ls[j].time

\* Two entries without a line in common.
Apart(x, y) == Lines(x) \cap Lines(y) = {}

\* The groups.
GroupsInv(e, ls, top) ==
    \A s \in LogSources :
        \/ e.pending[s] = NoGroup
        \/ /\ s \in e.known
           /\ e.pending[s] \in Entries
           /\ e.pending[s].source = s
           /\ Whole(e.pending[s], ls, top)

\* The queue: of one source what arrived first has the earlier lines.
QueueInv(e, ls, top) ==
    /\ \A q \in e.queue : q.entry.id \in 1 .. e.orderID /\ Whole(q.entry, ls, top)
    /\ \A q \in e.queue : Before(q.entry, e.pending[q.entry.source])
    /\ \A q, r \in e.queue :
          /\ q.entry.id = r.entry.id => q = r
          /\ q.entry.id < r.entry.id /\ q.entry.source = r.entry.source =>
                Before(q.entry, r.entry)

\* What was returned.
OutInv(e, ls, top) ==
    /\ \A n \in DOMAIN e.out : e.out[n].id = n /\ Whole(e.out[n], ls, top)
    /\ \A n \in DOMAIN e.out : Before(e.out[n], e.pending[e.out[n].source])
    /\ \A n \in DOMAIN e.out, q \in e.queue :
          /\ Apart(e.out[n], q.entry)
          /\ OrderedIn(q.entry.source, ls) /\ e.out[n].source = q.entry.source =>
                Before(e.out[n], q.entry)
    /\ \A m, n \in DOMAIN e.out : m < n =>
          /\ Apart(e.out[m], e.out[n])
          /\ OrderedIn(e.out[n].source, ls) /\ e.out[m].source = e.out[n].source =>
                Before(e.out[m], e.out[n])

\* No line that was given is missing.
Covered(e, top) ==
    \A i \in 1 .. top :
        \/ \E s \in LogSources : i \in Lines(e.pending[s])
        \/ \E q \in e.queue : i \in Lines(q.entry)
        \/ \E n \in DOMAIN e.out : i \in Lines(e.out[n])

\* What the lines given and the entries held or returned say of each other.
Lined(e, ls, top) ==
    /\ GroupsInv(e, ls, top)
    /\ QueueInv(e, ls, top)
    /\ OutInv(e, ls, top)
    /\ Covered(e, top)

\* The ring, as the first places of a function of them and what was evicted.
PlacesInv(shown, size, e, gone) ==
    /\ \A n \in 1 .. size :
          /\ shown[n] \in RingPlaces
          /\ 1 <= shown[n].id
          /\ shown[n].id <= shown[n].lastID
          /\ shown[n].lastID = IF n = size THEN Len(e.out) ELSE shown[n + 1].id - 1
          /\ shown[n].occurrences = Cardinality(LinesIn(e, IDs(shown[n])))
          /\ \A m \in IDs(shown[n]) :
                /\ m \notin gone
                /\ e.out[m].source = shown[n].source
                /\ e.out[m].text = shown[n].text
    /\ \A m, n \in 1 .. size : m < n => shown[m].lastID < shown[n].id

\* The numbers of the entries that these places stand for.
ShownIDs(shown, size) == UNION {IDs(shown[n]) : n \in 1 .. size}

\* As many lines were evicted as are neither shown nor cleared.
EvictedInv(shown, size, evicted, e, gone) ==
    evicted = Cardinality(LinesIn(e, (1 .. Len(e.out)) \ (gone \cup ShownIDs(shown, size))))

\* What the ring is, of what was returned and was not cleared.
RingInv(shown, size, evicted, e, gone) ==
    /\ gone \subseteq 1 .. Len(e.out)
    /\ PlacesInv(shown, size, e, gone)
    /\ EvictedInv(shown, size, evicted, e, gone)

\* Entries are numbered as they are returned, and the ring shows the newest.
Ringed(e, gone) ==
    /\ e.nextID = Len(e.out)
    /\ RingInv(Snapshot(e), e.size, e.evicted, e, gone)

\* The invariant, the types included.
EngineInv ==
    /\ clock \in Nat
    /\ lines \in Seq([source : LogSources, time : Nat])
    /\ Typed(engine)
    /\ Lined(engine, lines, Len(lines))
    /\ Ringed(engine, cleared)

\* The limits are numbers, and the ring, the sources and a group have room.
LEMMA Sizes ==
    /\ Capacity \in Nat /\ Capacity >= 1
    /\ MaxSources \in Nat /\ MaxSources >= 1
    /\ MaxGroupLines \in Nat /\ MaxGroupLines >= 1
    /\ MaxReorder \in Nat /\ GroupIdle \in Nat /\ ReorderWindow \in Nat
    /\ MaxLines \in Nat /\ MaxTime \in Nat /\ MaxClock \in Nat
BY EngineAssumption

\* The places of the ring are counted around it.
LEMMA Around ==
    ASSUME NEW a \in 0 .. Capacity - 1, NEW k \in 0 .. Capacity
    PROVE  (a + k) % Capacity = IF a + k < Capacity THEN a + k ELSE a + k - Capacity
  <1> DEFINE n == a + k
             q == n \div Capacity
  <1>1. n \in Nat /\ Capacity \in Nat /\ Capacity >= 1 /\ n < 2 * Capacity
    BY Sizes
  <1>2. n = Capacity * q + (n % Capacity) /\ n % Capacity \in 0 .. Capacity - 1 /\ q \in Int
    BY <1>1, SMT
  <1>3. q = 0 \/ q = 1
    BY <1>1, <1>2, SMT
  <1> QED BY <1>1, <1>2, <1>3

\* No group has no line, and no entry is like it.
LEMMA NoGroupIsNone ==
    /\ Lines(NoGroup) = {}
    /\ NoGroup.group = <<>>
    /\ \A x \in Entries : x.group # <<>> => x # NoGroup
BY DEF Lines, NoGroup, Entries, Whole

\* What is queued is given its order of arrival; nothing else is touched.
LEMMA EnqueueFields ==
    ASSUME NEW e \in Engines, NEW entry \in Entries, NEW now \in Nat
    PROVE  LET f == Enqueue(e, entry, now)
               q == [entry |-> [entry EXCEPT !.id = e.orderID + 1], observed |-> now]
           IN /\ f \in Engines
              /\ f.queue = e.queue \cup {q}
              /\ q \in Waiting
              /\ f.orderID = e.orderID + 1
              /\ f.pending = e.pending /\ f.known = e.known /\ f.touched = e.touched
              /\ f.nextID = e.nextID /\ f.ring = e.ring /\ f.start = e.start
              /\ f.size = e.size /\ f.evicted = e.evicted /\ f.out = e.out
  <1> DEFINE x == [entry EXCEPT !.id = e.orderID + 1]
             q == [entry |-> x, observed |-> now]
             f == Enqueue(e, entry, now)
  <1>1. e.orderID \in Nat /\ e.queue \subseteq Waiting
    BY DEF Engines
  <1>2. x \in Entries
    BY <1>1 DEF Entries
  <1>3. q \in Waiting
    BY <1>2 DEF Waiting
  <1>4. f = [e EXCEPT !.orderID = e.orderID + 1, !.queue = e.queue \cup {q}]
    BY DEF Enqueue
  <1>5. e.queue \cup {q} \in SUBSET Waiting /\ e.orderID + 1 \in Nat
    BY <1>1, <1>3
  <1> HIDE DEF q, f
  <1>6. f \in Engines /\ f.queue = e.queue \cup {q} /\ f.orderID = e.orderID + 1
    BY <1>4, <1>5 DEF Engines
  <1>7. /\ f.pending = e.pending /\ f.known = e.known /\ f.touched = e.touched
        /\ f.nextID = e.nextID /\ f.ring = e.ring /\ f.start = e.start
        /\ f.size = e.size /\ f.evicted = e.evicted /\ f.out = e.out
    BY <1>4 DEF Engines
  <1> QED BY <1>3, <1>6, <1>7 DEF q, f

\* Committing an entry touches the ring and its counts only.
LEMMA CommitFields ==
    ASSUME NEW e \in Engines, NEW entry \in Entries
    PROVE  LET f == Commit(e, entry)
           IN /\ f \in Engines
              /\ f.queue = e.queue /\ f.orderID = e.orderID
              /\ f.pending = e.pending /\ f.known = e.known /\ f.touched = e.touched
              /\ f.nextID = e.nextID /\ f.out = e.out
  <1>1. Newest(e) \in 0 .. Capacity - 1
    BY Sizes DEF Newest, Engines
  <1>2. Len(entry.group) \in Nat
    BY DEF Entries
  <1>3. Place(entry) \in RingPlaces
    BY <1>2 DEF Place, RingPlaces, Entries
  <1>0. e.ring \in [0 .. Capacity - 1 -> RingPlaces]
    BY DEF Engines
  <1>4. CountedIn(e.ring[Newest(e)], entry) \in RingPlaces
    <2> DEFINE p == e.ring[Newest(e)]
    <2>1. p \in RingPlaces
      BY <1>0, <1>1
    <2> HIDE DEF p
    <2>2. entry.id \in Nat /\ p.occurrences + Len(entry.group) \in Nat
      BY <2>1, <1>2 DEF Entries, RingPlaces
    <2>3. CountedIn(p, entry) = [p EXCEPT !.lastID = entry.id, !.occurrences = p.occurrences + Len(entry.group)]
      BY DEF CountedIn
    <2>4. CountedIn(p, entry) \in RingPlaces
      BY <2>1, <2>2, <2>3 DEF RingPlaces
    <2> QED BY <2>4 DEF p
  <1>5. (e.start + e.size) % Capacity \in 0 .. Capacity - 1 /\ (e.start + 1) % Capacity \in 0 .. Capacity - 1
    BY Sizes DEF Engines
  <1>6. e.ring[e.start].occurrences \in Nat
    BY <1>0 DEF Engines, RingPlaces
  <1>7. CASE Collapses(e, entry)
    <2> DEFINE r == [e.ring EXCEPT ![Newest(e)] = CountedIn(@, entry)]
    <2>1. r \in [0 .. Capacity - 1 -> RingPlaces]
      BY <1>0, <1>1, <1>4
    <2>2. Commit(e, entry) = [e EXCEPT !.ring = r]
      BY <1>7 DEF Commit
    <2> HIDE DEF r
    <2> QED BY <2>1, <2>2 DEF Engines
  <1>8. CASE ~ Collapses(e, entry) /\ e.size = Capacity
    <2> DEFINE r == [e.ring EXCEPT ![e.start] = Place(entry)]
               v == e.evicted + e.ring[e.start].occurrences
               t == (e.start + 1) % Capacity
    <2>1. r \in [0 .. Capacity - 1 -> RingPlaces]
      BY <1>0, <1>3
    <2>2. Commit(e, entry) = [e EXCEPT !.evicted = v, !.ring = r, !.start = t]
      BY <1>8 DEF Commit
    <2>3. v \in Nat /\ t \in 0 .. Capacity - 1
      BY <1>5, <1>6 DEF Engines
    <2> HIDE DEF r, v, t
    <2> QED BY <2>1, <2>2, <2>3 DEF Engines
  <1>9. CASE ~ Collapses(e, entry) /\ e.size # Capacity
    <2> DEFINE r == [e.ring EXCEPT ![(e.start + e.size) % Capacity] = Place(entry)]
               z == e.size + 1
    <2>1. r \in [0 .. Capacity - 1 -> RingPlaces]
      BY <1>0, <1>3
    <2>2. Commit(e, entry) = [e EXCEPT !.ring = r, !.size = z]
      BY <1>9 DEF Commit
    <2>3. z \in 0 .. Capacity
      BY <1>9, Sizes DEF Engines
    <2> HIDE DEF r, z
    <2> QED BY <2>1, <2>2, <2>3 DEF Engines
  <1> QED BY <1>7, <1>8, <1>9

\* An entry that is numbered anew is the same otherwise.
LEMMA Renumbered ==
    ASSUME NEW x \in Entries, NEW i \in Nat
    PROVE  LET y == [x EXCEPT !.id = i]
           IN /\ y \in Entries /\ y.id = i /\ y.source = x.source /\ y.time = x.time
              /\ y.kind = x.kind /\ y.text = x.text /\ y.group = x.group
              /\ Lines(y) = Lines(x)
              /\ \A ls, top : Whole(y, ls, top) <=> Whole(x, ls, top)
  <1> DEFINE y == [x EXCEPT !.id = i]
  <1>1. /\ y \in Entries /\ y.id = i /\ y.source = x.source /\ y.time = x.time
        /\ y.kind = x.kind /\ y.text = x.text /\ y.group = x.group
    BY DEF Entries
  <1> HIDE DEF y
  <1>2. Lines(y) = Lines(x)
    BY <1>1 DEF Lines
  <1>3. \A ls, top : Whole(y, ls, top) <=> Whole(x, ls, top)
    BY <1>1, <1>2 DEF Whole
  <1> QED BY <1>1, <1>2, <1>3 DEF y

\* What a release of groups does: those of full enter the queue, each in its turn.
Sent(e, s, turn, observed) ==
    [entry |-> [e.pending[s] EXCEPT !.id = e.orderID + turn[s]], observed |-> observed[s]]

\* f is e after the groups of these sources were queued.
Released(e, f, full, turn, observed) ==
    /\ full \subseteq {s \in LogSources : e.pending[s] # NoGroup}
    /\ \A s \in full : turn[s] \in Nat /\ 1 <= turn[s] /\ e.orderID + turn[s] <= f.orderID
    /\ \A s, t \in full : turn[s] = turn[t] => s = t
    /\ \A s \in full : observed[s] \in Nat
    /\ e.orderID <= f.orderID
    /\ f.queue = e.queue \cup {Sent(e, s, turn, observed) : s \in full}
    /\ f.pending = [s \in LogSources |-> IF s \in full THEN NoGroup ELSE e.pending[s]]
    /\ f.known = e.known /\ f.out = e.out
    /\ f.orderID \in Nat

\* A group on its way to the queue keeps its lines.
LEMMA SentEntry ==
    ASSUME NEW e \in Engines, NEW s \in LogSources, e.pending[s] # NoGroup, NEW turn,
           turn[s] \in Nat, NEW observed, observed[s] \in Nat,
           NEW ls, NEW top, GroupsInv(e, ls, top)
    PROVE  LET q == Sent(e, s, turn, observed)
           IN /\ q \in Waiting
              /\ q.entry.id = e.orderID + turn[s]
              /\ q.entry.source = s
              /\ Lines(q.entry) = Lines(e.pending[s])
              /\ Whole(q.entry, ls, top)
  <1>1. e.pending[s] \in Entries /\ e.pending[s].source = s /\ Whole(e.pending[s], ls, top)
    BY DEF GroupsInv
  <1>2. e.orderID + turn[s] \in Nat
    BY DEF Engines
  <1> DEFINE y == [e.pending[s] EXCEPT !.id = e.orderID + turn[s]]
  <1>3. /\ y \in Entries /\ y.id = e.orderID + turn[s] /\ y.source = s
        /\ Lines(y) = Lines(e.pending[s])
        /\ Whole(y, ls, top)
    BY <1>1, <1>2, Renumbered
  <1> HIDE DEF y
  <1>4. Sent(e, s, turn, observed) = [entry |-> y, observed |-> observed[s]]
    BY DEF Sent, y
  <1> QED BY <1>3, <1>4 DEF Waiting

\* Groups that are queued together, or one alone, stay in the order of their source.
LEMMA ReleaseKeepsLines ==
    ASSUME NEW e, Typed(e), NEW ls, NEW top, Lined(e, ls, top), NEW f,
           NEW full, NEW turn, NEW observed, Released(e, f, full, turn, observed)
    PROVE  Lined(f, ls, top)
  <1> DEFINE Out(s) == Sent(e, s, turn, observed)
  <1>0. e \in Engines
    BY DEF Typed
  <1>1. \A s \in full :
           /\ s \in LogSources
           /\ Out(s) \in Waiting
           /\ Out(s).entry.id = e.orderID + turn[s]
           /\ Out(s).entry.source = s
           /\ Lines(Out(s).entry) = Lines(e.pending[s])
           /\ Whole(Out(s).entry, ls, top)
    BY <1>0, SentEntry DEF Released, Lined
  <1>2. \A q : q \in f.queue <=> q \in e.queue \/ \E s \in full : q = Out(s)
    BY DEF Released
  <1> HIDE DEF Out
  <1>3. GroupsInv(f, ls, top)
    BY DEF GroupsInv, Lined, Released
  <1>4. \A s \in LogSources : f.pending[s] = NoGroup \/ f.pending[s] = e.pending[s]
    BY DEF Released
  <1>5. \A x, s : s \in LogSources /\ Before(x, e.pending[s]) => Before(x, f.pending[s])
    BY <1>4, NoGroupIsNone DEF Before
  <1>6. \A q \in e.queue : q \in Waiting /\ q.entry \in Entries /\ q.entry.source \in LogSources /\ q.entry.id \in Nat
    BY <1>0 DEF Engines, Waiting, Entries
  <1>7. QueueInv(f, ls, top)
    <2>1. \A q \in f.queue : q.entry.id \in 1 .. f.orderID /\ Whole(q.entry, ls, top)
      <3> SUFFICES ASSUME NEW q \in f.queue
                   PROVE  q.entry.id \in 1 .. f.orderID /\ Whole(q.entry, ls, top)
        OBVIOUS
      <3>1. e.orderID \in Nat /\ f.orderID \in Nat /\ e.orderID <= f.orderID
        BY <1>0 DEF Released, Engines
      <3>2. CASE q \in e.queue
        BY <3>1, <3>2 DEF Lined, QueueInv
      <3>3. CASE q \notin e.queue
        <4>1. PICK s \in full : q = Out(s)
          BY <3>3, <1>2
        <4>2. turn[s] \in Nat /\ 1 <= turn[s] /\ e.orderID + turn[s] <= f.orderID
          BY DEF Released
        <4> QED BY <4>1, <4>2, <3>1, <1>1
      <3> QED BY <3>2, <3>3
    <2>2. \A q \in f.queue : Before(q.entry, f.pending[q.entry.source])
      <3> SUFFICES ASSUME NEW q \in f.queue PROVE Before(q.entry, f.pending[q.entry.source])
        OBVIOUS
      <3>1. CASE q \in e.queue
        BY <3>1, <1>5, <1>6 DEF Lined, QueueInv
      <3>2. CASE q \notin e.queue
        <4>1. PICK s \in full : q = Out(s)
          BY <3>2, <1>2
        <4>2. f.pending[s] = NoGroup
          BY <4>1, <1>1 DEF Released
        <4> QED BY <4>1, <4>2, <1>1, NoGroupIsNone DEF Before
      <3> QED BY <3>1, <3>2
    <2>3. ASSUME NEW q \in f.queue, NEW r \in f.queue
          PROVE  /\ q.entry.id = r.entry.id => q = r
                 /\ q.entry.id < r.entry.id /\ q.entry.source = r.entry.source =>
                       Before(q.entry, r.entry)
      <3>1. CASE q \in e.queue /\ r \in e.queue
        BY <3>1 DEF Lined, QueueInv
      <3>2. CASE q \in e.queue /\ r \notin e.queue
        <4>1. PICK s \in full : r = Out(s)
          BY <3>2, <1>2
        <4>2. q.entry.id < r.entry.id
          BY <3>2, <4>1, <1>1, <1>0 DEF Lined, QueueInv, Released, Engines
        <4>3. q.entry.source = s => Before(q.entry, e.pending[s])
          BY <3>2 DEF Lined, QueueInv
        <4> QED BY <4>1, <4>2, <4>3, <1>1, <1>6, <3>2 DEF Before
      <3>3. CASE q \notin e.queue /\ r \in e.queue
        <4>1. PICK s \in full : q = Out(s)
          BY <3>3, <1>2
        <4>2. r.entry.id < q.entry.id /\ r.entry.id \in Nat /\ q.entry.id \in Nat
          BY <3>3, <4>1, <1>1, <1>0, <1>6 DEF Lined, QueueInv, Released, Engines
        <4> QED BY <4>2
      <3>4. CASE q \notin e.queue /\ r \notin e.queue
        <4>1. PICK s \in full : q = Out(s)
          BY <3>4, <1>2
        <4>2. PICK t \in full : r = Out(t)
          BY <3>4, <1>2
        <4>3. e.orderID \in Nat /\ turn[s] \in Nat /\ turn[t] \in Nat
          BY <1>0 DEF Released, Engines
        <4>4. q.entry.id = r.entry.id \/ q.entry.source = r.entry.source => s = t
          BY <4>1, <4>2, <4>3, <1>1 DEF Released
        <4> QED BY <4>1, <4>2, <4>3, <4>4, <1>1
      <3> QED BY <3>1, <3>2, <3>3, <3>4
    <2> QED BY <2>1, <2>2, <2>3 DEF QueueInv
  <1>8. OutInv(f, ls, top)
    <2>0. f.out = e.out /\ e.out \in Seq(Entries)
      BY <1>0 DEF Released, Engines
    <2>00. \A n \in DOMAIN e.out : e.out[n] \in Entries /\ e.out[n].source \in LogSources
      <3>1. \A n \in DOMAIN e.out : e.out[n] \in Entries
        BY <2>0
      <3> QED BY <3>1 DEF Entries
    <2>1. \A n \in DOMAIN f.out : f.out[n].id = n /\ Whole(f.out[n], ls, top)
      BY <2>0 DEF Lined, OutInv
    <2>2. \A n \in DOMAIN f.out : Before(f.out[n], f.pending[f.out[n].source])
      BY <2>0, <2>00, <1>5 DEF Lined, OutInv
    <2>3. ASSUME NEW n \in DOMAIN f.out, NEW q \in f.queue
          PROVE  /\ Apart(f.out[n], q.entry)
                 /\ OrderedIn(q.entry.source, ls) /\ f.out[n].source = q.entry.source =>
                       Before(f.out[n], q.entry)
      <3>1. CASE q \in e.queue
        BY <3>1, <2>0 DEF Lined, OutInv
      <3>2. CASE q \notin e.queue
        <4>1. PICK s \in full : q = Out(s)
          BY <3>2, <1>2
        <4>2. f.out[n].source = s => Before(f.out[n], q.entry)
          BY <4>1, <1>1, <2>0 DEF Lined, OutInv, Before
        <4>3. Apart(f.out[n], q.entry)
          <5> SUFFICES ASSUME NEW i \in Lines(f.out[n]), i \in Lines(q.entry) PROVE FALSE
            BY DEF Apart
          <5>1. i \in 1 .. top /\ ls[i].source = s
            BY <4>1, <1>1 DEF Whole
          <5>2. ls[i].source = f.out[n].source
            BY <2>1 DEF Whole
          <5>3. i < i
            BY <5>1, <5>2, <4>2 DEF Before
          <5> QED BY <5>1, <5>3
        <4> QED BY <4>1, <4>2, <4>3, <1>1
      <3> QED BY <3>1, <3>2
    <2>4. \A m, n \in DOMAIN f.out : m < n =>
             /\ Apart(f.out[m], f.out[n])
             /\ OrderedIn(f.out[n].source, ls) /\ f.out[m].source = f.out[n].source =>
                   Before(f.out[m], f.out[n])
      BY <2>0 DEF Lined, OutInv
    <2> QED BY <2>1, <2>2, <2>3, <2>4 DEF OutInv
  <1>9. Covered(f, top)
    <2> SUFFICES ASSUME NEW i \in 1 .. top
                 PROVE  \/ \E s \in LogSources : i \in Lines(f.pending[s])
                        \/ \E q \in f.queue : i \in Lines(q.entry)
                        \/ \E n \in DOMAIN f.out : i \in Lines(f.out[n])
      BY DEF Covered
    <2>1. CASE \E s \in LogSources : i \in Lines(e.pending[s])
      <3>1. PICK s \in LogSources : i \in Lines(e.pending[s])
        BY <2>1
      <3>2. CASE s \in full
        <4>1. Out(s) \in f.queue /\ i \in Lines(Out(s).entry)
          BY <3>1, <3>2, <1>1, <1>2
        <4> QED BY <4>1
      <3>3. CASE s \notin full
        BY <3>1, <3>3 DEF Released
      <3> QED BY <3>2, <3>3
    <2>2. CASE \E q \in e.queue : i \in Lines(q.entry)
      BY <2>2, <1>2
    <2>3. CASE \E n \in DOMAIN e.out : i \in Lines(e.out[n])
      BY <2>3 DEF Released
    <2> QED BY <2>1, <2>2, <2>3 DEF Lined, Covered
  <1> QED BY <1>3, <1>7, <1>8, <1>9 DEF Lined

\* Good: what is kept of an engine between the steps of an operation.
Good(e, ls, top, gone) == Typed(e) /\ Lined(e, ls, top) /\ Ringed(e, gone)

\* The ring and what was returned are untouched.
SameRing(e, f) ==
    /\ f.nextID = e.nextID /\ f.ring = e.ring /\ f.start = e.start
    /\ f.size = e.size /\ f.evicted = e.evicted /\ f.out = e.out

\* What is said of the ring depends on nothing else.
LEMMA SameRingKept ==
    ASSUME NEW e, NEW f, NEW gone, SameRing(e, f), Ringed(e, gone)
    PROVE  Ringed(f, gone)
  <1>1. Snapshot(f) = Snapshot(e)
    BY DEF SameRing, Snapshot
  <1>2. \A ids : LinesIn(f, ids) = LinesIn(e, ids)
    BY DEF SameRing, LinesIn
  <1>3. PlacesInv(Snapshot(f), f.size, f, gone)
    BY <1>1, <1>2 DEF PlacesInv, RingInv, Ringed, SameRing
  <1>4. EvictedInv(Snapshot(f), f.size, f.evicted, f, gone)
    BY <1>1, <1>2 DEF EvictedInv, RingInv, Ringed, SameRing
  <1> QED BY <1>1, <1>3, <1>4 DEF Ringed, RingInv, SameRing

\* A source's group is queued: the source has none then.
LEMMA FlushSourceKeeps ==
    ASSUME NEW e, NEW ls, NEW top, NEW gone, Good(e, ls, top, gone),
           NEW s \in LogSources, NEW now \in Nat
    PROVE  LET f == FlushSource(e, s, now)
           IN /\ Good(f, ls, top, gone)
              /\ f.pending[s] = NoGroup
              /\ f.known = e.known /\ f.touched = e.touched
              /\ \A t \in LogSources \ {s} : f.pending[t] = e.pending[t]
  <1>0. /\ e \in Engines /\ IsFiniteSet(e.queue) /\ IsFiniteSet(e.known)
        /\ Lined(e, ls, top) /\ Ringed(e, gone)
    BY DEF Good, Typed
  <1>1. CASE e.pending[s] = NoGroup
    BY <1>1 DEF FlushSource
  <1>2. CASE e.pending[s] # NoGroup
    <2> DEFINE x == e.pending[s]
               d == [e EXCEPT !.pending[s] = NoGroup]
               p == [e.pending EXCEPT ![s] = NoGroup]
               turn == [t \in {s} |-> 1]
               observed == [t \in {s} |-> now]
               f == FlushSource(e, s, now)
    <2>1. x \in Entries
      BY <1>0, <1>2 DEF Lined, GroupsInv
    <2>2. e.pending \in [LogSources -> Entries \cup {NoGroup}]
      BY <1>0 DEF Engines
    <2>3. p \in [LogSources -> Entries \cup {NoGroup}]
      BY <2>2
    <2>4. d = [e EXCEPT !.pending = p]
      OBVIOUS
    <2> HIDE DEF p, d, x
    <2>5. /\ d \in Engines /\ d.pending = p /\ d.queue = e.queue /\ d.orderID = e.orderID
          /\ d.known = e.known /\ d.touched = e.touched /\ SameRing(e, d)
      BY <1>0, <2>3, <2>4 DEF Engines, SameRing
    <2>6. f = Enqueue(d, x, now)
      BY <1>2 DEF FlushSource, d, x
    <2> DEFINE q == [entry |-> [x EXCEPT !.id = d.orderID + 1], observed |-> now]
    <2>7. /\ f \in Engines /\ f.queue = d.queue \cup {q} /\ q \in Waiting
          /\ f.orderID = d.orderID + 1 /\ f.pending = d.pending /\ f.known = d.known
          /\ f.touched = d.touched /\ SameRing(d, f)
      BY <2>1, <2>5, <2>6, EnqueueFields DEF SameRing
    <2>8. q = Sent(e, s, turn, observed)
      BY <2>5 DEF Sent, x
    <2>9. f.queue = e.queue \cup {Sent(e, t, turn, observed) : t \in {s}}
      BY <2>5, <2>7, <2>8
    <2> HIDE DEF f, q
    <2>10. f.pending = [t \in LogSources |-> IF t \in {s} THEN NoGroup ELSE e.pending[t]]
      BY <2>2, <2>5, <2>7 DEF p
    <2>11. e.orderID \in Nat /\ f.orderID = e.orderID + 1
      BY <1>0, <2>5, <2>7 DEF Engines
    <2>12. Released(e, f, {s}, turn, observed)
      <3>1. \A t \in {s} : turn[t] = 1 /\ observed[t] = now
        OBVIOUS
      <3>2. {s} \subseteq {t \in LogSources : e.pending[t] # NoGroup}
        BY <1>2
      <3> HIDE DEF turn, observed
      <3>3. f.known = e.known /\ f.out = e.out
        BY <2>5, <2>7 DEF SameRing
      <3> QED BY <3>1, <3>2, <3>3, <2>9, <2>10, <2>11 DEF Released
    <2>13. Lined(f, ls, top)
      BY <2>12, ReleaseKeepsLines DEF Good
    <2>14. Ringed(f, gone)
      <3>1. SameRing(e, f)
        BY <2>5, <2>7 DEF SameRing
      <3> QED BY <3>1, <1>0, SameRingKept
    <2>15. IsFiniteSet(f.queue)
      BY <2>5, <2>7, <1>0, FS_AddElement
    <2>16. Good(f, ls, top, gone)
      BY <1>0, <2>5, <2>7, <2>13, <2>14, <2>15 DEF Good, Typed
    <2> QED BY <2>5, <2>7, <2>10, <2>16 DEF f
  <1> QED BY <1>1, <1>2

\* Only a source's state is made, touched or, having no group, forgotten.
LEMMA SourcesKeep ==
    ASSUME NEW e, NEW ls, NEW top, NEW gone, Good(e, ls, top, gone), NEW f \in Engines,
           f.pending = e.pending, f.queue = e.queue, f.orderID = e.orderID, SameRing(e, f),
           IsFiniteSet(f.known),
           \A s \in LogSources : e.pending[s] # NoGroup /\ s \in e.known => s \in f.known
    PROVE  Good(f, ls, top, gone)
  <1>0. IsFiniteSet(f.queue) /\ Lined(e, ls, top) /\ Ringed(e, gone) /\ f.out = e.out
    BY DEF Good, Typed, SameRing
  <1>1. GroupsInv(f, ls, top)
    BY <1>0 DEF Lined, GroupsInv
  <1>2. QueueInv(f, ls, top)
    BY <1>0 DEF Lined, QueueInv
  <1>3. OutInv(f, ls, top)
    BY <1>0 DEF Lined, OutInv
  <1>4. Covered(f, top)
    BY <1>0 DEF Lined, Covered
  <1>5. Ringed(f, gone)
    BY <1>0, SameRingKept
  <1> QED BY <1>0, <1>1, <1>2, <1>3, <1>4, <1>5 DEF Good, Typed, Lined

\* A source is given state.
LEMMA WithSourceKeeps ==
    ASSUME NEW e, NEW ls, NEW top, NEW gone, Good(e, ls, top, gone),
           NEW s \in LogSources, NEW now \in Nat
    PROVE  LET f == WithSource(e, s, now)
           IN /\ Good(f, ls, top, gone)
              /\ f.known = e.known \cup {s} /\ f.pending = e.pending
  <1> DEFINE f == WithSource(e, s, now)
             k == e.known \cup {s}
             t == [e.touched EXCEPT ![s] = now]
  <1>1. e \in Engines
    BY DEF Good, Typed
  <1>2. f = [e EXCEPT !.known = k, !.touched = t]
    BY DEF WithSource
  <1>3. k \in SUBSET LogSources /\ t \in [LogSources -> Nat]
    BY <1>1 DEF Engines
  <1> HIDE DEF f, t
  <1>4. /\ f \in Engines /\ f.known = k /\ f.pending = e.pending /\ f.queue = e.queue
        /\ f.orderID = e.orderID /\ SameRing(e, f)
    BY <1>1, <1>2, <1>3 DEF Engines, SameRing
  <1>5. Good(f, ls, top, gone)
    <2>1. IsFiniteSet(f.known)
      BY <1>4, FS_AddElement DEF Good, Typed
    <2> QED BY <1>4, <2>1, SourcesKeep
  <1> QED BY <1>4, <1>5 DEF f

\* A source is given state, another making room for it when there is none.
LEMMA AddSourceKeeps ==
    ASSUME NEW e, NEW ls, NEW top, NEW gone, Good(e, ls, top, gone),
           NEW s \in LogSources, NEW now \in Nat, NEW f \in AddSource(e, s, now)
    PROVE  Good(f, ls, top, gone) /\ s \in f.known
  <1>1. CASE s \in e.known
    BY <1>1 DEF AddSource
  <1>2. CASE s \notin e.known /\ Cardinality(e.known) < MaxSources
    BY <1>2, WithSourceKeeps DEF AddSource
  <1>3. CASE s \notin e.known /\ ~ (Cardinality(e.known) < MaxSources)
    <2>1. PICK old \in e.known :
              f = WithSource([FlushSource(e, old, now) EXCEPT !.known = @ \ {old}], s, now)
      BY <1>3 DEF AddSource
    <2> DEFINE g == FlushSource(e, old, now)
               h == [g EXCEPT !.known = @ \ {old}]
    <2>2. old \in LogSources
      BY DEF Good, Typed, Engines
    <2>3. Good(g, ls, top, gone) /\ g.pending[old] = NoGroup /\ g.known = e.known
      BY <2>2, FlushSourceKeeps
    <2> HIDE DEF g
    <2>4. g \in Engines
      BY <2>3 DEF Good, Typed
    <2>5. /\ h \in Engines /\ h.known = g.known \ {old} /\ h.pending = g.pending
          /\ h.queue = g.queue /\ h.orderID = g.orderID /\ SameRing(g, h)
      BY <2>4 DEF Engines, SameRing
    <2> HIDE DEF h
    <2>6. Good(h, ls, top, gone)
      <3>1. IsFiniteSet(h.known)
        BY <2>3, <2>5, FS_RemoveElement DEF Good, Typed
      <3> QED BY <2>3, <2>5, <3>1, SourcesKeep
    <2>7. f = WithSource(h, s, now)
      BY <2>1 DEF g, h
    <2> QED BY <2>6, <2>7, WithSourceKeeps
  <1> QED BY <1>1, <1>2, <1>3

\* A set of numbers that is not empty has a least one.
LEMMA LeastNatural ==
    ASSUME NEW S \in SUBSET Nat, S # {}
    PROVE  \E m \in S : \A y \in S : m <= y
  <1>1. PICK m \in S : \A k \in S : ~ (<<k, m>> \in OpToRel(<, Nat))
    BY NatLessThanWellFounded, WFMin
  <1>2. ASSUME NEW k \in S, ~(m <= k) PROVE FALSE
    <2>1. k \in Nat /\ m \in Nat /\ k < m
      BY <1>2
    <2>2. <<k, m>> \in OpToRel(<, Nat)
      BY <2>1 DEF OpToRel
    <2> QED BY <1>1, <2>2
  <1> QED BY <1>2

\* The entry of the queue that leaves first.
Foremost(e) == CHOOSE q \in e.queue : \A r \in e.queue \ {q} : Earlier(q, r)

\* A queue that is not empty has a first entry.
LEMMA FirstOfQueue ==
    ASSUME NEW e \in Engines, e.queue # {},
           \A q, r \in e.queue : q.entry.id = r.entry.id => q = r
    PROVE  /\ Foremost(e) \in e.queue
           /\ \A r \in e.queue \ {Foremost(e)} : Earlier(Foremost(e), r)
  <1>0. \A q \in e.queue : q.entry.time \in Nat /\ q.entry.id \in Nat
    BY DEF Engines, Waiting, Entries
  <1> DEFINE T == {q.entry.time : q \in e.queue}
  <1>1. T \in SUBSET Nat /\ T # {}
    BY <1>0
  <1>2. PICK time \in T : \A y \in T : time <= y
    BY <1>1, LeastNatural
  <1>3. time \in Nat /\ \A q \in e.queue : time <= q.entry.time
    BY <1>1, <1>2
  <1> DEFINE U == {q.entry.id : q \in {r \in e.queue : r.entry.time = time}}
  <1>4. U \in SUBSET Nat /\ U # {}
    BY <1>0, <1>2
  <1>5. PICK i \in U : \A y \in U : i <= y
    BY <1>4, LeastNatural
  <1>6. PICK q \in e.queue : q.entry.time = time /\ q.entry.id = i
    BY <1>5
  <1>7. ASSUME NEW r \in e.queue \ {q} PROVE Earlier(q, r)
    <2>1. CASE r.entry.time = time
      <3>1. r.entry.id \in U
        BY <2>1
      <3>2. i <= r.entry.id /\ r.entry.id # q.entry.id
        BY <3>1, <1>5, <1>7
      <3> QED BY <3>2, <2>1, <1>6, <1>0 DEF Earlier
    <2>2. CASE r.entry.time # time
      BY <2>2, <1>3, <1>6, <1>0 DEF Earlier
    <2> QED BY <2>1, <2>2
  <1> QED BY <1>6, <1>7 DEF Foremost

\* The first entry of the queue is returned, numbered anew.
LEMMA PoppedLines ==
    ASSUME NEW e, Typed(e), NEW ls, NEW top \in Nat, Lined(e, ls, top), e.nextID = Len(e.out),
           ls \in Seq([source : LogSources, time : Nat]), top <= Len(ls), NEW f,
           NEW q \in e.queue, \A r \in e.queue \ {q} : Earlier(q, r),
           NEW x \in Entries, x.id = Len(e.out) + 1, x.source = q.entry.source,
           Lines(x) = Lines(q.entry), Whole(x, ls, top) <=> Whole(q.entry, ls, top),
           f.queue = e.queue \ {q}, f.out = Append(e.out, x), f.pending = e.pending,
           f.orderID = e.orderID, f.known = e.known
    PROVE  Lined(f, ls, top)
  <1> DEFINE N == Len(e.out)
  <1>1. e.out \in Seq(Entries) /\ e.queue \subseteq Waiting
    BY DEF Typed, Engines
  <1>2. /\ N \in Nat /\ DOMAIN e.out = 1 .. N /\ DOMAIN f.out = 1 .. N + 1
        /\ \A n \in 1 .. N : f.out[n] = e.out[n]
        /\ f.out[N + 1] = x
        /\ \A n \in 1 .. N : e.out[n] \in Entries
    BY <1>1
  <1> HIDE DEF N
  <1>3. \A r \in e.queue : r.entry \in Entries /\ r.entry.source \in LogSources
                           /\ r.entry.id \in Nat /\ r.entry.time \in Nat
    BY <1>1 DEF Waiting, Entries
  <1>4. GroupsInv(f, ls, top)
    BY DEF Lined, GroupsInv
  <1>5. QueueInv(f, ls, top)
    BY DEF Lined, QueueInv
  <1>6. Whole(x, ls, top)
    BY DEF Lined, QueueInv
  <1>7. ASSUME NEW r \in e.queue \ {q}, OrderedIn(r.entry.source, ls),
               r.entry.source = q.entry.source
        PROVE  Before(q.entry, r.entry)
    <2>1. q.entry.id # r.entry.id
      BY DEF Lined, QueueInv
    <2>2. CASE q.entry.id < r.entry.id
      BY <2>2, <1>7 DEF Lined, QueueInv
    <2>3. CASE r.entry.id < q.entry.id
      <3>1. Before(r.entry, q.entry)
        BY <2>3, <1>7 DEF Lined, QueueInv
      <3>2. q.entry.time < r.entry.time
        BY <2>3, <1>3 DEF Earlier
      <3>3. Whole(q.entry, ls, top) /\ Whole(r.entry, ls, top)
        BY DEF Lined, QueueInv
      <3> DEFINE i == q.entry.group[1]
                 j == r.entry.group[1]
      <3>4. 1 \in DOMAIN q.entry.group /\ 1 \in DOMAIN r.entry.group
        <4>1. q.entry.group \in Seq(Nat) /\ r.entry.group \in Seq(Nat)
          BY <1>3 DEF Entries
        <4>2. q.entry.group # <<>> /\ r.entry.group # <<>>
          BY <3>3 DEF Whole
        <4> QED BY <4>1, <4>2
      <3>5. i \in Lines(q.entry) /\ j \in Lines(r.entry)
        BY <3>4 DEF Lines
      <3>6. j < i /\ i \in 1 .. top /\ j \in 1 .. top /\ ls[i].source = q.entry.source
            /\ ls[j].source = q.entry.source
        BY <3>1, <3>5, <3>3, <1>7 DEF Before, Whole
      <3>7. ls[i].time = q.entry.time /\ ls[j].time = r.entry.time
        BY <3>3 DEF Whole
      <3> HIDE DEF i, j
      <3>8. ls[j].time <= ls[i].time
        BY <3>6, <1>7 DEF OrderedIn
      <3> QED BY <3>2, <3>7, <3>8, <1>3
    <2> QED BY <2>1, <2>2, <2>3, <1>3
  <1>8. ASSUME NEW r \in e.queue \ {q} PROVE Apart(q.entry, r.entry)
    <2> SUFFICES ASSUME NEW i \in Lines(q.entry), i \in Lines(r.entry) PROVE FALSE
      BY DEF Apart
    <2>1. ls[i].source = q.entry.source /\ ls[i].source = r.entry.source /\ i \in 1 .. top
      BY DEF Lined, QueueInv, Whole
    <2>2. q.entry.id # r.entry.id
      BY DEF Lined, QueueInv
    <2>3. Before(q.entry, r.entry) \/ Before(r.entry, q.entry)
      <3>1. q.entry.source = r.entry.source
        BY <2>1
      <3>2. q.entry.id < r.entry.id \/ r.entry.id < q.entry.id
        BY <2>2, <1>3
      <3> QED BY <3>1, <3>2 DEF Lined, QueueInv
    <2> QED BY <2>1, <2>3 DEF Before
  <1>9. OutInv(f, ls, top)
    <2>1. \A n \in DOMAIN f.out : f.out[n].id = n /\ Whole(f.out[n], ls, top)
      <3>1. \A n \in 1 .. N : f.out[n].id = n /\ Whole(f.out[n], ls, top)
        BY <1>2 DEF Lined, OutInv
      <3>2. f.out[N + 1].id = N + 1 /\ Whole(f.out[N + 1], ls, top)
        BY <1>2, <1>6 DEF N
      <3> QED BY <3>1, <3>2, <1>2
    <2>2. \A n \in DOMAIN f.out : Before(f.out[n], f.pending[f.out[n].source])
      <3>1. \A n \in 1 .. N : Before(f.out[n], f.pending[f.out[n].source])
        BY <1>2 DEF Lined, OutInv
      <3>2. Before(x, f.pending[x.source])
        BY DEF Lined, QueueInv, Before
      <3> QED BY <3>1, <3>2, <1>2
    <2>3. ASSUME NEW n \in DOMAIN f.out, NEW r \in f.queue
          PROVE  /\ Apart(f.out[n], r.entry)
                 /\ OrderedIn(r.entry.source, ls) /\ f.out[n].source = r.entry.source =>
                       Before(f.out[n], r.entry)
      <3>1. CASE n \in 1 .. N
        BY <3>1, <1>2 DEF Lined, OutInv
      <3>2. CASE n = N + 1
        <4>1. Apart(x, r.entry)
          BY <1>8 DEF Apart
        <4>2. OrderedIn(r.entry.source, ls) /\ x.source = r.entry.source => Before(x, r.entry)
          BY <1>7 DEF Before
        <4> QED BY <4>1, <4>2, <3>2, <1>2
      <3> QED BY <3>1, <3>2, <1>2
    <2>4. ASSUME NEW m \in DOMAIN f.out, NEW n \in DOMAIN f.out, m < n
          PROVE  /\ Apart(f.out[m], f.out[n])
                 /\ OrderedIn(f.out[n].source, ls) /\ f.out[m].source = f.out[n].source =>
                       Before(f.out[m], f.out[n])
      <3>1. CASE n \in 1 .. N
        <4>1. m \in 1 .. N
          BY <3>1, <2>4, <1>2
        <4> QED BY <4>1, <3>1, <2>4, <1>2 DEF Lined, OutInv
      <3>2. CASE n = N + 1
        <4>1. m \in 1 .. N
          BY <3>2, <2>4, <1>2
        <4>2. Apart(e.out[m], q.entry)
          BY <4>1, <1>2 DEF Lined, OutInv
        <4>3. OrderedIn(q.entry.source, ls) /\ e.out[m].source = q.entry.source =>
                 Before(e.out[m], q.entry)
          BY <4>1, <1>2 DEF Lined, OutInv
        <4> QED BY <4>1, <4>2, <4>3, <3>2, <1>2 DEF Apart, Before
      <3> QED BY <3>1, <3>2, <1>2
    <2> QED BY <2>1, <2>2, <2>3, <2>4 DEF OutInv
  <1>10. Covered(f, top)
    <2> SUFFICES ASSUME NEW i \in 1 .. top
                 PROVE  \/ \E s \in LogSources : i \in Lines(f.pending[s])
                        \/ \E r \in f.queue : i \in Lines(r.entry)
                        \/ \E n \in DOMAIN f.out : i \in Lines(f.out[n])
      BY DEF Covered
    <2>1. CASE \E s \in LogSources : i \in Lines(e.pending[s])
      BY <2>1
    <2>2. CASE \E r \in e.queue : i \in Lines(r.entry)
      <3>1. CASE i \in Lines(q.entry)
        <4>1. N + 1 \in DOMAIN f.out /\ i \in Lines(f.out[N + 1])
          BY <3>1, <1>2
        <4> QED BY <4>1
      <3> QED BY <3>1, <2>2
    <2>3. CASE \E n \in DOMAIN e.out : i \in Lines(e.out[n])
      <3>1. PICK n \in 1 .. N : i \in Lines(e.out[n])
        BY <2>3, <1>2
      <3>2. n \in DOMAIN f.out /\ i \in Lines(f.out[n])
        BY <3>1, <1>2
      <3> QED BY <3>2
    <2> QED BY <2>1, <2>2, <2>3 DEF Lined, Covered
  <1> QED BY <1>4, <1>5, <1>9, <1>10 DEF Lined

\* The entries that were returned have no line in common.
OutLines(e, top) ==
    /\ e.out \in Seq(Entries)
    /\ \A n \in DOMAIN e.out : Lines(e.out[n]) \subseteq 1 .. top
    /\ \A m, n \in DOMAIN e.out : m # n => Apart(e.out[m], e.out[n])

\* An entry has as many lines as its group is long.
LEMMA LinesCount ==
    ASSUME NEW x \in Entries, NEW ls, NEW top, Whole(x, ls, top)
    PROVE  IsFiniteSet(Lines(x)) /\ Cardinality(Lines(x)) = Len(x.group)
  <1> DEFINE g == x.group
             n == Len(g)
  <1>1. g \in Seq(Nat) /\ n \in Nat /\ DOMAIN g = 1 .. n
    BY DEF Entries
  <1>2. Lines(x) = {g[k] : k \in 1 .. n}
    BY <1>1 DEF Lines
  <1>3. g \in [1 .. n -> Lines(x)]
    BY <1>1, <1>2
  <1>4. \A j, k \in 1 .. n : j < k => g[j] < g[k]
    BY <1>1 DEF Whole
  <1>5. \A j \in 1 .. n : g[j] \in Nat
    BY <1>1
  <1> HIDE DEF g, n
  <1>6. \A j, k \in 1 .. n : g[j] = g[k] => j = k
    <2> SUFFICES ASSUME NEW j \in 1 .. n, NEW k \in 1 .. n, g[j] = g[k], j # k PROVE FALSE
      OBVIOUS
    <2>1. j < k \/ k < j
      BY <1>1
    <2> QED BY <2>1, <1>4, <1>5
  <1>7. g \in Bijection(1 .. n, Lines(x))
    BY <1>1, <1>2, <1>3, <1>6 DEF Bijection, Injection, Surjection, IsInjective
  <1>8. ExistsBijection(1 .. n, Lines(x))
    BY <1>7 DEF ExistsBijection
  <1>9. IsFiniteSet(Lines(x)) /\ Cardinality(Lines(x)) = n
    BY <1>1, <1>8, FS_CountingElements, FS_NatBijection
  <1> QED BY <1>9 DEF n, g

\* The lines of disjoint sets of entries are counted apart.
LEMMA LinesInCount ==
    ASSUME NEW e, NEW top \in Nat, OutLines(e, top),
           NEW A \in SUBSET DOMAIN e.out, NEW B \in SUBSET DOMAIN e.out, A \cap B = {}
    PROVE  /\ IsFiniteSet(LinesIn(e, A))
           /\ Cardinality(LinesIn(e, A)) \in Nat
           /\ Cardinality(LinesIn(e, A \cup B)) =
                 Cardinality(LinesIn(e, A)) + Cardinality(LinesIn(e, B))
  <1>1. \A S \in SUBSET DOMAIN e.out : LinesIn(e, S) \subseteq 1 .. top
    BY DEF LinesIn, OutLines
  <1>2. IsFiniteSet(1 .. top)
    BY FS_Interval
  <1>3. \A S \in SUBSET DOMAIN e.out : IsFiniteSet(LinesIn(e, S)) /\ Cardinality(LinesIn(e, S)) \in Nat
    BY <1>1, <1>2, FS_Subset, FS_CardinalityType
  <1>4. LinesIn(e, A \cup B) = LinesIn(e, A) \cup LinesIn(e, B)
    BY DEF LinesIn
  <1>5. LinesIn(e, A) \cap LinesIn(e, B) = {}
    <2> SUFFICES ASSUME NEW i \in LinesIn(e, A), i \in LinesIn(e, B) PROVE FALSE
      OBVIOUS
    <2>1. PICK m \in A : i \in Lines(e.out[m])
      BY DEF LinesIn
    <2>2. PICK n \in B : i \in Lines(e.out[n])
      BY DEF LinesIn
    <2>3. m # n /\ m \in DOMAIN e.out /\ n \in DOMAIN e.out
      OBVIOUS
    <2> QED BY <2>1, <2>2, <2>3 DEF OutLines, Apart
  <1>6. /\ IsFiniteSet(LinesIn(e, A)) /\ IsFiniteSet(LinesIn(e, B))
        /\ Cardinality(LinesIn(e, A)) \in Nat /\ Cardinality(LinesIn(e, B)) \in Nat
    BY <1>3
  <1>7. Cardinality(LinesIn(e, A) \cup LinesIn(e, B)) =
           Cardinality(LinesIn(e, A)) + Cardinality(LinesIn(e, B)) - Cardinality(LinesIn(e, A) \cap LinesIn(e, B))
    BY <1>6, FS_Union
  <1>8. Cardinality(LinesIn(e, A) \cap LinesIn(e, B)) = 0
    <2>1. Cardinality({}) = 0
      BY FS_EmptySet
    <2> QED BY <1>5, <2>1, Zenon
  <1> DEFINE a == Cardinality(LinesIn(e, A))
             b == Cardinality(LinesIn(e, B))
             both == Cardinality(LinesIn(e, A) \cup LinesIn(e, B))
             common == Cardinality(LinesIn(e, A) \cap LinesIn(e, B))
  <1>9. a \in Nat /\ b \in Nat /\ both = a + b - common /\ common = 0
    BY <1>6, <1>7, <1>8
  <1>10. both = Cardinality(LinesIn(e, A \cup B))
    BY <1>4
  <1> HIDE DEF a, b, both, common
  <1>11. both = a + b
    BY <1>9
  <1> QED BY <1>6, <1>10, <1>11 DEF a, b

\* The oldest place is evicted.
LEMMA PlaceDropped ==
    ASSUME NEW e, NEW top \in Nat, OutLines(e, top), NEW shown, NEW size \in Nat, size >= 1,
           NEW evicted, NEW gone, RingInv(shown, size, evicted, e, gone)
    PROVE  RingInv([n \in 1 .. size - 1 |-> shown[n + 1]], size - 1,
                   evicted + shown[1].occurrences, e, gone)
  <1> DEFINE next == [n \in 1 .. size - 1 |-> shown[n + 1]]
             N == Len(e.out)
  <1>1. N \in Nat /\ DOMAIN e.out = 1 .. N
    BY DEF OutLines
  <1>2. \A n \in 1 .. size - 1 : n + 1 \in 1 .. size /\ next[n] = shown[n + 1]
    OBVIOUS
  <1>3. \A n \in 1 .. size : shown[n].id \in Nat /\ shown[n].lastID \in Nat
    BY DEF RingInv, PlacesInv, RingPlaces
  <1> HIDE DEF next, N
  <1>4. PlacesInv(next, size - 1, e, gone)
    <2>1. ASSUME NEW n \in 1 .. size - 1
          PROVE  /\ next[n] \in RingPlaces
                 /\ 1 <= next[n].id
                 /\ next[n].id <= next[n].lastID
                 /\ next[n].occurrences = Cardinality(LinesIn(e, IDs(next[n])))
                 /\ \A m \in IDs(next[n]) :
                       /\ m \notin gone
                       /\ e.out[m].source = next[n].source
                       /\ e.out[m].text = next[n].text
      BY <1>2 DEF RingInv, PlacesInv
    <2>2. ASSUME NEW n \in 1 .. size - 1
          PROVE  next[n].lastID = IF n = size - 1 THEN Len(e.out) ELSE next[n + 1].id - 1
      <3>1. shown[n + 1].lastID = IF n + 1 = size THEN Len(e.out) ELSE shown[n + 2].id - 1
        <4>1. (n + 1) + 1 = n + 2
          OBVIOUS
        <4> QED BY <4>1, <1>2 DEF RingInv, PlacesInv
      <3>2. CASE n = size - 1
        BY <3>1, <3>2, <1>2
      <3>3. CASE n # size - 1
        <4>1. n + 1 \in 1 .. size - 1 /\ (n + 1) + 1 = n + 2 /\ n + 1 # size
          BY <3>3
        <4>2. next[n + 1] = shown[n + 2]
          BY <4>1, <1>2
        <4> QED BY <3>1, <3>3, <4>1, <4>2, <1>2
      <3> QED BY <3>2, <3>3
    <2>3. ASSUME NEW m \in 1 .. size - 1, NEW n \in 1 .. size - 1, m < n
          PROVE  next[m].lastID < next[n].id
      <3>1. m + 1 \in 1 .. size /\ n + 1 \in 1 .. size /\ m + 1 < n + 1
        BY <2>3
      <3> QED BY <3>1, <1>2 DEF RingInv, PlacesInv
    <2> QED BY <2>1, <2>2, <2>3 DEF PlacesInv
  <1>5. 1 \in 1 .. size
    OBVIOUS
  <1> DEFINE A == (1 .. N) \ (gone \cup ShownIDs(shown, size))
             B == IDs(shown[1])
  <1>6. B \subseteq 1 .. N /\ B \cap gone = {}
    <2>1. shown[1].lastID <= N
      <3>1. CASE size = 1
        BY <3>1, <1>5 DEF RingInv, PlacesInv, N
      <3>2. CASE size # 1
        <4>1. size \in 1 .. size /\ 1 < size
          BY <3>2
        <4>2. shown[1].lastID < shown[size].id /\ shown[size].id <= shown[size].lastID
              /\ shown[size].lastID = N
          BY <4>1, <1>5 DEF RingInv, PlacesInv, N
        <4> QED BY <4>1, <4>2, <1>3, <1>5, <1>1
      <3> QED BY <3>1, <3>2
    <2>2. 1 <= shown[1].id /\ \A m \in B : m \notin gone
      BY <1>5 DEF RingInv, PlacesInv
    <2>3. \A m \in B : m \in Int /\ shown[1].id <= m /\ m <= shown[1].lastID
      BY <1>3, <1>5 DEF IDs
    <2> QED BY <2>1, <2>2, <2>3, <1>1, <1>3, <1>5
  <1>7. \A n \in 1 .. size : n # 1 => IDs(shown[n]) \cap B = {}
    <2> SUFFICES ASSUME NEW n \in 1 .. size, n # 1, NEW m \in IDs(shown[n]), m \in B PROVE FALSE
      OBVIOUS
    <2>1. shown[1].lastID < shown[n].id
      BY <1>5 DEF RingInv, PlacesInv
    <2>2. m \in Int /\ m <= shown[1].lastID /\ shown[n].id <= m
      BY <1>3, <1>5 DEF IDs
    <2> QED BY <2>1, <2>2, <1>3, <1>5
  <1>8. ShownIDs(shown, size) = B \cup ShownIDs(next, size - 1)
    <2>1. ASSUME NEW m \in ShownIDs(shown, size) PROVE m \in B \cup ShownIDs(next, size - 1)
      <3>1. PICK n \in 1 .. size : m \in IDs(shown[n])
        BY <2>1 DEF ShownIDs
      <3>2. CASE n = 1
        BY <3>1, <3>2
      <3>3. CASE n # 1
        <4>1. n - 1 \in 1 .. size - 1 /\ (n - 1) + 1 = n
          BY <3>3
        <4>2. next[n - 1] = shown[n]
          BY <4>1, <1>2
        <4> QED BY <4>1, <4>2, <3>1 DEF ShownIDs
      <3> QED BY <3>2, <3>3
    <2>2. ASSUME NEW m \in B \cup ShownIDs(next, size - 1) PROVE m \in ShownIDs(shown, size)
      BY <2>2, <1>2, <1>5 DEF ShownIDs
    <2> QED BY <2>1, <2>2
  <1>9. B \cap ShownIDs(next, size - 1) = {}
    <2> SUFFICES ASSUME NEW m \in B, m \in ShownIDs(next, size - 1) PROVE FALSE
      OBVIOUS
    <2>1. PICK n \in 1 .. size - 1 : m \in IDs(next[n])
      BY DEF ShownIDs
    <2>2. n + 1 \in 1 .. size /\ n + 1 # 1 /\ next[n] = shown[n + 1]
      BY <1>2
    <2> QED BY <2>1, <2>2, <1>7
  <1> HIDE DEF B
  <1>10. (1 .. N) \ (gone \cup ShownIDs(next, size - 1)) = A \cup B
    BY <1>6, <1>8, <1>9
  <1>11. A \in SUBSET DOMAIN e.out /\ B \in SUBSET DOMAIN e.out /\ A \cap B = {}
    BY <1>1, <1>6, <1>8
  <1>12. Cardinality(LinesIn(e, A \cup B)) = Cardinality(LinesIn(e, A)) + Cardinality(LinesIn(e, B))
    BY <1>11, LinesInCount
  <1>13. evicted = Cardinality(LinesIn(e, A)) /\ shown[1].occurrences = Cardinality(LinesIn(e, B))
    BY <1>5 DEF RingInv, PlacesInv, EvictedInv, N, B
  <1>14. EvictedInv(next, size - 1, evicted + shown[1].occurrences, e, gone)
    BY <1>10, <1>12, <1>13 DEF EvictedInv, N
  <1> QED BY <1>4, <1>14 DEF RingInv, next

\* One more entry is returned: what was counted of the entries before it stays so.
OneMore(e, x, f) ==
    /\ Len(f.out) = Len(e.out) + 1
    /\ DOMAIN f.out = 1 .. Len(e.out) + 1
    /\ \A n \in 1 .. Len(e.out) : f.out[n] = e.out[n]
    /\ f.out[Len(e.out) + 1] = x
    /\ f.out \in Seq(Entries)
    /\ \A S \in SUBSET (1 .. Len(e.out)) : LinesIn(f, S) = LinesIn(e, S)
    /\ LinesIn(f, {Len(e.out) + 1}) = Lines(x)

\* An entry that is appended is one more.
LEMMA OneMoreOut ==
    ASSUME NEW e, e.out \in Seq(Entries), NEW x \in Entries, NEW f, f.out = Append(e.out, x)
    PROVE  OneMore(e, x, f)
  <1>1. /\ Len(e.out) \in Nat /\ Len(f.out) = Len(e.out) + 1
        /\ DOMAIN f.out = 1 .. Len(e.out) + 1
        /\ \A n \in 1 .. Len(e.out) : f.out[n] = e.out[n]
        /\ f.out[Len(e.out) + 1] = x
        /\ f.out \in Seq(Entries)
    OBVIOUS
  <1>2. ASSUME NEW S \in SUBSET (1 .. Len(e.out)) PROVE LinesIn(f, S) = LinesIn(e, S)
    BY <1>1 DEF LinesIn
  <1>3. LinesIn(f, {Len(e.out) + 1}) = Lines(x)
    BY <1>1 DEF LinesIn
  <1> QED BY <1>1, <1>2, <1>3 DEF OneMore

\* What every way of keeping one more entry has in common: nothing more is evicted.
LEMMA NoneEvicted ==
    ASSUME NEW e, NEW top \in Nat, OutLines(e, top), NEW x \in Entries, NEW f,
           f.out = Append(e.out, x), NEW gone, gone \subseteq 1 .. Len(e.out),
           NEW shown, NEW size, NEW next, NEW more, NEW evicted,
           EvictedInv(shown, size, evicted, e, gone),
           ShownIDs(next, more) = ShownIDs(shown, size) \cup {Len(e.out) + 1}
    PROVE  EvictedInv(next, more, evicted, f, gone)
  <1> DEFINE N == Len(e.out)
             S == (1 .. N) \ (gone \cup ShownIDs(shown, size))
             T == (1 .. N + 1) \ (gone \cup ShownIDs(next, more))
  <1>0. e.out \in Seq(Entries) /\ N \in Nat
    BY DEF OutLines
  <1>1. Len(f.out) = N + 1 /\ LinesIn(f, S) = LinesIn(e, S)
    <2>1. OneMore(e, x, f)
      BY <1>0, OneMoreOut
    <2> QED BY <2>1 DEF OneMore
  <1>2. T = S
    <2>1. 1 .. N + 1 = (1 .. N) \cup {N + 1}
      BY <1>0
    <2>2. N + 1 \notin 1 .. N
      BY <1>0
    <2> HIDE DEF N
    <2> QED BY <2>1, <2>2 DEF N
  <1>3. evicted = Cardinality(LinesIn(e, S))
    BY DEF EvictedInv
  <1> HIDE DEF S, T
  <1>4. evicted = Cardinality(LinesIn(f, T))
    BY <1>1, <1>2, <1>3
  <1> QED BY <1>1, <1>4 DEF EvictedInv, T

\* The entry is kept in a place of its own.
LEMMA PlaceAdded ==
    ASSUME NEW e, NEW top \in Nat, OutLines(e, top), NEW x \in Entries,
           x.id = Len(e.out) + 1, Cardinality(Lines(x)) = Len(x.group), NEW f,
           f.out = Append(e.out, x), NEW shown, NEW size \in Nat, NEW evicted, NEW gone,
           RingInv(shown, size, evicted, e, gone), NEW next,
           \A n \in 1 .. size : next[n] = shown[n], next[size + 1] = Place(x)
    PROVE  RingInv(next, size + 1, evicted, f, gone)
  <1> DEFINE N == Len(e.out)
             p == Place(x)
  <1>0. e.out \in Seq(Entries) /\ N \in Nat
    BY DEF OutLines
  <1>1. /\ Len(f.out) = N + 1
        /\ \A n \in 1 .. N : f.out[n] = e.out[n]
        /\ f.out[N + 1] = x
        /\ \A S \in SUBSET (1 .. N) : LinesIn(f, S) = LinesIn(e, S)
        /\ LinesIn(f, {N + 1}) = Lines(x)
    <2>1. OneMore(e, x, f)
      BY <1>0, OneMoreOut
    <2> QED BY <2>1 DEF OneMore
  <1>2. /\ p \in RingPlaces /\ p.id = N + 1 /\ p.lastID = N + 1 /\ p.source = x.source
        /\ p.text = x.text /\ p.occurrences = Len(x.group)
    <2>1. Len(x.group) \in Nat /\ x.id \in Nat
      BY DEF Entries
    <2> QED BY <2>1 DEF Place, RingPlaces, Entries
  <1>3. \A n \in 1 .. size : shown[n].id \in Nat /\ shown[n].lastID \in Nat
    BY DEF RingInv, PlacesInv, RingPlaces
  <1> HIDE DEF N, p
  <1>4. IDs(p) = {N + 1}
    BY <1>0, <1>2 DEF IDs
  <1>5. \A n \in 1 .. size : shown[n].lastID <= N
    <2> SUFFICES ASSUME NEW n \in 1 .. size PROVE shown[n].lastID <= N
      OBVIOUS
    <2>1. CASE n = size
      BY <2>1, <1>0 DEF RingInv, PlacesInv, N
    <2>2. CASE n # size
      <3>1. size \in 1 .. size /\ n < size
        BY <2>2
      <3>2. shown[n].lastID < shown[size].id /\ shown[size].id <= shown[size].lastID
            /\ shown[size].lastID = N
        BY <3>1 DEF RingInv, PlacesInv, N
      <3> QED BY <3>1, <3>2, <1>3, <1>0
    <2> QED BY <2>1, <2>2
  <1>6. \A n \in 1 .. size : IDs(shown[n]) \subseteq 1 .. N
    <2> SUFFICES ASSUME NEW n \in 1 .. size, NEW m \in IDs(shown[n]) PROVE m \in 1 .. N
      OBVIOUS
    <2>1. shown[n].id \in Nat /\ shown[n].lastID \in Nat /\ shown[n].lastID <= N
      BY <1>3, <1>5
    <2>2. m \in Int /\ shown[n].id <= m /\ m <= shown[n].lastID
      BY <2>1 DEF IDs
    <2>3. 1 <= shown[n].id
      BY DEF RingInv, PlacesInv
    <2> QED BY <2>1, <2>2, <2>3, <1>0
  <1>7. PlacesInv(next, size + 1, f, gone)
    <2>1. ASSUME NEW n \in 1 .. size + 1
          PROVE  /\ next[n] \in RingPlaces
                 /\ 1 <= next[n].id
                 /\ next[n].id <= next[n].lastID
                 /\ next[n].lastID = IF n = size + 1 THEN Len(f.out) ELSE next[n + 1].id - 1
                 /\ next[n].occurrences = Cardinality(LinesIn(f, IDs(next[n])))
                 /\ \A m \in IDs(next[n]) :
                       /\ m \notin gone
                       /\ f.out[m].source = next[n].source
                       /\ f.out[m].text = next[n].text
      <3>1. CASE n = size + 1
        <4>1. N + 1 \notin gone
          BY <1>0 DEF RingInv, N
        <4>2. next[n] = p
          BY <3>1 DEF p
        <4>3. p \in RingPlaces /\ 1 <= p.id /\ p.id <= p.lastID /\ p.lastID = Len(f.out)
          BY <1>0, <1>1, <1>2
        <4>4. p.occurrences = Cardinality(LinesIn(f, IDs(p)))
          BY <1>1, <1>2, <1>4
        <4>5. \A m \in IDs(p) : m \notin gone /\ f.out[m].source = p.source /\ f.out[m].text = p.text
          BY <4>1, <1>1, <1>2, <1>4
        <4> QED BY <3>1, <4>2, <4>3, <4>4, <4>5
      <3>2. CASE n # size + 1
        <4>0. n \in 1 .. size /\ next[n] = shown[n]
          BY <3>2
        <4>1. /\ next[n] \in RingPlaces
              /\ 1 <= next[n].id
              /\ next[n].id <= next[n].lastID
          BY <4>0 DEF RingInv, PlacesInv
        <4>2. LinesIn(f, IDs(next[n])) = LinesIn(e, IDs(shown[n]))
          BY <4>0, <1>1, <1>6
        <4>3. next[n].occurrences = Cardinality(LinesIn(f, IDs(next[n])))
          BY <4>0, <4>2 DEF RingInv, PlacesInv
        <4>4. ASSUME NEW m \in IDs(next[n])
              PROVE  m \notin gone /\ f.out[m].source = next[n].source /\ f.out[m].text = next[n].text
          <5>1. m \in 1 .. N /\ m \in IDs(shown[n])
            BY <4>0, <1>6
          <5>2. m \notin gone /\ e.out[m].source = shown[n].source /\ e.out[m].text = shown[n].text
            BY <4>0, <5>1 DEF RingInv, PlacesInv
          <5> QED BY <5>1, <5>2, <4>0, <1>1
        <4>5. next[n].lastID = next[n + 1].id - 1
          <5>1. CASE n = size
            <6>1. shown[n].lastID = N
              BY <5>1, <4>0 DEF RingInv, PlacesInv, N
            <6>2. next[n + 1].id = N + 1
              BY <5>1, <1>2 DEF p
            <6> QED BY <6>1, <6>2, <4>0, <1>0
          <5>2. CASE n # size
            <6>1. n + 1 \in 1 .. size
              BY <5>2, <4>0
            <6>2. shown[n].lastID = shown[n + 1].id - 1
              BY <5>2, <4>0 DEF RingInv, PlacesInv
            <6> QED BY <6>1, <6>2, <4>0
          <5> QED BY <5>1, <5>2
        <4> QED BY <3>2, <4>1, <4>3, <4>4, <4>5
      <3> QED BY <3>1, <3>2
    <2>2. ASSUME NEW m \in 1 .. size + 1, NEW n \in 1 .. size + 1, m < n
          PROVE  next[m].lastID < next[n].id
      <3>1. m \in 1 .. size /\ next[m] = shown[m]
        BY <2>2
      <3>2. CASE n \in 1 .. size
        BY <3>1, <3>2, <2>2 DEF RingInv, PlacesInv
      <3>3. CASE n = size + 1
        <4>1. next[n].id = N + 1
          BY <3>3, <1>2 DEF p
        <4>2. next[m].lastID <= N /\ next[m].lastID \in Nat
          BY <3>1, <1>5, <1>3
        <4> QED BY <4>1, <4>2, <1>0
      <3> QED BY <3>2, <3>3
    <2> QED BY <2>1, <2>2 DEF PlacesInv
  <1>8. ShownIDs(next, size + 1) = ShownIDs(shown, size) \cup {N + 1}
    <2>1. \A n \in 1 .. size + 1 : n \in 1 .. size \/ n = size + 1
      OBVIOUS
    <2>2. \A n \in 1 .. size : n \in 1 .. size + 1
      OBVIOUS
    <2>3. size + 1 \in 1 .. size + 1 /\ IDs(next[size + 1]) = {N + 1}
      BY <1>4 DEF p
    <2> QED BY <2>1, <2>2, <2>3 DEF ShownIDs
  <1>9. gone \subseteq 1 .. Len(e.out) /\ gone \subseteq 1 .. Len(f.out)
    BY <1>0, <1>1 DEF RingInv, N
  <1>10. EvictedInv(next, size + 1, evicted, f, gone)
    BY <1>8, <1>9, NoneEvicted DEF RingInv, N
  <1> QED BY <1>7, <1>9, <1>10 DEF RingInv

\* The entry is counted in the newest place, which shows what it has.
LEMMA PlaceCounted ==
    ASSUME NEW e, NEW top \in Nat, OutLines(e, top), NEW x \in Entries,
           x.id = Len(e.out) + 1, Cardinality(Lines(x)) = Len(x.group), NEW f,
           f.out = Append(e.out, x), OutLines(f, top), NEW shown, NEW size \in Nat, size >= 1, NEW evicted,
           NEW gone, RingInv(shown, size, evicted, e, gone), NEW next,
           \A n \in 1 .. size - 1 : next[n] = shown[n],
           next[size] = CountedIn(shown[size], x),
           shown[size].source = x.source, shown[size].text = x.text
    PROVE  RingInv(next, size, evicted, f, gone)
  <1> DEFINE N == Len(e.out)
             p == CountedIn(shown[size], x)
             o == shown[size]
  <1>0. e.out \in Seq(Entries) /\ N \in Nat /\ DOMAIN e.out = 1 .. N
    BY DEF OutLines
  <1>1. /\ Len(f.out) = N + 1 /\ DOMAIN f.out = 1 .. N + 1
        /\ \A n \in 1 .. N : f.out[n] = e.out[n]
        /\ f.out[N + 1] = x
        /\ \A S \in SUBSET (1 .. N) : LinesIn(f, S) = LinesIn(e, S)
        /\ LinesIn(f, {N + 1}) = Lines(x)
    <2>1. OneMore(e, x, f)
      BY <1>0, OneMoreOut
    <2> QED BY <2>1 DEF OneMore
  <1>2. size \in 1 .. size /\ o \in RingPlaces /\ o.lastID = N /\ 1 <= o.id /\ o.id <= o.lastID
        /\ o.occurrences = Cardinality(LinesIn(e, IDs(o))) /\ o.id \in Nat /\ o.occurrences \in Nat
    BY DEF RingInv, PlacesInv, RingPlaces
  <1>3. /\ p \in RingPlaces /\ p.id = o.id /\ p.lastID = N + 1 /\ p.source = o.source
        /\ p.text = o.text /\ p.occurrences = o.occurrences + Len(x.group)
    <2>1. Len(x.group) \in Nat /\ x.id \in Nat
      BY DEF Entries
    <2> HIDE DEF o
    <2>2. p = [o EXCEPT !.lastID = N + 1, !.occurrences = o.occurrences + Len(x.group)]
      BY DEF CountedIn, o
    <2>3. o.occurrences + Len(x.group) \in Nat
      BY <1>2, <2>1
    <2> HIDE DEF p, N
    <2>4. N + 1 \in Nat /\ o \in RingPlaces
      BY <1>0, <1>2
    <2> QED BY <2>2, <2>3, <2>4 DEF RingPlaces
  <1>4. \A n \in 1 .. size : shown[n].id \in Nat /\ shown[n].lastID \in Nat
    BY DEF RingInv, PlacesInv, RingPlaces
  <1> HIDE DEF N, p, o
  <1>5. IDs(p) = IDs(o) \cup {N + 1} /\ IDs(o) \subseteq 1 .. N
    BY <1>0, <1>2, <1>3 DEF IDs
  <1>6. next[size] = p
    BY DEF p
  <1>7. \A n \in 1 .. size : n # size => n \in 1 .. size - 1 /\ next[n] = shown[n] /\ n < size
    OBVIOUS
  <1>8. \A n \in 1 .. size : next[n].id = shown[n].id
    BY <1>3, <1>6, <1>7 DEF o
  <1>9. \A n \in 1 .. size : n # size => IDs(shown[n]) \subseteq 1 .. N
    <2> SUFFICES ASSUME NEW n \in 1 .. size, n # size, NEW m \in IDs(shown[n]) PROVE m \in 1 .. N
      OBVIOUS
    <2>1. shown[n].lastID < o.id /\ 1 <= shown[n].id
      BY <1>2, <1>7 DEF RingInv, PlacesInv, o
    <2>2. m \in Int /\ shown[n].id <= m /\ m <= shown[n].lastID
      BY <1>4 DEF IDs
    <2> QED BY <2>1, <2>2, <1>0, <1>2, <1>4
  <1>10. Cardinality(LinesIn(f, IDs(p))) = p.occurrences
    <2>1. N + 1 \notin IDs(o)
      BY <1>0, <1>5
    <2>2. IDs(o) \in SUBSET DOMAIN f.out /\ {N + 1} \in SUBSET DOMAIN f.out /\ IDs(o) \cap {N + 1} = {}
      BY <1>0, <1>1, <1>5, <2>1
    <2>3. Cardinality(LinesIn(f, IDs(o) \cup {N + 1})) =
             Cardinality(LinesIn(f, IDs(o))) + Cardinality(LinesIn(f, {N + 1}))
      BY <2>2, LinesInCount
    <2>4. LinesIn(f, IDs(o)) = LinesIn(e, IDs(o)) /\ LinesIn(f, {N + 1}) = Lines(x)
      BY <1>1, <1>5
    <2> QED BY <2>3, <2>4, <1>2, <1>3, <1>5
  <1>11. PlacesInv(next, size, f, gone)
    <2>1. ASSUME NEW n \in 1 .. size
          PROVE  /\ next[n] \in RingPlaces
                 /\ 1 <= next[n].id
                 /\ next[n].id <= next[n].lastID
                 /\ next[n].lastID = IF n = size THEN Len(f.out) ELSE next[n + 1].id - 1
                 /\ next[n].occurrences = Cardinality(LinesIn(f, IDs(next[n])))
                 /\ \A m \in IDs(next[n]) :
                       /\ m \notin gone
                       /\ f.out[m].source = next[n].source
                       /\ f.out[m].text = next[n].text
      <3>1. CASE n = size
        <4>1. ASSUME NEW m \in IDs(p)
              PROVE  m \notin gone /\ f.out[m].source = p.source /\ f.out[m].text = p.text
          <5>1. CASE m = N + 1
            <6>1. N + 1 \notin gone
              BY <1>0 DEF RingInv, N
            <6> QED BY <5>1, <6>1, <1>1, <1>3 DEF o
          <5>2. CASE m # N + 1
            <6>1. m \in IDs(o) /\ m \in 1 .. N
              BY <5>2, <1>5
            <6>2. m \notin gone /\ e.out[m].source = o.source /\ e.out[m].text = o.text
              BY <6>1, <1>2 DEF RingInv, PlacesInv, o
            <6> QED BY <6>1, <6>2, <1>1, <1>3
          <5> QED BY <5>1, <5>2
        <4>2. p \in RingPlaces /\ 1 <= p.id /\ p.id <= p.lastID /\ p.lastID = Len(f.out)
          BY <1>0, <1>1, <1>2, <1>3
        <4> QED BY <3>1, <4>1, <4>2, <1>6, <1>10
      <3>2. CASE n # size
        <4>0. n \in 1 .. size - 1 /\ next[n] = shown[n] /\ n + 1 \in 1 .. size
          BY <3>2
        <4>1. /\ next[n] \in RingPlaces
              /\ 1 <= next[n].id
              /\ next[n].id <= next[n].lastID
              /\ shown[n].lastID = shown[n + 1].id - 1
          BY <3>2, <4>0 DEF RingInv, PlacesInv
        <4>2. LinesIn(f, IDs(next[n])) = LinesIn(e, IDs(shown[n]))
          BY <3>2, <4>0, <1>1, <1>9
        <4>3. next[n].occurrences = Cardinality(LinesIn(f, IDs(next[n])))
          BY <4>0, <4>2 DEF RingInv, PlacesInv
        <4>4. ASSUME NEW m \in IDs(next[n])
              PROVE  m \notin gone /\ f.out[m].source = next[n].source /\ f.out[m].text = next[n].text
          <5>1. m \in 1 .. N /\ m \in IDs(shown[n])
            BY <3>2, <4>0, <1>9
          <5>2. m \notin gone /\ e.out[m].source = shown[n].source /\ e.out[m].text = shown[n].text
            BY <4>0, <5>1 DEF RingInv, PlacesInv
          <5> QED BY <5>1, <5>2, <4>0, <1>1
        <4>5. next[n + 1].id = shown[n + 1].id
          BY <4>0, <1>8
        <4> QED BY <3>2, <4>0, <4>1, <4>3, <4>4, <4>5
      <3> QED BY <3>1, <3>2
    <2>2. ASSUME NEW m \in 1 .. size, NEW n \in 1 .. size, m < n
          PROVE  next[m].lastID < next[n].id
      <3>1. m # size /\ next[m] = shown[m]
        BY <2>2
      <3> QED BY <3>1, <2>2, <1>8 DEF RingInv, PlacesInv
    <2> QED BY <2>1, <2>2 DEF PlacesInv
  <1>12. ShownIDs(next, size) = ShownIDs(shown, size) \cup {N + 1}
    <2>1. ASSUME NEW m \in ShownIDs(next, size) PROVE m \in ShownIDs(shown, size) \cup {N + 1}
      <3>1. PICK n \in 1 .. size : m \in IDs(next[n])
        BY <2>1 DEF ShownIDs
      <3>2. m \in IDs(shown[n]) \/ m = N + 1
        BY <3>1, <1>5, <1>6, <1>7 DEF o
      <3> QED BY <3>2 DEF ShownIDs
    <2>2. ASSUME NEW m \in ShownIDs(shown, size) PROVE m \in ShownIDs(next, size)
      <3>1. PICK n \in 1 .. size : m \in IDs(shown[n])
        BY <2>2 DEF ShownIDs
      <3>2. m \in IDs(next[n])
        BY <3>1, <1>5, <1>6, <1>7 DEF o
      <3> QED BY <3>2 DEF ShownIDs
    <2>3. N + 1 \in ShownIDs(next, size)
      BY <1>2, <1>5, <1>6 DEF ShownIDs
    <2> QED BY <2>1, <2>2, <2>3
  <1>13. gone \subseteq 1 .. Len(e.out) /\ gone \subseteq 1 .. Len(f.out)
    BY <1>0, <1>1 DEF RingInv, N
  <1>14. EvictedInv(next, size, evicted, f, gone)
    BY <1>12, <1>13, NoneEvicted DEF RingInv, N
  <1> QED BY <1>11, <1>13, <1>14 DEF RingInv

\* The place of the ring that is the n-th from the start.
At(start, n) == IF start + n - 1 < Capacity THEN start + n - 1 ELSE start + n - 1 - Capacity

\* Counted from its start the places of the ring are all different.
Rounds(start) ==
    /\ \A n \in 1 .. Capacity : /\ At(start, n) \in 0 .. Capacity - 1
                                /\ (start + n - 1) % Capacity = At(start, n)
    /\ \A m, n \in 1 .. Capacity : At(start, m) = At(start, n) => m = n
    /\ At(start, 1) = start

\* The places of the ring are counted once, from wherever it starts.
LEMMA PlacesApart ==
    ASSUME NEW start \in 0 .. Capacity - 1 PROVE Rounds(start)
  <1>1. Capacity \in Nat /\ Capacity >= 1 /\ start \in Nat /\ start < Capacity
    BY Sizes
  <1>2. ASSUME NEW n \in 1 .. Capacity
        PROVE  At(start, n) \in 0 .. Capacity - 1 /\ (start + n - 1) % Capacity = At(start, n)
    <2>1. n - 1 \in 0 .. Capacity /\ start + n - 1 = start + (n - 1)
      BY <1>1
    <2>2. (start + (n - 1)) % Capacity =
             IF start + (n - 1) < Capacity THEN start + (n - 1) ELSE start + (n - 1) - Capacity
      BY <2>1, Around
    <2>3. (start + n - 1) % Capacity = At(start, n)
      BY <2>1, <2>2 DEF At
    <2>4. At(start, n) \in 0 .. Capacity - 1
      BY <1>1 DEF At
    <2> QED BY <2>3, <2>4
  <1>3. ASSUME NEW m \in 1 .. Capacity, NEW n \in 1 .. Capacity, At(start, m) = At(start, n)
        PROVE  m = n
    BY <1>1, <1>3 DEF At
  <1>4. At(start, 1) = start
    BY <1>1 DEF At
  <1> QED BY <1>2, <1>3, <1>4 DEF Rounds

\* The snapshot shows the places from the start on.
LEMMA SnapshotPlaces ==
    ASSUME NEW e \in Engines
    PROVE  \A n \in 1 .. e.size : Snapshot(e)[n] = e.ring[At(e.start, n)]
  <1>1. e.start \in 0 .. Capacity - 1 /\ e.size \in 0 .. Capacity
    BY DEF Engines
  <1>2. \A n \in 1 .. e.size : n \in 1 .. Capacity
    BY <1>1, Sizes
  <1>3. \A n \in 1 .. e.size : Snapshot(e)[n] = e.ring[(e.start + n - 1) % Capacity]
    BY DEF Snapshot
  <1>4. Rounds(e.start)
    BY <1>1, PlacesApart
  <1> QED BY <1>2, <1>3, <1>4 DEF Rounds

\* An entry that was just returned is committed to the ring.
LEMMA CommitKeepsRing ==
    ASSUME NEW e \in Engines, NEW d \in Engines, NEW x \in Entries, NEW gone, NEW top \in Nat,
           Ringed(e, gone), OutLines(e, top), OutLines(d, top),
           Cardinality(Lines(x)) = Len(x.group), x.id = Len(e.out) + 1,
           d.out = Append(e.out, x), d.nextID = Len(e.out) + 1,
           d.ring = e.ring, d.start = e.start, d.size = e.size, d.evicted = e.evicted
    PROVE  Ringed(Commit(d, x), gone)
  <1> DEFINE f == Commit(d, x)
             shown == Snapshot(e)
             next == Snapshot(f)
             a == e.start
             size == e.size
  <1>1. f \in Engines /\ f.nextID = d.nextID /\ f.out = d.out
    BY CommitFields
  <1>2. /\ a \in 0 .. Capacity - 1 /\ size \in 0 .. Capacity
        /\ e.ring \in [0 .. Capacity - 1 -> RingPlaces]
    BY DEF Engines
  <1>3. f.nextID = Len(f.out) /\ f.out = Append(e.out, x) /\ OutLines(f, top)
    <2>1. f.out = Append(e.out, x) /\ f.nextID = Len(e.out) + 1
      BY <1>1
    <2>2. Len(f.out) = Len(e.out) + 1
      BY <2>1 DEF OutLines
    <2>3. OutLines(f, top)
      BY <1>1 DEF OutLines
    <2> QED BY <2>1, <2>2, <2>3
  <1>4. RingInv(shown, size, e.evicted, e, gone)
    BY DEF Ringed
  <1>5. \A n \in 1 .. size : shown[n] = e.ring[At(a, n)]
    BY SnapshotPlaces
  <1>6. \A n \in 1 .. f.size : next[n] = f.ring[At(f.start, n)]
    BY <1>1, SnapshotPlaces
  <1>11. Capacity \in Nat /\ Capacity >= 1 /\ size \in Nat /\ size <= Capacity /\ a \in Nat /\ a < Capacity
    BY <1>2, Sizes
  <1>7. /\ \A n \in 1 .. Capacity : At(a, n) \in 0 .. Capacity - 1
        /\ \A n \in 1 .. Capacity : (a + n - 1) % Capacity = At(a, n)
        /\ \A m, n \in 1 .. Capacity : At(a, m) = At(a, n) => m = n
        /\ At(a, 1) = a
    <2>1. Rounds(a)
      BY <1>2, PlacesApart
    <2> QED BY <2>1 DEF Rounds
  <1>8. CASE Collapses(d, x)
    <2>1. size >= 1 /\ size \in 1 .. Capacity
      BY <1>8, <1>11 DEF Collapses
    <2>2. Newest(d) = At(a, size)
      BY <2>1, <1>7 DEF Newest
    <2>3. shown[size] = e.ring[At(a, size)]
      BY <2>1, <1>5
    <2>4. shown[size].source = x.source /\ shown[size].text = x.text
      BY <1>8, <2>2, <2>3 DEF Collapses
    <2>5. f = [d EXCEPT !.ring[Newest(d)] = CountedIn(@, x)]
      BY <1>8 DEF Commit
    <2> DEFINE r == [e.ring EXCEPT ![At(a, size)] = CountedIn(e.ring[At(a, size)], x)]
    <2>6. f = [d EXCEPT !.ring = r]
      BY <2>2, <2>5
    <2> HIDE DEF f, r
    <2>7. f.ring = r /\ f.start = a /\ f.size = size /\ f.evicted = e.evicted
      BY <2>6 DEF Engines
    <2>8. next[size] = CountedIn(shown[size], x)
      <3>1. size \in 1 .. size /\ At(a, size) \in 0 .. Capacity - 1
        <4>1. size \in 1 .. size
          BY <2>1, <1>11
        <4> QED BY <4>1, <2>1, <1>7
      <3>2. r[At(a, size)] = CountedIn(e.ring[At(a, size)], x)
        BY <3>1, <1>2 DEF r
      <3> QED BY <3>1, <3>2, <1>6, <2>3, <2>7
    <2>9. \A n \in 1 .. size - 1 : next[n] = shown[n]
      <3> SUFFICES ASSUME NEW n \in 1 .. size - 1 PROVE next[n] = shown[n]
        OBVIOUS
      <3>1. n \in 1 .. size /\ n \in 1 .. Capacity /\ n # size
        BY <2>1, <1>11
      <3>2. At(a, n) # At(a, size) /\ At(a, n) \in 0 .. Capacity - 1
        BY <3>1, <2>1, <1>7
      <3>3. r[At(a, n)] = e.ring[At(a, n)]
        BY <3>2, <1>2 DEF r
      <3> QED BY <3>1, <3>3, <1>5, <1>6, <2>7
    <2> HIDE DEF shown, next, size
    <2>11. size \in Nat
      BY <1>11
    <2>10. RingInv(next, size, e.evicted, f, gone)
      BY <1>3, <1>4, <2>11, <2>1, <2>4, <2>8, <2>9, PlaceCounted
    <2> QED BY <2>7, <2>10, <1>3 DEF Ringed, next, f
  <1>9. CASE ~ Collapses(d, x) /\ size = Capacity
    <2>1. f = [d EXCEPT !.evicted = @ + d.ring[d.start].occurrences,
                        !.ring[d.start] = Place(x), !.start = (@ + 1) % Capacity]
      BY <1>9 DEF Commit
    <2> DEFINE r == [e.ring EXCEPT ![a] = Place(x)]
               v == e.evicted + e.ring[a].occurrences
               b == (a + 1) % Capacity
    <2>2. f = [d EXCEPT !.evicted = v, !.ring = r, !.start = b]
      BY <2>1
    <2> HIDE DEF f
    <2>3. f.ring = r /\ f.start = b /\ f.size = Capacity /\ f.evicted = v
      <3> HIDE DEF r, v, b
      <3> QED BY <2>2, <1>9 DEF Engines
    <2>4. b = IF a + 1 < Capacity THEN a + 1 ELSE a + 1 - Capacity
      <3>1. 1 \in 0 .. Capacity
        BY <1>11
      <3> QED BY <1>2, <3>1, Around
    <2>5. \A n \in 1 .. Capacity - 1 : At(b, n) = At(a, n + 1)
      <3> SUFFICES ASSUME NEW n \in 1 .. Capacity - 1 PROVE At(b, n) = At(a, n + 1)
        OBVIOUS
      <3> HIDE DEF a, b
      <3>1. n \in Nat /\ n >= 1 /\ n + 1 <= Capacity /\ a + (n + 1) - 1 = a + n
        BY <1>11
      <3>2. CASE a + 1 < Capacity
        <4>1. b = a + 1 /\ b + n - 1 = a + n
          BY <2>4, <3>1, <3>2, <1>11
        <4> QED BY <4>1, <3>1, <1>11 DEF At
      <3>3. CASE ~ (a + 1 < Capacity)
        <4>1. b = 0 /\ b + n - 1 = n - 1 /\ a + n - Capacity = n - 1 /\ ~ (a + n < Capacity)
          BY <2>4, <3>1, <3>3, <1>11
        <4>2. n - 1 < Capacity
          BY <3>1, <1>11
        <4> QED BY <4>1, <4>2, <3>1 DEF At
      <3> QED BY <3>2, <3>3
    <2>6. At(b, Capacity) = a
      <3> HIDE DEF b
      <3> QED BY <2>4, <1>11 DEF At
    <2> DEFINE mid == [n \in 1 .. size - 1 |-> shown[n + 1]]
    <2>7. \A n \in 1 .. size - 1 : next[n] = mid[n]
      <3> SUFFICES ASSUME NEW n \in 1 .. size - 1 PROVE next[n] = shown[n + 1]
        OBVIOUS
      <3>1. n \in 1 .. Capacity /\ n + 1 \in 1 .. Capacity /\ n + 1 # 1 /\ 1 \in 1 .. Capacity
        BY <1>9, <1>11
      <3>2. At(a, n + 1) # a /\ At(a, n + 1) \in 0 .. Capacity - 1
        BY <3>1, <1>7
      <3>3. r[At(a, n + 1)] = e.ring[At(a, n + 1)]
        BY <3>2, <1>2
      <3>4. next[n] = f.ring[At(b, n)]
        BY <3>1, <2>3, <1>6
      <3>5. At(b, n) = At(a, n + 1)
        BY <2>5, <1>9
      <3> HIDE DEF next, r
      <3> QED BY <3>1, <3>3, <3>4, <3>5, <2>3, <1>5, <1>9
    <2>8. next[(size - 1) + 1] = Place(x)
      <3>1. (size - 1) + 1 = Capacity /\ Capacity \in 1 .. Capacity
        BY <1>9, <1>11
      <3>2. next[Capacity] = f.ring[At(b, Capacity)]
        BY <3>1, <2>3, <1>6
      <3>3. r[a] = Place(x)
        BY <1>2
      <3> HIDE DEF next, r
      <3> QED BY <3>1, <3>2, <3>3, <2>3, <2>6
    <2>9. shown[1] = e.ring[a]
      <3>1. 1 \in 1 .. size
        BY <1>9, <1>11
      <3> QED BY <3>1, <1>5, <1>7
    <2>10. size - 1 \in Nat /\ size >= 1
      BY <1>9, <1>11
    <2> HIDE DEF shown, next, size, b, r
    <2>11. RingInv(mid, size - 1, e.evicted + shown[1].occurrences, e, gone)
      BY <1>4, <2>10, <1>11, PlaceDropped
    <2> HIDE DEF mid
    <2>12. RingInv(next, (size - 1) + 1, e.evicted + shown[1].occurrences, f, gone)
      BY <1>3, <2>7, <2>8, <2>10, <2>11, PlaceAdded
    <2>13. RingInv(next, f.size, f.evicted, f, gone)
      <3>1. (size - 1) + 1 = f.size
        BY <2>3, <1>9, <1>11
      <3>2. e.evicted + shown[1].occurrences = f.evicted
        BY <2>3, <2>9
      <3> QED BY <3>1, <3>2, <2>12
    <2> QED BY <2>13, <1>3 DEF Ringed, next, f
  <1>10. CASE ~ Collapses(d, x) /\ size # Capacity
    <2>1. f = [d EXCEPT !.ring[(d.start + d.size) % Capacity] = Place(x), !.size = @ + 1]
      BY <1>10 DEF Commit
    <2>2. size + 1 \in 1 .. Capacity /\ a + (size + 1) - 1 = a + size
      BY <1>10, <1>11
    <2>3. (a + size) % Capacity = At(a, size + 1) /\ At(a, size + 1) \in 0 .. Capacity - 1
      BY <2>2, <1>7
    <2> DEFINE r == [e.ring EXCEPT ![At(a, size + 1)] = Place(x)]
    <2>4. f = [d EXCEPT !.ring = r, !.size = size + 1]
      BY <2>1, <2>3
    <2> HIDE DEF f
    <2>5. f.ring = r /\ f.start = a /\ f.size = size + 1 /\ f.evicted = e.evicted
      <3> HIDE DEF r
      <3> QED BY <2>4 DEF Engines
    <2>6. \A n \in 1 .. size : next[n] = shown[n]
      <3> SUFFICES ASSUME NEW n \in 1 .. size PROVE next[n] = shown[n]
        OBVIOUS
      <3>1. n \in 1 .. size + 1 /\ n \in 1 .. Capacity /\ n # size + 1
        BY <2>2, <1>11
      <3>2. At(a, n) # At(a, size + 1) /\ At(a, n) \in 0 .. Capacity - 1
        BY <3>1, <2>2, <1>7
      <3>3. r[At(a, n)] = e.ring[At(a, n)]
        BY <3>2, <1>2
      <3>4. next[n] = f.ring[At(a, n)]
        BY <3>1, <2>5, <1>6
      <3> HIDE DEF next, r
      <3> QED BY <3>1, <3>3, <3>4, <2>5, <1>5
    <2>7. next[size + 1] = Place(x)
      <3>1. size + 1 \in 1 .. size + 1
        BY <2>2, <1>11
      <3>2. next[size + 1] = f.ring[At(a, size + 1)]
        BY <3>1, <2>5, <1>6
      <3>3. r[At(a, size + 1)] = Place(x)
        BY <2>3, <1>2
      <3> HIDE DEF next, r
      <3> QED BY <3>2, <3>3, <2>5
    <2> HIDE DEF shown, next, size
    <2>9. size \in Nat
      BY <1>11
    <2>8. RingInv(next, size + 1, e.evicted, f, gone)
      BY <1>3, <1>4, <2>9, <2>6, <2>7, PlaceAdded
    <2> QED BY <2>5, <2>8, <1>3 DEF Ringed, next, f
  <1> QED BY <1>8, <1>9, <1>10

\* Lines, in the order in which they are given.
LineSeqs == Seq([source : LogSources, time : Nat])

\* The first of the queue leaves it, is returned and enters the ring.
LEMMA PopFirstKeeps ==
    ASSUME NEW e, NEW ls \in LineSeqs, NEW top \in Nat, top <= Len(ls), NEW gone,
           Good(e, ls, top, gone), e.queue # {}
    PROVE  /\ Good(PopFirst(e), ls, top, gone)
           /\ Cardinality(PopFirst(e).queue) = Cardinality(e.queue) - 1
  <1> DEFINE q == Foremost(e)
             x == [q.entry EXCEPT !.id = e.nextID + 1]
             d == [e EXCEPT !.queue = @ \ {q}, !.nextID = @ + 1, !.out = Append(@, x)]
             f == PopFirst(e)
  <1>1. /\ e \in Engines /\ IsFiniteSet(e.queue) /\ Lined(e, ls, top) /\ Ringed(e, gone)
        /\ Typed(e) /\ e.out \in Seq(Entries) /\ e.queue \subseteq Waiting
        /\ e.nextID = Len(e.out) /\ e.nextID \in Nat
    BY DEF Good, Typed, Ringed, Engines
  <1>2. q \in e.queue /\ \A r \in e.queue \ {q} : Earlier(q, r)
    BY <1>1, FirstOfQueue DEF Lined, QueueInv
  <1>3. f = Commit(d, x)
    BY DEF PopFirst, Foremost
  <1> HIDE DEF q
  <1>4. q.entry \in Entries
    BY <1>1, <1>2 DEF Waiting
  <1>5. /\ x \in Entries /\ x.id = Len(e.out) + 1 /\ x.source = q.entry.source
        /\ x.group = q.entry.group /\ Lines(x) = Lines(q.entry)
        /\ Whole(x, ls, top) <=> Whole(q.entry, ls, top)
    <2>1. e.nextID + 1 \in Nat
      BY <1>1
    <2>2. /\ x \in Entries /\ x.id = e.nextID + 1 /\ x.source = q.entry.source
          /\ x.group = q.entry.group /\ Lines(x) = Lines(q.entry)
          /\ \A l, t : Whole(x, l, t) <=> Whole(q.entry, l, t)
      BY <1>4, <2>1, Renumbered
    <2> HIDE DEF x
    <2> QED BY <1>1, <2>2
  <1> HIDE DEF x
  <1>6. /\ d \in Engines /\ d.queue = e.queue \ {q} /\ d.nextID = e.nextID + 1
        /\ d.out = Append(e.out, x) /\ d.pending = e.pending /\ d.orderID = e.orderID
        /\ d.known = e.known /\ d.ring = e.ring /\ d.start = e.start /\ d.size = e.size
        /\ d.evicted = e.evicted
    <2> DEFINE o == Append(e.out, x)
               u == e.queue \ {q}
               i == e.nextID + 1
    <2>1. o \in Seq(Entries) /\ u \in SUBSET Waiting /\ i \in Nat
      BY <1>1, <1>5
    <2>2. d = [e EXCEPT !.queue = u, !.nextID = i, !.out = o]
      OBVIOUS
    <2> HIDE DEF o, u, i, d
    <2>3. /\ d \in Engines /\ d.queue = u /\ d.nextID = i /\ d.out = o
          /\ d.pending = e.pending /\ d.orderID = e.orderID
          /\ d.known = e.known /\ d.ring = e.ring /\ d.start = e.start /\ d.size = e.size
          /\ d.evicted = e.evicted
      BY <1>1, <2>1, <2>2 DEF Engines
    <2> QED BY <2>3 DEF o, u, i
  <1> HIDE DEF d
  <1>7. /\ f \in Engines /\ f.queue = d.queue /\ f.orderID = d.orderID /\ f.pending = d.pending
        /\ f.known = d.known /\ f.out = d.out
    BY <1>3, <1>5, <1>6, CommitFields
  <1>8. Whole(q.entry, ls, top)
    BY <1>1, <1>2 DEF Lined, QueueInv
  <1>9. Lined(f, ls, top)
    <2>1. /\ f.queue = e.queue \ {q} /\ f.out = Append(e.out, x) /\ f.pending = e.pending
          /\ f.orderID = e.orderID /\ f.known = e.known
      BY <1>6, <1>7
    <2>2. ls \in Seq([source : LogSources, time : Nat])
      BY DEF LineSeqs
    <2> HIDE DEF f
    <2> QED BY <1>1, <1>2, <1>5, <2>1, <2>2, PoppedLines
  <1>10. \A g : g \in Engines /\ OutInv(g, ls, top) => OutLines(g, top)
    <2> SUFFICES ASSUME NEW g, g \in Engines, OutInv(g, ls, top) PROVE OutLines(g, top)
      OBVIOUS
    <2>1. g.out \in Seq(Entries)
      BY DEF Engines
    <2>2. \A n \in DOMAIN g.out : Lines(g.out[n]) \subseteq 1 .. top
      BY DEF OutInv, Whole
    <2>3. ASSUME NEW m \in DOMAIN g.out, NEW n \in DOMAIN g.out, m # n
          PROVE  Apart(g.out[m], g.out[n])
      <3>1. m \in Nat /\ n \in Nat
        BY <2>1
      <3>2. m < n \/ n < m
        BY <3>1, <2>3
      <3>3. Apart(g.out[m], g.out[n]) \/ Apart(g.out[n], g.out[m])
        BY <3>2 DEF OutInv
      <3> QED BY <3>3 DEF Apart
    <2> QED BY <2>1, <2>2, <2>3 DEF OutLines
  <1>11. OutLines(e, top) /\ OutLines(f, top)
    BY <1>1, <1>7, <1>9, <1>10 DEF Lined
  <1>12. OutLines(d, top)
    BY <1>7, <1>11 DEF OutLines
  <1>13. Cardinality(Lines(x)) = Len(x.group)
    BY <1>5, <1>8, LinesCount
  <1>14. d.nextID = Len(e.out) + 1
    BY <1>1, <1>6
  <1>15. Ringed(f, gone)
    BY <1>1, <1>3, <1>5, <1>6, <1>11, <1>12, <1>13, <1>14, CommitKeepsRing
  <1>16. IsFiniteSet(f.queue) /\ Cardinality(f.queue) = Cardinality(e.queue) - 1
    BY <1>1, <1>2, <1>6, <1>7, FS_RemoveElement
  <1>17. Good(f, ls, top, gone)
    BY <1>1, <1>6, <1>7, <1>9, <1>15, <1>16 DEF Good, Typed
  <1> QED BY <1>16, <1>17

\* A set of numbers with zero and every successor has them all.
LEMMA AllNaturals ==
    ASSUME NEW S, S \subseteq Nat, 0 \in S, \A n \in S : n + 1 \in S
    PROVE  S = Nat
  <1> SUFFICES ASSUME S # Nat PROVE FALSE
    OBVIOUS
  <1> DEFINE T == Nat \ S
  <1>1. PICK m \in T : \A k \in T : m <= k
    BY LeastNatural
  <1>2. m # 0 /\ m - 1 \in Nat /\ (m - 1) + 1 = m
    OBVIOUS
  <1>3. m - 1 \in S
    BY <1>1, <1>2
  <1> QED BY <1>2, <1>3

\* g is what the engine is after so many entries have left its queue.
Pops(e, last, g) == g = [n \in 0 .. last |-> IF n = 0 THEN e ELSE PopFirst(g[n - 1])]

\* There is such a function, however many entries wait.
LEMMA PopsExist ==
    ASSUME NEW e, NEW last \in Nat PROVE \E g : Pops(e, last, g)
  <1> DEFINE S == {m \in Nat : \E g : Pops(e, m, g)}
  <1>1. 0 \in S
    <2> DEFINE g == [n \in 0 .. 0 |-> e]
    <2>1. Pops(e, 0, g)
      BY DEF Pops
    <2> QED BY <2>1
  <1>2. ASSUME NEW m \in S PROVE m + 1 \in S
    <2>1. PICK g : Pops(e, m, g)
      OBVIOUS
    <2> DEFINE h == [n \in 0 .. m + 1 |-> IF n = m + 1 THEN PopFirst(g[m]) ELSE g[n]]
    <2>2. \A n \in 0 .. m : h[n] = g[n] /\ g[n] = IF n = 0 THEN e ELSE PopFirst(g[n - 1])
      BY <2>1 DEF Pops
    <2>3. ASSUME NEW n \in 0 .. m + 1
          PROVE  h[n] = IF n = 0 THEN e ELSE PopFirst(h[n - 1])
      <3>1. CASE n = m + 1
        <4>1. n # 0 /\ n - 1 = m /\ m \in 0 .. m
          BY <3>1
        <4>2. h[n] = PopFirst(g[m]) /\ h[m] = g[m]
          BY <3>1, <4>1, <2>2
        <4> HIDE DEF h
        <4> QED BY <4>1, <4>2
      <3>2. CASE n # m + 1 /\ n # 0
        <4>1. n \in 0 .. m /\ n - 1 \in 0 .. m
          BY <3>2
        <4> HIDE DEF h
        <4> QED BY <4>1, <2>2, <3>2
      <3>3. CASE n = 0
        <4>1. 0 \in 0 .. m
          OBVIOUS
        <4> HIDE DEF h
        <4> QED BY <4>1, <3>3, <2>2
      <3> QED BY <3>1, <3>2, <3>3
    <2>4. h = [n \in 0 .. m + 1 |-> h[n]]
      OBVIOUS
    <2> HIDE DEF h
    <2>5. Pops(e, m + 1, h)
      BY <2>3, <2>4 DEF Pops
    <2> QED BY <2>5
  <1>3. S = Nat
    <2> HIDE DEF S
    <2>1. S \subseteq Nat
      BY DEF S
    <2> QED BY <2>1, <1>1, <1>2, AllNaturals
  <1> QED BY <1>3

\* Popped is that function.
LEMMA PoppedIs ==
    ASSUME NEW e, IsFiniteSet(e.queue)
    PROVE  Pops(e, Cardinality(e.queue), Popped(e))
  <1>1. \E g : Pops(e, Cardinality(e.queue), g)
    BY PopsExist, FS_CardinalityType
  <1> QED BY <1>1 DEF Popped, Pops

\* After any number of entries the engine is as good, and so many fewer wait.
LEMMA PoppedKeeps ==
    ASSUME NEW e, NEW ls \in LineSeqs, NEW top \in Nat, top <= Len(ls), NEW gone,
           Good(e, ls, top, gone), NEW n \in 0 .. Cardinality(e.queue)
    PROVE  /\ Good(Popped(e)[n], ls, top, gone)
           /\ Cardinality(Popped(e)[n].queue) = Cardinality(e.queue) - n
  <1> DEFINE K == Cardinality(e.queue)
             p == Popped(e)
             Fine(m) == Good(p[m], ls, top, gone) /\ Cardinality(p[m].queue) = K - m
             S == {m \in Nat : m \in 0 .. K => Fine(m)}
  <1>1. IsFiniteSet(e.queue) /\ K \in Nat
    BY FS_CardinalityType DEF Good, Typed
  <1>2. Pops(e, K, p)
    BY <1>1, PoppedIs
  <1> HIDE DEF K, p
  <1>3. \A m \in 0 .. K : p[m] = IF m = 0 THEN e ELSE PopFirst(p[m - 1])
    BY <1>2 DEF Pops
  <1>4. 0 \in S
    BY <1>1, <1>3 DEF K
  <1>5. ASSUME NEW m \in S PROVE m + 1 \in S
    <2> SUFFICES ASSUME m + 1 \in 0 .. K PROVE Fine(m + 1)
      OBVIOUS
    <2>1. m \in 0 .. K /\ m + 1 # 0 /\ (m + 1) - 1 = m /\ m < K
      BY <1>1
    <2>2. Good(p[m], ls, top, gone) /\ Cardinality(p[m].queue) = K - m
      BY <2>1
    <2>3. p[m + 1] = PopFirst(p[m])
      BY <2>1, <1>3
    <2>4. p[m].queue # {}
      <3>1. K - m # 0
        BY <2>1, <1>1
      <3> QED BY <3>1, <2>2, FS_EmptySet
    <2>5. Good(p[m + 1], ls, top, gone) /\ Cardinality(p[m + 1].queue) = Cardinality(p[m].queue) - 1
      BY <2>2, <2>3, <2>4, PopFirstKeeps
    <2>6. (K - m) - 1 = K - (m + 1)
      BY <1>1
    <2> QED BY <2>2, <2>5, <2>6
  <1>6. S = Nat
    <2> HIDE DEF S
    <2>1. S \subseteq Nat
      BY DEF S
    <2> QED BY <2>1, <1>4, <1>5, AllNaturals
  <1>7. n \in 0 .. K /\ n \in Nat
    BY DEF K
  <1>8. Fine(n)
    BY <1>6, <1>7
  <1> QED BY <1>8 DEF K, p

\* Draining ends, wherever it does, with an engine that is as good.
LEMMA DrainKeeps ==
    ASSUME NEW e, NEW ls \in LineSeqs, NEW top \in Nat, top <= Len(ls), NEW gone,
           Good(e, ls, top, gone), NEW now, NEW all
    PROVE  Good(Drain(e, now, all), ls, top, gone)
  <1> DEFINE K == Cardinality(e.queue)
             p == Popped(e)
             over == {n \in 0 .. K : \/ p[n].queue = {}
                                     \/ ~ all /\ ~ Due(p[n].queue, now)}
  <1>1. K \in Nat
    BY FS_CardinalityType DEF Good, Typed
  <1>2. \A n \in 0 .. K : Good(p[n], ls, top, gone) /\ Cardinality(p[n].queue) = K - n
    BY PoppedKeeps
  <1>3. Drain(e, now, all) = p[Min(over)]
    BY DEF Drain
  <1> HIDE DEF K, p
  <1>4. K \in over
    <2>1. K \in 0 .. K
      BY <1>1
    <2>2. Good(p[K], ls, top, gone) /\ Cardinality(p[K].queue) = 0
      BY <1>1, <1>2, <2>1
    <2>3. IsFiniteSet(p[K].queue)
      BY <2>2 DEF Good, Typed
    <2>4. p[K].queue = {}
      BY <2>2, <2>3, FS_EmptySet
    <2> QED BY <2>1, <2>4
  <1>5. over \in SUBSET Nat /\ over \subseteq 0 .. K
    BY <1>1
  <1> HIDE DEF over
  <1>6. PICK m \in over : \A y \in over : m <= y
    BY <1>4, <1>5, LeastNatural
  <1>7. Min(over) \in over
    BY <1>6 DEF Min
  <1> QED BY <1>2, <1>3, <1>5, <1>7

\* A line more does not change what the lines before it are.
LEMMA LongerWhole ==
    ASSUME NEW ls \in LineSeqs, NEW line \in [source : LogSources, time : Nat],
           NEW x \in Entries, Whole(x, ls, Len(ls))
    PROVE  Whole(x, Append(ls, line), Len(ls))
  <1> DEFINE more == Append(ls, line)
  <1>1. \A i \in 1 .. Len(ls) : more[i] = ls[i]
    BY DEF LineSeqs
  <1> HIDE DEF more
  <1>2. x.group \in Seq(Nat) /\ x.group # <<>>
    BY DEF Entries, Whole
  <1>3. 1 \in DOMAIN x.group
    BY <1>2
  <1>4. x.group[1] \in 1 .. Len(ls)
    BY <1>3 DEF Whole, Lines
  <1>5. Whole(x, more, Len(ls))
    BY <1>1, <1>4 DEF Whole
  <1> QED BY <1>5 DEF more

\* The engine is as good when a line was added that it was not given yet.
LEMMA LongerKeeps ==
    ASSUME NEW e, NEW ls \in LineSeqs, NEW gone, Good(e, ls, Len(ls), gone),
           NEW line \in [source : LogSources, time : Nat]
    PROVE  Good(e, Append(ls, line), Len(ls), gone)
  <1> DEFINE more == Append(ls, line)
  <1>1. \A x \in Entries : Whole(x, ls, Len(ls)) => Whole(x, more, Len(ls))
    BY LongerWhole
  <1>2. \A s : OrderedIn(s, more) => OrderedIn(s, ls)
    <2>1. DOMAIN ls \subseteq DOMAIN more /\ \A i \in DOMAIN ls : more[i] = ls[i]
      BY DEF LineSeqs
    <2> HIDE DEF more
    <2> QED BY <2>1 DEF OrderedIn
  <1> HIDE DEF more
  <1>3. /\ e \in Engines /\ Lined(e, ls, Len(ls)) /\ e.out \in Seq(Entries)
        /\ e.queue \subseteq Waiting
    BY DEF Good, Typed, Engines
  <1>4. \A q \in e.queue : q.entry \in Entries
    BY <1>3 DEF Waiting
  <1>5. \A n \in DOMAIN e.out : e.out[n] \in Entries
    BY <1>3
  <1>6. GroupsInv(e, more, Len(ls))
    BY <1>1, <1>3 DEF Lined, GroupsInv
  <1>7. QueueInv(e, more, Len(ls))
    BY <1>1, <1>3, <1>4 DEF Lined, QueueInv
  <1>8. OutInv(e, more, Len(ls))
    BY <1>1, <1>2, <1>3, <1>5 DEF Lined, OutInv
  <1>9. Lined(e, more, Len(ls))
    BY <1>3, <1>6, <1>7, <1>8 DEF Lined
  <1> QED BY <1>9 DEF Good, more

\* One more line counts.
LEMMA WholeLater ==
    ASSUME NEW x, NEW ls, NEW top \in Nat, Whole(x, ls, top)
    PROVE  /\ Whole(x, ls, top + 1)
           /\ \A i \in Lines(x) : i \in Nat /\ i < top + 1
BY DEF Whole

\* A new line is queued at once.
LEMMA QueuedKeeps ==
    ASSUME NEW e, NEW ls, NEW top \in Nat, NEW gone, Good(e, ls, top, gone),
           NEW s \in LogSources, e.pending[s] = NoGroup, NEW x \in Entries, x.source = s,
           Lines(x) = {top + 1}, Whole(x, ls, top + 1), NEW now \in Nat
    PROVE  Good(Enqueue(e, x, now), ls, top + 1, gone)
  <1> DEFINE y == [x EXCEPT !.id = e.orderID + 1]
             q == [entry |-> y, observed |-> now]
             f == Enqueue(e, x, now)
  <1>0. /\ e \in Engines /\ IsFiniteSet(e.queue) /\ IsFiniteSet(e.known)
        /\ Lined(e, ls, top) /\ Ringed(e, gone) /\ e.orderID \in Nat /\ e.out \in Seq(Entries)
        /\ e.queue \subseteq Waiting
    BY DEF Good, Typed, Engines
  <1>1. e.orderID + 1 \in Nat
    BY <1>0
  <1>2. /\ y \in Entries /\ y.id = e.orderID + 1 /\ y.source = s
        /\ Lines(y) = {top + 1} /\ Whole(y, ls, top + 1)
    BY <1>1, Renumbered
  <1>3. /\ f \in Engines /\ f.queue = e.queue \cup {q} /\ f.orderID = e.orderID + 1
        /\ f.pending = e.pending /\ f.known = e.known /\ SameRing(e, f)
    BY <1>0, EnqueueFields DEF SameRing
  <1>4. q.entry = y
    OBVIOUS
  <1> HIDE DEF y, q, f
  <1>5. f.out = e.out
    BY <1>3 DEF SameRing
  <1>6. \A r \in e.queue : r.entry \in Entries /\ r.entry.id \in Nat /\ r.entry.id <= e.orderID
                           /\ Whole(r.entry, ls, top)
    BY <1>0 DEF Lined, QueueInv, Waiting, Entries
  <1>7. GroupsInv(f, ls, top + 1)
    BY <1>0, <1>3, WholeLater DEF Lined, GroupsInv
  <1>8. QueueInv(f, ls, top + 1)
    <2>1. \A r \in f.queue : r.entry.id \in 1 .. f.orderID /\ Whole(r.entry, ls, top + 1)
      <3>1. \A r \in e.queue : r.entry.id \in 1 .. f.orderID /\ Whole(r.entry, ls, top + 1)
        BY <1>0, <1>3, <1>6, WholeLater DEF Lined, QueueInv
      <3>2. q.entry.id \in 1 .. f.orderID /\ Whole(q.entry, ls, top + 1)
        BY <1>0, <1>2, <1>3, <1>4
      <3> QED BY <3>1, <3>2, <1>3
    <2>2. \A r \in f.queue : Before(r.entry, f.pending[r.entry.source])
      <3>1. \A r \in e.queue : Before(r.entry, f.pending[r.entry.source])
        BY <1>0, <1>3 DEF Lined, QueueInv
      <3>2. Before(q.entry, f.pending[q.entry.source])
        BY <1>2, <1>3, <1>4, NoGroupIsNone DEF Before
      <3> QED BY <3>1, <3>2, <1>3
    <2>3. ASSUME NEW p \in f.queue, NEW r \in f.queue
          PROVE  /\ p.entry.id = r.entry.id => p = r
                 /\ p.entry.id < r.entry.id /\ p.entry.source = r.entry.source =>
                       Before(p.entry, r.entry)
      <3>1. CASE p \in e.queue /\ r \in e.queue
        BY <3>1, <1>0 DEF Lined, QueueInv
      <3>2. CASE p \in e.queue /\ r = q
        <4>1. p.entry.id # r.entry.id
          BY <3>2, <1>0, <1>2, <1>4, <1>6
        <4>2. Before(p.entry, r.entry)
          BY <3>2, <1>2, <1>4, <1>6, WholeLater DEF Before
        <4> QED BY <4>1, <4>2
      <3>3. CASE p = q /\ r \in e.queue
        <4>1. r.entry.id < p.entry.id /\ r.entry.id \in Nat /\ p.entry.id \in Nat
          BY <3>3, <1>0, <1>1, <1>2, <1>4, <1>6
        <4> QED BY <4>1
      <3>4. CASE p = q /\ r = q
        BY <3>4, <1>1, <1>2, <1>4
      <3> QED BY <3>1, <3>2, <3>3, <3>4, <1>3
    <2> QED BY <2>1, <2>2, <2>3 DEF QueueInv
  <1>9. OutInv(f, ls, top + 1)
    <2>1. \A n \in DOMAIN f.out : f.out[n].id = n /\ Whole(f.out[n], ls, top + 1)
      BY <1>0, <1>5, WholeLater DEF Lined, OutInv
    <2>2. \A n \in DOMAIN f.out : Before(f.out[n], f.pending[f.out[n].source])
      BY <1>0, <1>3, <1>5 DEF Lined, OutInv
    <2>3. ASSUME NEW n \in DOMAIN f.out, NEW r \in f.queue
          PROVE  /\ Apart(f.out[n], r.entry)
                 /\ OrderedIn(r.entry.source, ls) /\ f.out[n].source = r.entry.source =>
                       Before(f.out[n], r.entry)
      <3>1. CASE r \in e.queue
        BY <3>1, <1>0, <1>5 DEF Lined, OutInv
      <3>2. CASE r = q
        <4>1. \A i \in Lines(f.out[n]) : i \in Nat /\ i < top + 1
          BY <1>0, <1>5, WholeLater DEF Lined, OutInv
        <4>2. Lines(r.entry) = {top + 1}
          BY <3>2, <1>2, <1>4
        <4> QED BY <4>1, <4>2 DEF Apart, Before
      <3> QED BY <3>1, <3>2, <1>3
    <2>4. \A m, n \in DOMAIN f.out : m < n =>
             /\ Apart(f.out[m], f.out[n])
             /\ OrderedIn(f.out[n].source, ls) /\ f.out[m].source = f.out[n].source =>
                   Before(f.out[m], f.out[n])
      BY <1>0, <1>5 DEF Lined, OutInv
    <2> QED BY <2>1, <2>2, <2>3, <2>4 DEF OutInv
  <1>10. Covered(f, top + 1)
    <2> SUFFICES ASSUME NEW i \in 1 .. top + 1
                 PROVE  \/ \E t \in LogSources : i \in Lines(f.pending[t])
                        \/ \E r \in f.queue : i \in Lines(r.entry)
                        \/ \E n \in DOMAIN f.out : i \in Lines(f.out[n])
      BY DEF Covered
    <2>1. CASE i = top + 1
      <3>1. q \in f.queue /\ i \in Lines(q.entry)
        BY <2>1, <1>2, <1>3, <1>4
      <3> QED BY <3>1
    <2>2. CASE i # top + 1
      <3>1. i \in 1 .. top
        BY <2>2
      <3> QED BY <3>1, <1>0, <1>3, <1>5 DEF Lined, Covered
    <2> QED BY <2>1, <2>2
  <1>11. Ringed(f, gone)
    BY <1>0, <1>3, SameRingKept
  <1>12. IsFiniteSet(f.queue) /\ IsFiniteSet(f.known)
    <2>1. IsFiniteSet(e.queue \cup {q})
      BY <1>0, FS_AddElement
    <2> QED BY <1>0, <1>3, <2>1
  <1>13. Good(f, ls, top + 1, gone)
    BY <1>3, <1>7, <1>8, <1>9, <1>10, <1>11, <1>12 DEF Good, Typed, Lined
  <1> QED BY <1>13 DEF f

\* A new line joins the group of its source, or begins it.
LEMMA GatheredKeeps ==
    ASSUME NEW e, NEW ls, NEW top \in Nat, NEW gone, Good(e, ls, top, gone),
           NEW s \in LogSources, s \in e.known, NEW y \in Entries, y.source = s,
           Lines(y) = Lines(e.pending[s]) \cup {top + 1}, Whole(y, ls, top + 1)
    PROVE  Good([e EXCEPT !.pending[s] = y], ls, top + 1, gone)
  <1> DEFINE p == [e.pending EXCEPT ![s] = y]
             f == [e EXCEPT !.pending[s] = y]
  <1>0. /\ e \in Engines /\ IsFiniteSet(e.queue) /\ IsFiniteSet(e.known)
        /\ Lined(e, ls, top) /\ Ringed(e, gone) /\ e.out \in Seq(Entries)
        /\ e.queue \subseteq Waiting /\ e.pending \in [LogSources -> Entries \cup {NoGroup}]
    BY DEF Good, Typed, Engines
  <1>1. p \in [LogSources -> Entries \cup {NoGroup}]
    BY <1>0
  <1>2. f = [e EXCEPT !.pending = p]
    OBVIOUS
  <1>3. p[s] = y /\ \A t \in LogSources : t # s => p[t] = e.pending[t]
    BY <1>0
  <1> HIDE DEF p, f
  <1>4. /\ f \in Engines /\ f.pending = p /\ f.queue = e.queue /\ f.orderID = e.orderID
        /\ f.known = e.known /\ f.out = e.out /\ SameRing(e, f)
    BY <1>0, <1>1, <1>2 DEF Engines, SameRing
  <1>5. ASSUME NEW x, Whole(x, ls, top), x.source \in LogSources,
               Before(x, e.pending[x.source])
        PROVE  Before(x, f.pending[x.source])
    <2>1. CASE x.source = s
      <3>1. \A i \in Lines(x) : i \in Nat /\ i < top + 1
        BY <1>5, WholeLater
      <3> QED BY <3>1, <2>1, <1>3, <1>4, <1>5 DEF Before
    <2>2. CASE x.source # s
      BY <2>2, <1>3, <1>4, <1>5
    <2> QED BY <2>1, <2>2
  <1>6. GroupsInv(f, ls, top + 1)
    <2> SUFFICES ASSUME NEW t \in LogSources
                 PROVE  \/ f.pending[t] = NoGroup
                        \/ /\ t \in f.known
                           /\ f.pending[t] \in Entries
                           /\ f.pending[t].source = t
                           /\ Whole(f.pending[t], ls, top + 1)
      BY DEF GroupsInv
    <2>1. CASE t = s
      BY <2>1, <1>3, <1>4
    <2>2. CASE t # s
      BY <2>2, <1>0, <1>3, <1>4, WholeLater DEF Lined, GroupsInv
    <2> QED BY <2>1, <2>2
  <1>7. QueueInv(f, ls, top + 1)
    <2>1. \A q \in e.queue : Whole(q.entry, ls, top) /\ q.entry.source \in LogSources
      BY <1>0 DEF Lined, QueueInv, Waiting, Entries
    <2>2. \A q \in f.queue : q.entry.id \in 1 .. f.orderID /\ Whole(q.entry, ls, top + 1)
      BY <1>0, <1>4, WholeLater DEF Lined, QueueInv
    <2>3. \A q \in f.queue : Before(q.entry, f.pending[q.entry.source])
      BY <1>0, <1>4, <1>5, <2>1 DEF Lined, QueueInv
    <2> QED BY <1>0, <1>4, <2>2, <2>3 DEF Lined, QueueInv
  <1>8. OutInv(f, ls, top + 1)
    <2>0. \A n \in DOMAIN e.out : e.out[n] \in Entries
      BY <1>0
    <2>1. \A n \in DOMAIN e.out : Whole(e.out[n], ls, top) /\ e.out[n].source \in LogSources
      BY <1>0, <2>0 DEF Lined, OutInv, Entries
    <2>2. \A n \in DOMAIN f.out : f.out[n].id = n /\ Whole(f.out[n], ls, top + 1)
      BY <1>0, <1>4, WholeLater DEF Lined, OutInv
    <2>3. \A n \in DOMAIN f.out : Before(f.out[n], f.pending[f.out[n].source])
      BY <1>0, <1>4, <1>5, <2>1 DEF Lined, OutInv
    <2> QED BY <1>0, <1>4, <2>2, <2>3 DEF Lined, OutInv
  <1>9. Covered(f, top + 1)
    <2> SUFFICES ASSUME NEW i \in 1 .. top + 1
                 PROVE  \/ \E t \in LogSources : i \in Lines(f.pending[t])
                        \/ \E r \in f.queue : i \in Lines(r.entry)
                        \/ \E n \in DOMAIN f.out : i \in Lines(f.out[n])
      BY DEF Covered
    <2>1. CASE i = top + 1
      BY <2>1, <1>3, <1>4
    <2>2. CASE i # top + 1
      <3>1. i \in 1 .. top
        BY <2>2
      <3>2. \A t \in LogSources : i \in Lines(e.pending[t]) => i \in Lines(f.pending[t])
        BY <1>3, <1>4
      <3> QED BY <3>1, <3>2, <1>0, <1>4 DEF Lined, Covered
    <2> QED BY <2>1, <2>2
  <1>10. Ringed(f, gone)
    BY <1>0, <1>4, SameRingKept
  <1>11. Good(f, ls, top + 1, gone)
    BY <1>0, <1>4, <1>6, <1>7, <1>8, <1>9, <1>10 DEF Good, Typed, Lined
  <1> QED BY <1>11 DEF f

\* x is the entry of the one line after the first ones, of this source.
NewLine(x, s, ls, top) ==
    /\ x \in Entries /\ x.source = s
    /\ x.group = <<top + 1>>
    /\ Lines(x) = {top + 1}
    /\ Whole(x, ls, top + 1)

\* What Add is given.
LEMMA EntryIsNew ==
    ASSUME NEW s \in LogSources, NEW time \in Nat, NEW kind \in Kinds, NEW top \in Nat,
           NEW ls, ls[top + 1] = [source |-> s, time |-> time]
    PROVE  NewLine(Entry(s, time, kind, top + 1), s, ls, top)
  <1> DEFINE x == Entry(s, time, kind, top + 1)
  <1>1. /\ x.source = s /\ x.time = time /\ x.group = <<top + 1>>
        /\ x.id = 0 /\ x.kind = kind /\ x.text = <<kind>>
    BY DEF Entry
  <1>2. x \in Entries
    <2>1. <<top + 1>> \in Seq(Nat) /\ <<kind>> \in Seq(Kinds) /\ 0 \in Nat
      OBVIOUS
    <2> QED BY <2>1 DEF Entry, Entries
  <1> HIDE DEF x
  <1>3. DOMAIN x.group = {1} /\ x.group[1] = top + 1 /\ x.group # <<>>
    BY <1>1
  <1>4. Lines(x) = {top + 1}
    BY <1>3 DEF Lines
  <1>5. Whole(x, ls, top + 1)
    BY <1>1, <1>3, <1>4 DEF Whole
  <1> QED BY <1>1, <1>2, <1>4, <1>5 DEF NewLine, x

\* A group with a line more.
LEMMA JoinedIsWhole ==
    ASSUME NEW y \in Entries, NEW x, NEW s, NEW ls, NEW top \in Nat, NewLine(x, s, ls, top),
           Whole(y, ls, top), y.source = s
    PROVE  LET j == Joined(y, x)
           IN /\ j \in Entries /\ j.source = s
              /\ Lines(j) = Lines(y) \cup {top + 1}
              /\ Whole(j, ls, top + 1)
  <1> DEFINE j == Joined(y, x)
             g == y.group \o x.group
             t == y.text \o x.text
             n == Len(y.group)
  <1>1. y.group \in Seq(Nat) /\ y.text \in Seq(Kinds) /\ x.text \in Seq(Kinds) /\ n \in Nat
        /\ DOMAIN y.group = 1 .. n
    BY DEF Entries, NewLine
  <1>2. x.group = <<top + 1>> /\ top + 1 \in Nat
    BY DEF NewLine
  <1>3. /\ g \in Seq(Nat) /\ DOMAIN g = 1 .. n + 1 /\ g[n + 1] = top + 1
        /\ \A k \in 1 .. n : g[k] = y.group[k]
    BY <1>1, <1>2
  <1>4. t \in Seq(Kinds)
    BY <1>1
  <1>5. j = [y EXCEPT !.group = g, !.text = t]
    BY DEF Joined
  <1> HIDE DEF g, t, j
  <1>6. j \in Entries /\ j.source = s /\ j.group = g /\ j.time = y.time
    BY <1>3, <1>4, <1>5 DEF Entries
  <1>7. Lines(j) = Lines(y) \cup {top + 1}
    <2>1. \A k \in 1 .. n + 1 : k \in 1 .. n \/ k = n + 1
      BY <1>1
    <2>2. \A k \in 1 .. n : k \in 1 .. n + 1
      BY <1>1
    <2>3. n + 1 \in 1 .. n + 1
      BY <1>1
    <2> HIDE DEF n
    <2> QED BY <1>1, <1>3, <1>6, <2>1, <2>2, <2>3 DEF Lines
  <1>8. n >= 1
    <2>1. y.group # <<>>
      BY DEF Whole
    <2> QED BY <2>1, <1>1
  <1>9. Whole(j, ls, top + 1)
    <2>1. j.group # <<>>
      BY <1>1, <1>3, <1>6
    <2>2. ASSUME NEW k \in DOMAIN j.group, NEW m \in DOMAIN j.group, k < m
          PROVE  j.group[k] < j.group[m]
      <3>1. k \in 1 .. n /\ k \in DOMAIN y.group /\ j.group[k] = y.group[k]
        <4>1. k \in 1 .. n + 1 /\ m \in 1 .. n + 1 /\ n \in Nat
          BY <1>1, <1>3, <1>6
        <4>2. k \in 1 .. n
          <5> HIDE DEF n
          <5> QED BY <4>1, <2>2
        <4> QED BY <4>2, <1>1, <1>3, <1>6
      <3>2. CASE m \in 1 .. n
        BY <3>1, <3>2, <2>2, <1>1, <1>3, <1>6 DEF Whole
      <3>3. CASE m = n + 1
        <4>1. y.group[k] \in Lines(y)
          BY <3>1 DEF Lines
        <4>2. y.group[k] \in 1 .. top
          BY <4>1 DEF Whole
        <4> QED BY <4>2, <3>1, <3>3, <1>3, <1>6
      <3> QED BY <3>2, <3>3, <1>1, <1>3, <1>6
    <2>3. \A i \in Lines(j) : i \in 1 .. top + 1 /\ ls[i].source = j.source
      <3>1. \A i \in Lines(y) : i \in 1 .. top /\ ls[i].source = s
        BY DEF Whole
      <3>2. ls[top + 1].source = s
        BY DEF NewLine, Whole
      <3> QED BY <3>1, <3>2, <1>6, <1>7
    <2>4. j.time = ls[j.group[1]].time
      <3>1. 1 \in 1 .. n
        BY <1>1, <1>8
      <3> QED BY <3>1, <1>3, <1>6 DEF Whole
    <2> QED BY <2>1, <2>2, <2>3, <2>4 DEF Whole
  <1> QED BY <1>6, <1>7, <1>9 DEF j

\* A new line is queued, joins its source's group or begins one; what it ends is queued.
LEMMA GroupedKeeps ==
    ASSUME NEW e, NEW ls, NEW top \in Nat, NEW gone, Good(e, ls, top, gone),
           NEW s \in LogSources, s \in e.known, NEW x, NewLine(x, s, ls, top), NEW now \in Nat
    PROVE  Good(Grouped(e, s, x, now), ls, top + 1, gone)
  <1> DEFINE f == IF Idle(e, s, now) THEN FlushSource(e, s, now) ELSE e
             g == [f EXCEPT !.touched[s] = now]
  <1>1. Good(f, ls, top, gone) /\ s \in f.known
    BY FlushSourceKeeps
  <1> HIDE DEF f
  <1>2. Good(g, ls, top, gone) /\ s \in g.known
    <2> DEFINE t == [f.touched EXCEPT ![s] = now]
    <2>1. f \in Engines /\ IsFiniteSet(f.known)
      BY <1>1 DEF Good, Typed
    <2>2. t \in [LogSources -> Nat]
      BY <2>1 DEF Engines
    <2>3. g = [f EXCEPT !.touched = t]
      OBVIOUS
    <2> HIDE DEF g, t
    <2>4. /\ g \in Engines /\ g.pending = f.pending /\ g.queue = f.queue
          /\ g.orderID = f.orderID /\ SameRing(f, g) /\ g.known = f.known
      BY <2>1, <2>2, <2>3 DEF Engines, SameRing
    <2>5. Good(g, ls, top, gone)
      BY <1>1, <2>1, <2>4, SourcesKeep
    <2> QED BY <1>1, <2>4, <2>5
  <1>3. x \in Entries /\ x.source = s /\ Lines(x) = {top + 1} /\ Whole(x, ls, top + 1)
    BY DEF NewLine
  <1> DEFINE h == FlushSource(g, s, now)
  <1>4. Grouped(e, s, x, now) =
           IF x.kind = "marker" \/ ~ g.multiline THEN Enqueue(h, x, now)
           ELSE IF Continues(x, g.pending[s]) THEN [g EXCEPT !.pending[s] = Joined(@, x)]
           ELSE [h EXCEPT !.pending[s] = x]
    BY DEF Grouped, f
  <1> HIDE DEF g
  <1>5. Good(h, ls, top, gone) /\ s \in h.known /\ h.pending[s] = NoGroup
    BY <1>2, FlushSourceKeeps
  <1> HIDE DEF h
  <1>6. CASE x.kind = "marker" \/ ~ g.multiline
    BY <1>3, <1>4, <1>5, <1>6, QueuedKeeps
  <1>7. CASE ~ (x.kind = "marker" \/ ~ g.multiline) /\ Continues(x, g.pending[s])
    <2> DEFINE y == g.pending[s]
               j == Joined(y, x)
    <2>1. y # NoGroup
      BY <1>7 DEF Continues
    <2>2. y \in Entries /\ y.source = s /\ Whole(y, ls, top)
      BY <1>2, <2>1 DEF Good, Lined, GroupsInv
    <2>3. j \in Entries /\ j.source = s /\ Lines(j) = Lines(y) \cup {top + 1}
          /\ Whole(j, ls, top + 1)
      BY <2>2, JoinedIsWhole
    <2>4. Grouped(e, s, x, now) = [g EXCEPT !.pending[s] = j]
      BY <1>4, <1>7
    <2>5. Lines(j) = Lines(g.pending[s]) \cup {top + 1}
      BY <2>3
    <2> HIDE DEF j, y
    <2>6. Good([g EXCEPT !.pending[s] = j], ls, top + 1, gone)
      BY <1>2, <2>3, <2>5, GatheredKeeps
    <2> QED BY <2>4, <2>6
  <1>8. CASE ~ (x.kind = "marker" \/ ~ g.multiline) /\ ~ Continues(x, g.pending[s])
    <2>1. Lines(x) = Lines(h.pending[s]) \cup {top + 1}
      BY <1>3, <1>5, NoGroupIsNone
    <2>2. Grouped(e, s, x, now) = [h EXCEPT !.pending[s] = x]
      BY <1>4, <1>8
    <2> QED BY <1>3, <1>5, <2>1, <2>2, GatheredKeeps
  <1> QED BY <1>6, <1>7, <1>8

\* Groups of several sources are queued together.
LEMMA FlushAllKeeps ==
    ASSUME NEW e, NEW ls, NEW top, NEW gone, Good(e, ls, top, gone),
           NEW over, over \subseteq e.known, NEW observed,
           \A s \in LogSources : observed[s] \in Nat, NEW f \in FlushAll(e, over, observed)
    PROVE  Good(f, ls, top, gone)
  <1> DEFINE full == {s \in over : e.pending[s] # NoGroup}
             K == Cardinality(full)
  <1>0. /\ e \in Engines /\ IsFiniteSet(e.queue) /\ IsFiniteSet(e.known)
        /\ Lined(e, ls, top) /\ Ringed(e, gone) /\ e.orderID \in Nat
        /\ e.queue \subseteq Waiting /\ e.pending \in [LogSources -> Entries \cup {NoGroup}]
        /\ e.known \subseteq LogSources
    BY DEF Good, Typed, Engines
  <1>1. PICK turn \in Injection(full, 1 .. K) :
            f = [e EXCEPT !.orderID = @ + Cardinality(full),
                   !.queue = @ \cup {[entry |-> [e.pending[s] EXCEPT !.id = e.orderID + turn[s]],
                                      observed |-> observed[s]] : s \in full},
                   !.pending = [s \in LogSources |-> IF s \in full THEN NoGroup ELSE @[s]]]
    BY DEF FlushAll
  <1>2. full \subseteq LogSources /\ IsFiniteSet(full) /\ K \in Nat
        /\ full \subseteq {s \in LogSources : e.pending[s] # NoGroup}
    <2>1. IsFiniteSet(full)
      BY <1>0, FS_Subset
    <2> QED BY <1>0, <2>1, FS_CardinalityType
  <1>3. /\ turn \in [full -> 1 .. K]
        /\ \A s, t \in full : turn[s] = turn[t] => s = t
    BY DEF Injection, IsInjective
  <1> DEFINE sent == {Sent(e, s, turn, observed) : s \in full}
             p == [s \in LogSources |-> IF s \in full THEN NoGroup ELSE e.pending[s]]
             u == e.queue \cup sent
             o == e.orderID + K
  <1> HIDE DEF full, K
  <1>4. f = [e EXCEPT !.orderID = o, !.queue = u, !.pending = p]
    BY <1>1 DEF Sent, full, K
  <1>5. \A s \in full : Sent(e, s, turn, observed) \in Waiting
    <2> SUFFICES ASSUME NEW s \in full PROVE Sent(e, s, turn, observed) \in Waiting
      OBVIOUS
    <2>1. s \in LogSources /\ e.pending[s] # NoGroup /\ turn[s] \in Nat /\ observed[s] \in Nat
      BY <1>2, <1>3
    <2>2. GroupsInv(e, ls, top)
      BY <1>0 DEF Lined
    <2> QED BY <1>0, <2>1, <2>2, SentEntry
  <1>6. u \in SUBSET Waiting /\ o \in Nat /\ p \in [LogSources -> Entries \cup {NoGroup}]
    BY <1>0, <1>2, <1>5
  <1>7. IsFiniteSet(u)
    <2> DEFINE send == [s \in full |-> Sent(e, s, turn, observed)]
    <2>1. send \in Surjection(full, sent)
      BY DEF Surjection
    <2>2. IsFiniteSet(sent)
      <3> HIDE DEF send, sent
      <3> QED BY <1>2, <2>1, FS_Surjection
    <2> QED BY <1>0, <2>2, FS_Union
  <1> HIDE DEF u, o, p
  <1>8. /\ f \in Engines /\ f.orderID = o /\ f.queue = u /\ f.pending = p
        /\ f.known = e.known /\ f.out = e.out /\ SameRing(e, f)
    BY <1>0, <1>4, <1>6 DEF Engines, SameRing
  <1>9. Released(e, f, full, turn, observed)
    <2>1. \A s \in full : turn[s] \in Nat /\ 1 <= turn[s] /\ e.orderID + turn[s] <= f.orderID
      BY <1>0, <1>2, <1>3, <1>8 DEF o
    <2>2. e.orderID <= f.orderID /\ f.orderID \in Nat
      BY <1>0, <1>2, <1>8 DEF o
    <2>3. f.queue = e.queue \cup {Sent(e, s, turn, observed) : s \in full}
      BY <1>8 DEF u
    <2>4. f.pending = [s \in LogSources |-> IF s \in full THEN NoGroup ELSE e.pending[s]]
      BY <1>8 DEF p
    <2>5. \A s \in full : observed[s] \in Nat
      BY <1>2
    <2> QED BY <1>2, <1>3, <1>8, <2>1, <2>2, <2>3, <2>4, <2>5 DEF Released
  <1>10. Lined(f, ls, top)
    BY <1>9, ReleaseKeepsLines DEF Good
  <1>11. Ringed(f, gone)
    BY <1>0, <1>8, SameRingKept
  <1> QED BY <1>0, <1>7, <1>8, <1>10, <1>11 DEF Good, Typed

\* The invariant says that the engine is good for what it was given.
LEMMA InvGood ==
    ASSUME EngineInv
    PROVE  /\ clock \in Nat /\ lines \in LineSeqs /\ Len(lines) \in Nat
           /\ Good(engine, lines, Len(lines), cleared)
           /\ engine \in Engines /\ engine.known \subseteq LogSources
           /\ engine.touched \in [LogSources -> Nat]
  <1>1. clock \in Nat /\ lines \in LineSeqs /\ Len(lines) \in Nat
    BY DEF EngineInv, LineSeqs
  <1>2. engine \in Engines
    BY DEF EngineInv, Typed
  <1> QED BY <1>1, <1>2 DEF EngineInv, Good, Engines

\* A new engine, given nothing.
LEMMA InitInv == EngineInit => EngineInv
  <1> SUFFICES ASSUME EngineInit PROVE EngineInv
    OBVIOUS
  <1> DEFINE e == NewEngine
  <1>1. EmptyRing \in [0 .. Capacity - 1 -> RingPlaces]
    <2>1. NoPlace \in RingPlaces
      <3>1. <<>> \in Seq(Kinds)
        OBVIOUS
      <3> QED BY <3>1 DEF NoPlace, RingPlaces
    <2> QED BY <2>1 DEF EmptyRing
  <1>2. /\ e.known = {} /\ e.pending = [s \in LogSources |-> NoGroup] /\ e.queue = {}
        /\ e.out = <<>> /\ e.size = 0 /\ e.nextID = 0 /\ e.evicted = 0
    BY DEF NewEngine
  <1>3. e \in Engines
    <2>1. [s \in LogSources |-> NoGroup] \in [LogSources -> Entries \cup {NoGroup}]
      OBVIOUS
    <2>2. [s \in LogSources |-> 0] \in [LogSources -> Nat]
      OBVIOUS
    <2>3. 0 \in 0 .. Capacity - 1 /\ 0 \in 0 .. Capacity
      BY Sizes
    <2>4. <<>> \in Seq(Entries)
      OBVIOUS
    <2> QED BY <1>1, <2>1, <2>2, <2>3, <2>4 DEF NewEngine, Engines
  <1>4. Typed(e)
    BY <1>2, <1>3, FS_EmptySet DEF Typed
  <1> HIDE DEF e
  <1>5. Len(e.out) = 0 /\ DOMAIN e.out = {} /\ 1 .. 0 = {}
    BY <1>2
  <1>6. Lined(e, lines, Len(lines))
    <2>1. Len(lines) = 0
      BY DEF EngineInit
    <2>2. GroupsInv(e, lines, 0)
      BY <1>2 DEF GroupsInv
    <2>3. QueueInv(e, lines, 0)
      BY <1>2 DEF QueueInv
    <2>4. OutInv(e, lines, 0)
      BY <1>5 DEF OutInv
    <2>5. Covered(e, 0)
      BY <1>5 DEF Covered
    <2> QED BY <2>1, <2>2, <2>3, <2>4, <2>5 DEF Lined
  <1>7. Ringed(e, {})
    <2>1. PlacesInv(Snapshot(e), 0, e, {})
      BY <1>5 DEF PlacesInv
    <2>2. EvictedInv(Snapshot(e), 0, 0, e, {})
      <3> DEFINE S == (1 .. Len(e.out)) \ ({} \cup ShownIDs(Snapshot(e), 0))
      <3>1. S = {}
        BY <1>5
      <3> HIDE DEF S
      <3>2. LinesIn(e, S) = {}
        BY <3>1 DEF LinesIn
      <3>3. Cardinality(LinesIn(e, S)) = 0
        BY <3>2, FS_EmptySet
      <3> QED BY <3>3 DEF EvictedInv, S
    <2> QED BY <1>2, <1>5, <2>1, <2>2 DEF Ringed, RingInv
  <1> QED BY <1>4, <1>6, <1>7 DEF EngineInit, EngineInv, e

\* Add keeps the invariant, the source it makes room for and its drain included.
LEMMA AddInv ==
    ASSUME EngineInv, Add PROVE EngineInv'
  <1> DEFINE N == Len(lines)
  <1>0. /\ clock \in Nat /\ lines \in LineSeqs /\ N \in Nat
        /\ Good(engine, lines, N, cleared)
    BY InvGood
  <1>1. clock' \in Nat
    BY <1>0, Sizes DEF Add
  <1>2. PICK s \in LogSources, time \in 0 .. MaxTime, kind \in Kinds :
           /\ lines' = Append(lines, [source |-> s, time |-> time])
           /\ \E e \in AddSource(engine, s, clock') :
                engine' = Drain(Grouped(e, s, Entry(s, time, kind, N + 1), clock'), clock', FALSE)
    BY DEF Add
  <1>3. PICK e \in AddSource(engine, s, clock') :
           engine' = Drain(Grouped(e, s, Entry(s, time, kind, N + 1), clock'), clock', FALSE)
    BY <1>2
  <1> DEFINE line == [source |-> s, time |-> time]
             x == Entry(s, time, kind, N + 1)
             g == Grouped(e, s, x, clock')
  <1>4. time \in Nat /\ line \in [source : LogSources, time : Nat]
    BY Sizes
  <1>5. lines' \in LineSeqs /\ Len(lines') = N + 1 /\ lines'[N + 1] = line
    BY <1>0, <1>2, <1>4 DEF LineSeqs
  <1>6. Good(engine, lines', N, cleared)
    BY <1>0, <1>2, <1>4, LongerKeeps
  <1>7. Good(e, lines', N, cleared) /\ s \in e.known
    BY <1>1, <1>6, AddSourceKeeps
  <1>8. NewLine(x, s, lines', N)
    BY <1>0, <1>4, <1>5, EntryIsNew
  <1> HIDE DEF x, line, N
  <1>9. Good(g, lines', N + 1, cleared)
    BY <1>0, <1>1, <1>7, <1>8, GroupedKeeps
  <1> HIDE DEF g
  <1>10. N + 1 \in Nat /\ N + 1 <= Len(lines')
    BY <1>0, <1>5
  <1>11. Good(Drain(g, clock', FALSE), lines', N + 1, cleared)
    BY <1>5, <1>9, <1>10, DrainKeeps
  <1>12. engine' = Drain(g, clock', FALSE)
    BY <1>3 DEF g, x, N
  <1>13. cleared' = cleared
    BY DEF Add
  <1>14. Good(engine', lines', Len(lines'), cleared')
    BY <1>5, <1>11, <1>12, <1>13
  <1> QED BY <1>1, <1>5, <1>14 DEF EngineInv, Good, LineSeqs

\* Tick keeps the invariant.
LEMMA TickInv ==
    ASSUME EngineInv, Tick PROVE EngineInv'
  <1>0. /\ clock \in Nat /\ lines \in LineSeqs /\ Len(lines) \in Nat
        /\ Good(engine, lines, Len(lines), cleared)
        /\ \A s \in LogSources : engine.touched[s] \in Nat
    BY InvGood
  <1>1. clock' \in Nat
    BY <1>0, Sizes DEF Tick
  <1> DEFINE over == {s \in engine.known : Idle(engine, s, clock')}
  <1>2. PICK e \in FlushAll(engine, over, engine.touched) : engine' = Drain(e, clock', FALSE)
    BY DEF Tick
  <1>3. over \subseteq engine.known
    OBVIOUS
  <1> HIDE DEF over
  <1>4. Good(e, lines, Len(lines), cleared)
    BY <1>0, <1>3, FlushAllKeeps
  <1>5. Good(engine', lines, Len(lines), cleared)
    <2>1. Len(lines) <= Len(lines)
      BY <1>0
    <2> QED BY <1>0, <1>2, <1>4, <2>1, DrainKeeps
  <1>6. lines' = lines /\ cleared' = cleared
    BY DEF Tick
  <1> QED BY <1>0, <1>1, <1>5, <1>6 DEF EngineInv, Good, LineSeqs

\* Flush and what calls it leave a good engine.
LEMMA FlushedKeeps ==
    ASSUME EngineInv, NEW e \in Flushed
    PROVE  Good(e, lines, Len(lines), cleared)
  <1> DEFINE now == [s \in LogSources |-> clock]
  <1>0. /\ clock \in Nat /\ lines \in LineSeqs /\ Len(lines) \in Nat
        /\ Good(engine, lines, Len(lines), cleared)
    BY InvGood
  <1>1. PICK f \in FlushAll(engine, engine.known, now) : e = Drain(f, clock, TRUE)
    BY DEF Flushed
  <1>2. \A s \in LogSources : now[s] \in Nat
    BY <1>0
  <1> HIDE DEF now
  <1>3. Good(f, lines, Len(lines), cleared)
    BY <1>0, <1>2, FlushAllKeeps
  <1>4. Len(lines) <= Len(lines)
    BY <1>0
  <1> QED BY <1>0, <1>1, <1>3, <1>4, DrainKeeps

\* The switches are not what the invariant is about.
LEMMA SwitchKeeps ==
    ASSUME NEW e, NEW ls, NEW top, NEW gone, Good(e, ls, top, gone), NEW f \in Engines,
           f.known = e.known, f.pending = e.pending, f.queue = e.queue,
           f.orderID = e.orderID, SameRing(e, f)
    PROVE  Good(f, ls, top, gone)
  <1>1. IsFiniteSet(f.known)
    BY DEF Good, Typed
  <1> QED BY <1>1, SourcesKeep

\* Flush and SetMultiline keep the invariant.
LEMMA FlushInv ==
    ASSUME EngineInv, NEW on, Flush(on) PROVE EngineInv'
  <1>1. PICK e \in Flushed : engine' = [e EXCEPT !.multiline = IF on = {} THEN @ ELSE ~ @]
    BY DEF Flush
  <1>2. Good(e, lines, Len(lines), cleared)
    BY FlushedKeeps
  <1>3. e \in Engines
    BY <1>2 DEF Good, Typed
  <1>4. /\ engine' \in Engines /\ engine'.known = e.known /\ engine'.pending = e.pending
        /\ engine'.queue = e.queue /\ engine'.orderID = e.orderID /\ SameRing(e, engine')
    <2> DEFINE m == IF on = {} THEN e.multiline ELSE ~ e.multiline
    <2>1. e.multiline \in BOOLEAN
      BY <1>3 DEF Engines
    <2>2. m \in BOOLEAN
      BY <2>1
    <2>3. engine' = [e EXCEPT !.multiline = m]
      BY <1>1
    <2> HIDE DEF m
    <2> QED BY <1>3, <2>2, <2>3 DEF Engines, SameRing
  <1>5. Good(engine', lines, Len(lines), cleared)
    BY <1>2, <1>4, SwitchKeeps
  <1>6. lines' = lines /\ cleared' = cleared /\ clock' = clock
    BY DEF Flush
  <1> QED BY <1>5, <1>6 DEF EngineInv, Good

\* SetCollapse keeps the invariant.
LEMMA SetCollapseInv ==
    ASSUME EngineInv, SetCollapse PROVE EngineInv'
  <1>1. engine' = [engine EXCEPT !.collapse = ~ @]
    BY DEF SetCollapse
  <1>2. Good(engine, lines, Len(lines), cleared) /\ engine \in Engines
    BY InvGood
  <1>3. /\ engine' \in Engines /\ engine'.known = engine.known
        /\ engine'.pending = engine.pending /\ engine'.queue = engine.queue
        /\ engine'.orderID = engine.orderID /\ SameRing(engine, engine')
    <2> DEFINE m == ~ engine.collapse
    <2>1. engine.collapse \in BOOLEAN
      BY <1>2 DEF Engines
    <2>2. m \in BOOLEAN
      BY <2>1
    <2>3. engine' = [engine EXCEPT !.collapse = m]
      BY <1>1
    <2> HIDE DEF m
    <2> QED BY <1>2, <2>2, <2>3 DEF Engines, SameRing
  <1>4. Good(engine', lines, Len(lines), cleared)
    BY <1>2, <1>3, SwitchKeeps
  <1>5. lines' = lines /\ cleared' = cleared /\ clock' = clock
    BY DEF SetCollapse
  <1> QED BY <1>4, <1>5 DEF EngineInv, Good

\* What the ring shows was returned.
LEMMA ShownWereReturned ==
    ASSUME NEW e \in Engines, NEW gone, Ringed(e, gone)
    PROVE  /\ Shown(e) = ShownIDs(Snapshot(e), e.size)
           /\ Shown(e) \subseteq 1 .. Len(e.out)
  <1> DEFINE shown == Snapshot(e)
             size == e.size
             N == Len(e.out)
  <1>1. N \in Nat /\ size \in Nat
    BY DEF Engines
  <1>2. RingInv(shown, size, e.evicted, e, gone)
    BY DEF Ringed
  <1>3. Shown(e) = ShownIDs(shown, size)
    BY DEF Shown, ShownIDs
  <1> HIDE DEF shown, size, N
  <1>4. \A n \in 1 .. size : shown[n].id \in Nat /\ shown[n].lastID \in Nat /\ 1 <= shown[n].id
    BY <1>2 DEF RingInv, PlacesInv, RingPlaces
  <1>5. ASSUME NEW n \in 1 .. size PROVE shown[n].lastID <= N
    <2>1. CASE n = size
      BY <2>1, <1>1, <1>2 DEF RingInv, PlacesInv, N
    <2>2. CASE n # size
      <3>1. size \in 1 .. size /\ n < size
        BY <2>2, <1>1
      <3>2. shown[n].lastID < shown[size].id /\ shown[size].id <= shown[size].lastID
            /\ shown[size].lastID = N
        BY <3>1, <1>2 DEF RingInv, PlacesInv, N
      <3> QED BY <3>1, <3>2, <1>1, <1>4
    <2> QED BY <2>1, <2>2
  <1>6. ASSUME NEW m \in ShownIDs(shown, size) PROVE m \in 1 .. N
    <2>1. PICK n \in 1 .. size : m \in IDs(shown[n])
      BY <1>6 DEF ShownIDs
    <2>2. m \in Int /\ shown[n].id <= m /\ m <= shown[n].lastID
      BY <1>4, <2>1 DEF IDs
    <2> QED BY <2>2, <1>1, <1>4, <1>5
  <1> QED BY <1>3, <1>6 DEF shown, size, N

\* ClearRetained keeps the invariant: what it takes from the ring is neither shown nor evicted.
LEMMA ClearInv ==
    ASSUME EngineInv, ClearRetained PROVE EngineInv'
  <1>1. PICK e \in Flushed :
           /\ engine' = [e EXCEPT !.ring = EmptyRing, !.start = 0, !.size = 0]
           /\ cleared' = cleared \cup Shown(e)
    BY DEF ClearRetained
  <1>2. Good(e, lines, Len(lines), cleared)
    BY FlushedKeeps
  <1>3. /\ e \in Engines /\ IsFiniteSet(e.queue) /\ IsFiniteSet(e.known)
        /\ Lined(e, lines, Len(lines)) /\ Ringed(e, cleared) /\ Len(e.out) \in Nat
    BY <1>2 DEF Good, Typed, Engines
  <1>4. EmptyRing \in [0 .. Capacity - 1 -> RingPlaces] /\ 0 \in 0 .. Capacity - 1 /\ 0 \in 0 .. Capacity
    <2>1. NoPlace \in RingPlaces
      <3>1. <<>> \in Seq(Kinds)
        OBVIOUS
      <3> QED BY <3>1 DEF NoPlace, RingPlaces
    <2> QED BY <2>1, Sizes DEF EmptyRing
  <1>5. /\ engine' \in Engines /\ engine'.pending = e.pending /\ engine'.queue = e.queue
        /\ engine'.known = e.known /\ engine'.orderID = e.orderID /\ engine'.out = e.out
        /\ engine'.nextID = e.nextID /\ engine'.evicted = e.evicted /\ engine'.size = 0
    BY <1>1, <1>3, <1>4 DEF Engines
  <1>6. Lined(engine', lines, Len(lines))
    <2>1. GroupsInv(engine', lines, Len(lines))
      BY <1>3, <1>5 DEF Lined, GroupsInv
    <2>2. QueueInv(engine', lines, Len(lines))
      BY <1>3, <1>5 DEF Lined, QueueInv
    <2>3. OutInv(engine', lines, Len(lines))
      BY <1>3, <1>5 DEF Lined, OutInv
    <2>4. Covered(engine', Len(lines))
      BY <1>3, <1>5 DEF Lined, Covered
    <2> QED BY <2>1, <2>2, <2>3, <2>4 DEF Lined
  <1>7. Shown(e) = ShownIDs(Snapshot(e), e.size) /\ Shown(e) \subseteq 1 .. Len(e.out)
    BY <1>3, ShownWereReturned
  <1>8. Ringed(engine', cleared')
    <2> DEFINE shown == Snapshot(engine')
    <2>1. \A ids : LinesIn(engine', ids) = LinesIn(e, ids)
      BY <1>5 DEF LinesIn
    <2>2. PlacesInv(shown, 0, engine', cleared')
      BY DEF PlacesInv
    <2>3. ShownIDs(shown, 0) = {}
      BY DEF ShownIDs
    <2>4. cleared' \cup ShownIDs(shown, 0) = cleared \cup ShownIDs(Snapshot(e), e.size)
      BY <1>1, <1>7, <2>3
    <2>5. e.evicted = Cardinality(LinesIn(e, (1 .. Len(e.out)) \ (cleared \cup ShownIDs(Snapshot(e), e.size))))
      BY <1>3 DEF Ringed, RingInv, EvictedInv
    <2> HIDE DEF shown
    <2>6. EvictedInv(shown, 0, e.evicted, engine', cleared')
      BY <1>5, <2>1, <2>4, <2>5 DEF EvictedInv
    <2>7. cleared' \subseteq 1 .. Len(engine'.out)
      BY <1>1, <1>3, <1>5, <1>7 DEF Ringed, RingInv
    <2> QED BY <1>3, <1>5, <2>2, <2>6, <2>7 DEF Ringed, RingInv, shown
  <1>9. lines' = lines /\ clock' = clock
    BY DEF ClearRetained
  <1> QED BY <1>3, <1>5, <1>6, <1>8, <1>9 DEF EngineInv, Typed

\* The entries that Engine holds in groups, in its queue and in its ring, and those that
\* its operations returned, keep the relations that EngineInv states between them and
\* the lines that were added, for any sources, limits, times and number of lines.
THEOREM EngineInvariant == EngineSpec => []EngineInv
  <1>1. EngineInit => EngineInv
    BY InitInv
  <1>2. EngineInv /\ [EngineNext]_engineVars => EngineInv'
    <2> SUFFICES ASSUME EngineInv, [EngineNext]_engineVars PROVE EngineInv'
      OBVIOUS
    <2>1. CASE Add
      BY <2>1, AddInv
    <2>2. CASE Tick
      BY <2>2, TickInv
    <2>3. ASSUME NEW on \in {{}, {"multiline"}}, Flush(on) PROVE EngineInv'
      BY <2>3, FlushInv
    <2>4. CASE ClearRetained
      BY <2>4, ClearInv
    <2>5. CASE SetCollapse
      BY <2>5, SetCollapseInv
    <2>6. CASE UNCHANGED engineVars
      <3>1. engine' = engine /\ clock' = clock /\ lines' = lines /\ cleared' = cleared
        BY <2>6 DEF engineVars
      <3> QED BY <3>1 DEF EngineInv
    <2> QED BY <2>1, <2>2, <2>3, <2>4, <2>5, <2>6 DEF EngineNext
  <1> QED BY <1>1, <1>2, PTL DEF EngineSpec

\* A place where a line is: its source's group, the queue or what was returned.
Home(e, i, h) ==
    \/ \E s \in LogSources : i \in Lines(e.pending[s]) /\ h = <<"group", s>>
    \/ \E q \in e.queue : i \in Lines(q.entry) /\ h = <<"queue", q.entry.id>>
    \/ \E n \in DOMAIN e.out : i \in Lines(e.out[n]) /\ h = <<"out", n>>

\* A line is in one place only.
LEMMA OneHome ==
    ASSUME EngineInv, NEW i \in 1 .. Len(lines), NEW h, NEW g,
           Home(engine, i, h), Home(engine, i, g)
    PROVE  h = g
  <1> DEFINE N == Len(lines)
             p == engine.pending
  <1>0. /\ engine \in Engines /\ Lined(engine, lines, N)
        /\ engine.queue \subseteq Waiting /\ engine.out \in Seq(Entries)
    BY DEF EngineInv, Typed, Engines
  <1>1. \A q \in engine.queue : q.entry \in Entries /\ q.entry.id \in Nat /\ q.entry.source \in LogSources
    BY <1>0 DEF Waiting, Entries
  <1>2. \A n \in DOMAIN engine.out : n \in Nat /\ engine.out[n].source \in LogSources
    <2>1. \A n \in DOMAIN engine.out : n \in Nat /\ engine.out[n] \in Entries
      BY <1>0
    <2> QED BY <2>1 DEF Entries
  <1>3. \A s \in LogSources : i \in Lines(p[s]) => lines[i].source = s
    BY <1>0, NoGroupIsNone DEF Lined, GroupsInv, Whole
  <1>4. \A q \in engine.queue : i \in Lines(q.entry) => lines[i].source = q.entry.source
    BY <1>0 DEF Lined, QueueInv, Whole
  <1>5. \A n \in DOMAIN engine.out : i \in Lines(engine.out[n]) => lines[i].source = engine.out[n].source
    BY <1>0 DEF Lined, OutInv, Whole
  <1>6. ASSUME NEW s \in LogSources, NEW q \in engine.queue, i \in Lines(p[s]), i \in Lines(q.entry)
        PROVE  FALSE
    <2>1. q.entry.source = s
      BY <1>3, <1>4, <1>6
    <2>2. Before(q.entry, p[s])
      BY <1>0, <2>1 DEF Lined, QueueInv
    <2> QED BY <2>2, <1>6 DEF Before
  <1>7. ASSUME NEW s \in LogSources, NEW n \in DOMAIN engine.out,
               i \in Lines(p[s]), i \in Lines(engine.out[n])
        PROVE  FALSE
    <2>1. engine.out[n].source = s
      BY <1>3, <1>5, <1>7
    <2>2. Before(engine.out[n], p[s])
      BY <1>0, <2>1 DEF Lined, OutInv
    <2> QED BY <2>2, <1>7 DEF Before
  <1>8. ASSUME NEW q \in engine.queue, NEW n \in DOMAIN engine.out,
               i \in Lines(q.entry), i \in Lines(engine.out[n])
        PROVE  FALSE
    <2>1. Apart(engine.out[n], q.entry)
      BY <1>0 DEF Lined, OutInv
    <2> QED BY <2>1, <1>8 DEF Apart
  <1>9. ASSUME NEW q \in engine.queue, NEW r \in engine.queue,
               i \in Lines(q.entry), i \in Lines(r.entry)
        PROVE  q.entry.id = r.entry.id
    <2> SUFFICES ASSUME q.entry.id # r.entry.id PROVE FALSE
      OBVIOUS
    <2>1. q.entry.source = r.entry.source
      BY <1>4, <1>9
    <2>2. q.entry.id < r.entry.id \/ r.entry.id < q.entry.id
      BY <1>1
    <2>3. Before(q.entry, r.entry) \/ Before(r.entry, q.entry)
      BY <1>0, <2>1, <2>2 DEF Lined, QueueInv
    <2> QED BY <2>3, <1>9 DEF Before
  <1>10. ASSUME NEW m \in DOMAIN engine.out, NEW n \in DOMAIN engine.out,
                i \in Lines(engine.out[m]), i \in Lines(engine.out[n])
         PROVE  m = n
    <2> SUFFICES ASSUME m # n PROVE FALSE
      OBVIOUS
    <2>1. m < n \/ n < m
      BY <1>2
    <2>2. Apart(engine.out[m], engine.out[n]) \/ Apart(engine.out[n], engine.out[m])
      BY <1>0, <2>1 DEF Lined, OutInv
    <2> QED BY <2>2, <1>10 DEF Apart
  <1> HIDE DEF p, N
  <1>11. CASE \E s \in LogSources : i \in Lines(engine.pending[s]) /\ h = <<"group", s>>
    <2>1. PICK s \in LogSources : i \in Lines(engine.pending[s]) /\ h = <<"group", s>>
      BY <1>11
    <2>2. PICK t \in LogSources : i \in Lines(engine.pending[t]) /\ g = <<"group", t>>
      BY <2>1, <1>6, <1>7 DEF Home, p
    <2> QED BY <2>1, <2>2, <1>3 DEF p
  <1>12. CASE \E q \in engine.queue : i \in Lines(q.entry) /\ h = <<"queue", q.entry.id>>
    <2>1. PICK q \in engine.queue : i \in Lines(q.entry) /\ h = <<"queue", q.entry.id>>
      BY <1>12
    <2>2. PICK r \in engine.queue : i \in Lines(r.entry) /\ g = <<"queue", r.entry.id>>
      BY <2>1, <1>6, <1>8 DEF Home, p
    <2> QED BY <2>1, <2>2, <1>9
  <1>13. CASE \E n \in DOMAIN engine.out : i \in Lines(engine.out[n]) /\ h = <<"out", n>>
    <2>1. PICK n \in DOMAIN engine.out : i \in Lines(engine.out[n]) /\ h = <<"out", n>>
      BY <1>13
    <2>2. PICK m \in DOMAIN engine.out : i \in Lines(engine.out[m]) /\ g = <<"out", m>>
      BY <2>1, <1>7, <1>8 DEF Home, p
    <2> QED BY <2>1, <2>2, <1>10
  <1> QED BY <1>11, <1>12, <1>13 DEF Home

\* It is in one place.
LEMMA EveryLineOnceInv == EngineInv => EveryLineOnce
  <1> SUFFICES ASSUME EngineInv, NEW i \in DOMAIN lines
               PROVE  Cardinality({<<"group", s>> : s \in {t \in LogSources : i \in Lines(engine.pending[t])}}
                                  \cup {<<"queue", q.entry.id>> : q \in {r \in engine.queue : i \in Lines(r.entry)}}
                                  \cup {<<"out", n>> : n \in {m \in DOMAIN engine.out : i \in Lines(engine.out[m])}}) = 1
    BY DEF EveryLineOnce
  <1> DEFINE homes == {<<"group", s>> : s \in {t \in LogSources : i \in Lines(engine.pending[t])}}
                      \cup {<<"queue", q.entry.id>> : q \in {r \in engine.queue : i \in Lines(r.entry)}}
                      \cup {<<"out", n>> : n \in {m \in DOMAIN engine.out : i \in Lines(engine.out[m])}}
  <1>1. i \in 1 .. Len(lines)
    BY DEF EngineInv
  <1>2. \A h : h \in homes <=> Home(engine, i, h)
    BY DEF Home
  <1>3. \E h : Home(engine, i, h)
    <2>1. Covered(engine, Len(lines))
      BY DEF EngineInv, Lined
    <2>2. CASE \E s \in LogSources : i \in Lines(engine.pending[s])
      BY <2>2 DEF Home
    <2>3. CASE \E q \in engine.queue : i \in Lines(q.entry)
      BY <2>3 DEF Home
    <2>4. CASE \E n \in DOMAIN engine.out : i \in Lines(engine.out[n])
      BY <2>4 DEF Home
    <2> QED BY <1>1, <2>1, <2>2, <2>3, <2>4 DEF Covered
  <1>4. PICK h : Home(engine, i, h)
    BY <1>3
  <1>5. \A g : Home(engine, i, g) => g = h
    BY <1>1, <1>4, OneHome
  <1> HIDE DEF homes
  <1>6. homes = {h}
    BY <1>2, <1>4, <1>5
  <1>7. Cardinality(homes) = 1
    BY <1>6, FS_Singleton
  <1> QED BY <1>7 DEF homes

\* What was returned has the lines of a source in their order.
LEMMA SourceOrderInv == EngineInv => SourceOrderKept
  <1> SUFFICES ASSUME EngineInv PROVE SourceOrderKept
    OBVIOUS
  <1>1. OutInv(engine, lines, Len(lines)) /\ lines \in LineSeqs
        /\ engine.out \in Seq(Entries)
    BY DEF EngineInv, Lined, LineSeqs, Typed, Engines
  <1>2. DOMAIN lines = 1 .. Len(lines)
    BY <1>1 DEF LineSeqs
  <1>3. \A s : OrderedIn(s, lines) <=> Ordered(s)
    BY DEF OrderedIn, Ordered
  <1>4. ASSUME NEW n \in DOMAIN engine.out
        PROVE  /\ engine.out[n].id = n
               /\ \A j, k \in DOMAIN engine.out[n].group :
                     j < k => engine.out[n].group[j] < engine.out[n].group[k]
               /\ \A i \in Lines(engine.out[n]) :
                     i \in DOMAIN lines /\ lines[i].source = engine.out[n].source
    BY <1>1, <1>2 DEF OutInv, Whole
  <1>5. ASSUME NEW s \in LogSources, Ordered(s), NEW m \in DOMAIN engine.out,
               NEW n \in DOMAIN engine.out, m < n,
               engine.out[m].source = s, engine.out[n].source = s
        PROVE  Before(engine.out[m], engine.out[n])
    BY <1>1, <1>3, <1>5 DEF OutInv
  <1> QED BY <1>4, <1>5 DEF SourceOrderKept

\* The ring shows the newest of it.
LEMMA RetainedInv == EngineInv => RetainedAreNewest
  <1> SUFFICES ASSUME EngineInv PROVE RetainedAreNewest
    OBVIOUS
  <1> DEFINE shown == Snapshot(engine)
             N == Len(engine.out)
  <1>1. /\ engine \in Engines /\ Ringed(engine, cleared) /\ N \in Nat
        /\ RingInv(shown, engine.size, engine.evicted, engine, cleared)
    BY DEF EngineInv, Typed, Ringed, Engines
  <1>2. Shown(engine) = ShownIDs(shown, engine.size) /\ Shown(engine) \subseteq 1 .. N
    BY <1>1, ShownWereReturned
  <1>3. engine.evicted =
           Cardinality(LinesIn(engine, (1 .. N) \ (cleared \cup Shown(engine))))
    BY <1>1, <1>2 DEF RingInv, EvictedInv
  <1>4. ASSUME NEW n \in 1 .. engine.size
        PROVE  /\ shown[n].id \in 1 .. N
               /\ shown[n].lastID = IF n = engine.size THEN N ELSE shown[n + 1].id - 1
               /\ shown[n].occurrences = Cardinality(LinesIn(engine, IDs(shown[n])))
               /\ \A m \in IDs(shown[n]) :
                     /\ m \notin cleared
                     /\ engine.out[m].source = shown[n].source
                     /\ engine.out[m].text = shown[n].text
    <2> HIDE DEF shown
    <2>1. /\ shown[n].lastID = IF n = engine.size THEN N ELSE shown[n + 1].id - 1
          /\ shown[n].occurrences = Cardinality(LinesIn(engine, IDs(shown[n])))
          /\ \A m \in IDs(shown[n]) :
                /\ m \notin cleared
                /\ engine.out[m].source = shown[n].source
                /\ engine.out[m].text = shown[n].text
      BY <1>1 DEF RingInv, PlacesInv
    <2>2. shown[n].id \in Nat /\ shown[n].lastID \in Nat /\ shown[n].id <= shown[n].lastID
      BY <1>1 DEF RingInv, PlacesInv, RingPlaces
    <2>3. shown[n].id \in IDs(shown[n])
      BY <2>2 DEF IDs
    <2>4. shown[n].id \in Shown(engine)
      BY <2>3, <1>2 DEF ShownIDs
    <2> QED BY <2>1, <2>4, <1>2
  <1> QED BY <1>3, <1>4 DEF RetainedAreNewest

\* Whatever is added, ticked, flushed, collapsed or cleared: every line is grouped,
\* waits or was returned exactly once, the lines of an ordered source are returned in
\* their order, and the ring shows the newest of what was returned, its counts and
\* the count of what was evicted being exact.
THEOREM LinesAreKeptHolds == EngineSpec => []LinesAreKept
  <1>1. EngineInv => LinesAreKept
    BY EveryLineOnceInv, SourceOrderInv, RetainedInv DEF LinesAreKept, EveryLineLeavesInOrder
  <1> QED BY <1>1, EngineInvariant, PTL
=============================================================================
