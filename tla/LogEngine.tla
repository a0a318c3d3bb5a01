------------------------------ MODULE LogEngine ------------------------------
(***************************************************************************)
(* The bounded engine of a log workbench (internal/logstream/engine.go):   *)
(* lines of several sources are grouped per source, reordered by their time*)
(* inside a window, numbered, handed out for recording and kept in a ring. *)
(*                                                                         *)
(* The workbench calls the engine under its capture lock                   *)
(* (internal/view/log_workbench.go), so a call is one action and what it   *)
(* returns is what the recording is offered next. A line is its source, its*)
(* time and its kind: a marker, a line of its own, or a "frame", a raw line*)
(* that continues the group before it. Lines of one kind have the same text*)
(* unless they are grouped differently. Formats, truncation, timelines and *)
(* the redactor's state (modules LogSource, Recorder) are left out.        *)
(***************************************************************************)
EXTENDS Integers, Sequences, FiniteSets, FiniteSetsExt, Functions

CONSTANTS
    LogSources,      \* sources of lines
    Capacity,        \* entries of the ring (Options.Capacity)
    MaxSources,      \* sources with state (1024 in the code)
    MaxGroupLines,   \* lines of a group (64 in the code)
    MaxReorder,      \* entries that wait for their order (2048 in the code)
    GroupIdle,       \* a group without a line for so long is over
    ReorderWindow,   \* an entry waits for so long
    MaxLines,        \* bound of the model: lines added
    MaxTime,         \* bound of the model: the last time of a line
    MaxClock,        \* bound of the model: the last time observed
    Kinds            \* kinds of line that occur

ASSUME EngineAssumption ==
    /\ {Capacity, MaxSources, MaxGroupLines} \subseteq Nat \ {0}
    /\ {MaxReorder, GroupIdle, ReorderWindow, MaxLines, MaxTime, MaxClock} \subseteq Nat
    /\ Kinds \subseteq {"line", "frame", "marker"}

VARIABLES
    engine,    \* the Engine: a record with the fields of the struct
    clock,     \* time as the callers of the engine observe it
    lines,     \* every line added, in order; an entry refers to them by number
    cleared    \* IDs of the entries that ClearRetained took from the ring

engineVars == <<engine, clock, lines, cleared>>

\* An entry; its lines are those of the group. No group is pending: NoGroup.
Entry(s, time, kind, n) ==
    [id |-> 0, source |-> s, time |-> time, kind |-> kind, text |-> <<kind>>,
     group |-> <<n>>]
NoGroup ==
    [id |-> 0, source |-> "none", time |-> 0, kind |-> "none", text |-> <<>>,
     group |-> <<>>]

\* A place of the ring: an entry, with what was counted there after it.
NoPlace ==
    [id |-> 0, lastID |-> 0, source |-> "none", kind |-> "none", text |-> <<>>,
     occurrences |-> 0]
EmptyRing == [i \in 0 .. Capacity - 1 |-> NoPlace]

\* known: the sources that have state, with their pending group and the time of
\* their last line. out is every entry that the engine has returned.
NewEngine ==
    [known |-> {}, pending |-> [s \in LogSources |-> NoGroup],
     touched |-> [s \in LogSources |-> 0], queue |-> {}, orderID |-> 0,
     nextID |-> 0, ring |-> EmptyRing, start |-> 0, size |-> 0, evicted |-> 0,
     collapse |-> TRUE, multiline |-> TRUE, out |-> <<>>]

EngineInit ==
    /\ engine = NewEngine
    /\ clock = 0
    /\ lines = <<>>
    /\ cleared = {}

-----------------------------------------------------------------------------
(* Entries leave their source, then the queue, and enter the ring.         *)

\* enqueue: until it leaves the queue an entry's ID is its order of arrival.
Enqueue(e, entry, observed) ==
    [e EXCEPT !.orderID = @ + 1,
              !.queue = @ \cup {[entry |-> [entry EXCEPT !.id = e.orderID + 1],
                                 observed |-> observed]}]

\* flushSource: the pending group of a source is queued.
FlushSource(e, s, observed) ==
    IF e.pending[s] = NoGroup THEN e
    ELSE Enqueue([e EXCEPT !.pending[s] = NoGroup], e.pending[s], observed)

Newest(e) == (e.start + e.size - 1) % Capacity

Collapses(e, entry) ==
    /\ e.collapse
    /\ e.size > 0
    /\ LET last == e.ring[Newest(e)] IN
       /\ last.kind # "marker" /\ entry.kind # "marker"
       /\ last.source = entry.source
       /\ last.text = entry.text

Place(entry) ==
    [id |-> entry.id, lastID |-> entry.id, source |-> entry.source,
     kind |-> entry.kind, text |-> entry.text, occurrences |-> Len(entry.group)]

CountedIn(last, entry) ==
    [last EXCEPT !.lastID = entry.id, !.occurrences = @ + Len(entry.group)]

\* Mutated: the place after the newest entry is one too far when the ring is full.
CommitShifted(e, entry) ==
    IF Collapses(e, entry)
      THEN [e EXCEPT !.ring[Newest(e)] = CountedIn(@, entry)]
    ELSE IF e.size = Capacity
      THEN [e EXCEPT !.evicted = @ + e.ring[e.start].occurrences,
                     !.ring[(e.start + 1) % Capacity] = Place(entry),
                     !.start = (@ + 1) % Capacity]
      ELSE [e EXCEPT !.ring[(e.start + e.size) % Capacity] = Place(entry), !.size = @ + 1]

\* commit: an entry like the newest one is counted there; a full ring loses its
\* oldest entry.
Commit(e, entry) ==
    IF Collapses(e, entry)
      THEN [e EXCEPT !.ring[Newest(e)] = CountedIn(@, entry)]
    ELSE IF e.size = Capacity
      THEN [e EXCEPT !.evicted = @ + e.ring[e.start].occurrences,
                     !.ring[e.start] = Place(entry),
                     !.start = (@ + 1) % Capacity]
      ELSE [e EXCEPT !.ring[(e.start + e.size) % Capacity] = Place(entry), !.size = @ + 1]

Earlier(a, b) ==
    \/ a.entry.time < b.entry.time
    \/ a.entry.time = b.entry.time /\ a.entry.id < b.entry.id

\* The first of the queue is numbered, committed and returned.
PopFirst(e) ==
    LET first == CHOOSE q \in e.queue : \A r \in e.queue \ {q} : Earlier(q, r)
        entry == [first.entry EXCEPT !.id = e.nextID + 1]
    IN Commit([e EXCEPT !.queue = @ \ {first}, !.nextID = @ + 1,
                        !.out = Append(@, entry)], entry)

\* Some entry has waited long enough, or too many wait.
Due(queue, now) ==
    \/ Cardinality(queue) > MaxReorder
    \/ \E q \in queue : now - q.observed >= ReorderWindow

\* What the engine is after as many entries have left the queue.
Popped(e) ==
    LET popped[n \in 0 .. Cardinality(e.queue)] ==
            IF n = 0 THEN e ELSE PopFirst(popped[n - 1])
    IN popped

\* drain: entries leave in the order of their time until none is due.
Drain(e, now, all) ==
    LET popped == Popped(e)
    IN popped[Min({n \in 0 .. Cardinality(e.queue) :
                      \/ popped[n].queue = {}
                      \/ ~ all /\ ~ Due(popped[n].queue, now)})]

-----------------------------------------------------------------------------
(* The engine's operations.                                                *)

WithSource(e, s, now) ==
    [e EXCEPT !.known = @ \cup {s}, !.touched[s] = now]

\* The source that was silent the longest makes room; its group is queued.
AddSource(e, s, now) ==
    IF s \in e.known THEN {e}
    ELSE IF Cardinality(e.known) < MaxSources THEN {WithSource(e, s, now)}
    ELSE { WithSource([FlushSource(e, old, now) EXCEPT !.known = @ \ {old}], s, now) :
           old \in {t \in e.known : \A u \in e.known : e.touched[t] <= e.touched[u]} }

Idle(e, s, now) == now - e.touched[s] >= GroupIdle

\* The pending group takes a frame unless it is full.
Continues(entry, group) ==
    /\ group # NoGroup /\ entry.kind = "frame"
    /\ Len(group.group) < MaxGroupLines

Joined(group, entry) ==
    [group EXCEPT !.group = @ \o entry.group, !.text = @ \o entry.text]

Grouped(e, s, entry, now) ==
    LET f == IF Idle(e, s, now) THEN FlushSource(e, s, now) ELSE e
        g == [f EXCEPT !.touched[s] = now]
    IN IF entry.kind = "marker" \/ ~ g.multiline
         THEN Enqueue(FlushSource(g, s, now), entry, now)
       ELSE IF Continues(entry, g.pending[s])
         THEN [g EXCEPT !.pending[s] = Joined(@, entry)]
       ELSE [FlushSource(g, s, now) EXCEPT !.pending[s] = entry]

Add ==
    /\ Len(lines) < MaxLines
    /\ clock' \in clock .. MaxClock
    /\ \E s \in LogSources, time \in 0 .. MaxTime, kind \in Kinds :
          LET entry == Entry(s, time, kind, Len(lines) + 1) IN
          /\ lines' = Append(lines, [source |-> s, time |-> time])
          /\ \E e \in AddSource(engine, s, clock') :
                engine' = Drain(Grouped(e, s, entry, clock'), clock', FALSE)
    /\ UNCHANGED cleared

\* The groups of these sources are queued, each as of its time, in some order:
\* Go ranges over a map in any, Flush in that of the sources' names.
FlushAll(e, over, observed) ==
    LET full == {s \in over : e.pending[s] # NoGroup}
    IN { [e EXCEPT !.orderID = @ + Cardinality(full),
                   !.queue = @ \cup {[entry |-> [e.pending[s] EXCEPT !.id = e.orderID + turn[s]],
                                      observed |-> observed[s]] : s \in full},
                   !.pending = [s \in LogSources |-> IF s \in full THEN NoGroup ELSE @[s]]] :
         turn \in Injection(full, 1 .. Cardinality(full)) }

\* Tick: groups that are over are queued as of their last line.
Tick ==
    /\ clock' \in clock .. MaxClock
    /\ \E e \in FlushAll(engine, {s \in engine.known : Idle(engine, s, clock')},
                         engine.touched) :
          engine' = Drain(e, clock', FALSE)
    /\ UNCHANGED <<lines, cleared>>

\* What flush may leave behind.
Flushed ==
    {Drain(e, clock, TRUE) :
        e \in FlushAll(engine, engine.known, [s \in LogSources |-> clock])}

\* Flush; with on # {}, SetMultiline.
Flush(on) ==
    /\ \E e \in Flushed :
          engine' = [e EXCEPT !.multiline = IF on = {} THEN @ ELSE ~ @]
    /\ UNCHANGED <<clock, lines, cleared>>

\* Snapshot: the ring, oldest first; and the IDs it shows.
Snapshot(e) == [n \in 1 .. e.size |-> e.ring[(e.start + n - 1) % Capacity]]
IDs(place) == place.id .. place.lastID
Shown(e) == UNION {IDs(Snapshot(e)[n]) : n \in 1 .. e.size}

\* ClearRetained: what waits is still returned; then the ring is emptied.
ClearRetained ==
    /\ \E e \in Flushed :
          /\ engine' = [e EXCEPT !.ring = EmptyRing, !.start = 0, !.size = 0]
          /\ cleared' = cleared \cup Shown(e)
    /\ UNCHANGED <<clock, lines>>

SetCollapse ==
    /\ engine' = [engine EXCEPT !.collapse = ~ @]
    /\ UNCHANGED <<clock, lines, cleared>>

EngineNext ==
    \/ Add
    \/ Tick
    \/ \E on \in {{}, {"multiline"}} : Flush(on)
    \/ ClearRetained
    \/ SetCollapse

EngineSpec == EngineInit /\ [][EngineNext]_engineVars

-----------------------------------------------------------------------------
(* Properties.                                                             *)

Lines(entry) == {entry.group[k] : k \in DOMAIN entry.group}
LinesIn(e, ids) == UNION {Lines(e.out[n]) : n \in ids}

\* Every line added is in exactly one place: with its source's group, in the
\* queue, or returned once; nothing is recorded twice or never.
EveryLineOnce ==
    LET homes(i) ==
            {<<"group", s>> : s \in {t \in LogSources : i \in Lines(engine.pending[t])}}
            \cup {<<"queue", q.entry.id>> : q \in {r \in engine.queue : i \in Lines(r.entry)}}
            \cup {<<"out", n>> : n \in {m \in DOMAIN engine.out : i \in Lines(engine.out[m])}}
    IN \A i \in DOMAIN lines : Cardinality(homes(i)) = 1

Ordered(s) ==
    \A i, j \in DOMAIN lines :
        i < j /\ lines[i].source = s /\ lines[j].source = s => lines[i].time <= lines[j].time

Before(x, y) == \A i \in Lines(x), j \in Lines(y) : i < j

\* What is returned is numbered without a gap, its lines are of its source and in
\* their order, and the lines of a source whose times never decrease leave in their
\* order, however groups, forced entries, evicted sources and flushes interleave.
SourceOrderKept ==
    /\ \A n \in DOMAIN engine.out :
          /\ engine.out[n].id = n
          /\ \A j, k \in DOMAIN engine.out[n].group :
                j < k => engine.out[n].group[j] < engine.out[n].group[k]
          /\ \A i \in Lines(engine.out[n]) :
                i \in DOMAIN lines /\ lines[i].source = engine.out[n].source
    /\ \A s \in LogSources : Ordered(s) =>
          \A m, n \in DOMAIN engine.out :
             m < n /\ engine.out[m].source = s /\ engine.out[n].source = s =>
                Before(engine.out[m], engine.out[n])

\* What the recording is offered: every line that was added, once, and those of an
\* ordered source in their order.
EveryLineLeavesInOrder == EveryLineOnce /\ SourceOrderKept

\* The ring shows the newest of what was returned since it was cleared, nothing in
\* between left out: a place stands for as many lines as its entries have, all alike,
\* and what is neither shown nor cleared was counted as evicted.
RetainedAreNewest ==
    LET shown == Snapshot(engine)
    IN /\ \A n \in 1 .. engine.size :
            /\ shown[n].id \in 1 .. Len(engine.out)
            /\ shown[n].lastID =
                  IF n = engine.size THEN Len(engine.out) ELSE shown[n + 1].id - 1
            /\ shown[n].occurrences = Cardinality(LinesIn(engine, IDs(shown[n])))
            /\ \A m \in IDs(shown[n]) :
                  /\ m \notin cleared
                  /\ engine.out[m].source = shown[n].source
                  /\ engine.out[m].text = shown[n].text
       /\ engine.evicted =
             Cardinality(LinesIn(engine, (1 .. Len(engine.out)) \ (cleared \cup Shown(engine))))

\* The engine neither loses nor repeats nor swaps: on its way to the recording, and
\* in the ring that the page shows.
LinesAreKept == EveryLineLeavesInOrder /\ RetainedAreNewest
=============================================================================
