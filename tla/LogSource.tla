----------------------------- MODULE LogSource -----------------------------
(***************************************************************************)
(* One log source: a container of one Pod UID and restart count, followed  *)
(* by runLogSource (internal/dao/log_follow.go), which opens streams, reads*)
(* them with readLogStream (log_read.go) and resumes them with a logCursor *)
(* (log_cursor.go).                                                        *)
(*                                                                         *)
(* The container appends records to its log and ends. The server streams   *)
(* the log from a point on and may break a stream cleanly or with an error *)
(* at any record; a torn record is one the stream did not contain. A       *)
(* request that resumes carries SinceTime, which is serialized in whole    *)
(* seconds, so the server repeats the second in which the cursor stands.   *)
(* The owner loop stores the terminal flag, cancels the worker and starts  *)
(* it again with the same cursor.                                          *)
(*                                                                         *)
(* Left out: the delay between attempts, lines without a timestamp, the    *)
(* error items sent between streams, Head reads (cut by bytes).            *)
(***************************************************************************)
EXTENDS Integers, Sequences, FiniteSets, FiniteSetsExt, SequencesExt

CONSTANTS
    Records,          \* what a line can be: its time and its text
    TicksPerSecond,   \* instants that SinceTime does not tell apart
    CountLimit,       \* 1024: distinct records of one second remembered
    RetryCount,       \* logRetryCount: failures a finite read may have
    TailLines,        \* LogOptions.Lines, asked for while nothing was read
    MaxLog,           \* bound of the model: length of the log
    MaxOut,           \* bound of the model: items the consumer takes
    MaxRestarts       \* bound of the model: workers started again

\* "cut" is a line longer than 64 KiB whose lost end opens a private key.
Texts == {"plain", "begin", "end", "cut"}

ASSUME LogAssumption ==
    /\ Records \subseteq [time : Nat \ {0}, text : Texts]
    /\ TicksPerSecond \in Nat \ {0} /\ CountLimit \in Nat \ {0}
    /\ RetryCount \in Nat \ {0} /\ TailLines \in Nat \ {0}
    /\ MaxLog \in Nat /\ MaxOut \in Nat /\ MaxRestarts \in Nat

VARIABLES
    log,        \* what the container has written
    ended,      \* the container has terminated
    terminal,   \* logSourceState.terminal, stored by the owner loop
    cancelled,  \* the worker's context was cancelled
    conn,       \* the stream, see NoStream
    cursor,     \* logSourceState.cursor, see NewCursor
    pc,         \* where the worker stands
    held,       \* the record in sendLog: its place in the log, its mask
    failures,   \* consecutive failed attempts
    outcome,    \* sourceOutcome, "none" while the worker runs
    restarts,   \* workers started again
    out         \* what the consumer took from the channel, oldest first

vars == <<log, ended, terminal, cancelled, conn, cursor, pc, held,
          failures, outcome, restarts, out>>

serverVars == <<log, ended, terminal>>
workerVars == <<held, failures, outcome>>

Second(t) == (t + TicksPerSecond - 1) \div TicksPerSecond

None == [r \in Records |-> 0]

NewCursor == [time |-> 0, counts |-> None, replay |-> None,
              uncertain |-> FALSE, limited |-> FALSE, failClosed |-> FALSE,
              inKey |-> FALSE]

\* A stream: the next place to read, the last place sent (once it is shut),
\* SinceTime, Follow, and how the server shut it: "broken" is a clean end while
\* the container ran, "complete" one after the last record.
NoStream == [at |-> 1, upto |-> 0, since |-> 0, follow |-> FALSE,
             shut |-> "error"]

Nothing == [pos |-> 0, masked |-> FALSE]

Item(kind, place, masked) == [kind |-> kind, pos |-> place, masked |-> masked]

(***************************************************************************)
(* The cursor.                                                             *)
(***************************************************************************)
\* Mutated: the new stream starts with what is left of the old allowance.
ReconnectForgets(c) == [c EXCEPT !.failClosed = @ \/ c.uncertain]

Reconnect(c) ==
    [c EXCEPT !.replay = c.counts, !.failClosed = @ \/ c.uncertain]

Replayed(c, r) == Second(r.time) = Second(c.time) /\ c.replay[r] > 0

\* The cursor after moving to a later time, in the same second or the next.
MoveOn(c, r) ==
    LET same == Second(r.time) = Second(c.time)
    IN  [c EXCEPT !.time = r.time, !.replay = None,
                  !.counts = IF same THEN @ ELSE None,
                  !.uncertain = same /\ @]

\* One more delivered record of the cursor's second.
Count(c, r) ==
    IF c.counts[r] > 0 \/ Cardinality({k \in Records : c.counts[k] > 0}) < CountLimit
    THEN [c EXCEPT !.counts[r] = @ + 1]
    ELSE [c EXCEPT !.uncertain = TRUE, !.limited = TRUE]

Advance(c, r) ==
    IF Second(r.time) < Second(c.time) THEN c
    ELSE Count(IF r.time > c.time THEN MoveOn(c, r) ELSE c, r)

\* The redactor's view of a record; a truncated one closes the source for good.
Track(c, r) ==
    [c EXCEPT !.inKey = IF r.text \in {"begin", "end"} THEN r.text = "begin" ELSE @,
              !.failClosed = @ \/ r.text = "cut"]

Masked(c, r) == c.inKey \/ r.text = "begin" \/ Track(c, r).failClosed

(***************************************************************************)
(* The container, the server and the owner loop.                           *)
(***************************************************************************)
WriteLine(r) ==
    /\ ~ended /\ Len(log) < MaxLog
    /\ log' = Append(log, r)
    /\ UNCHANGED <<ended, terminal, cancelled, conn, cursor, pc, workerVars,
                   restarts, out>>

ContainerEnds ==
    /\ ~ended /\ ended' = TRUE
    /\ UNCHANGED <<log, terminal, cancelled, conn, cursor, pc, workerVars,
                   restarts, out>>

Streaming == pc \in {"read", "send"} /\ conn.shut = "open"

Shut(how, upto) ==
    /\ conn' = [conn EXCEPT !.shut = how, !.upto = upto]
    /\ UNCHANGED <<serverVars, cancelled, cursor, pc, workerVars, restarts, out>>

StreamFails ==
    /\ Streaming
    /\ \E upto \in (conn.at - 1)..Len(log) : Shut("error", upto)

\* The connection ends cleanly although the container goes on.
StreamBreaks ==
    /\ Streaming /\ conn.follow /\ ~ended
    /\ \E upto \in (conn.at - 1)..Len(log) : Shut("broken", upto)

StreamCompletes ==
    /\ Streaming /\ ended
    /\ Shut("complete", Len(log))

\* reconcile sees the container's status.
StoreTerminal ==
    /\ ended /\ ~terminal /\ terminal' = TRUE
    /\ UNCHANGED <<log, ended, cancelled, conn, cursor, pc, workerVars,
                   restarts, out>>

\* reconcile no longer wants the source, or the session ends.
Cancel ==
    /\ ~cancelled /\ pc # "done" /\ cancelled' = TRUE
    /\ UNCHANGED <<serverVars, conn, cursor, pc, workerVars, restarts, out>>

\* reconcile wants a source again whose worker was cancelled.
Restart ==
    /\ pc = "done" /\ outcome = "canceled" /\ restarts < MaxRestarts
    /\ Len(out) < MaxOut
    /\ restarts' = restarts + 1 /\ cancelled' = FALSE
    /\ out' = Append(out, Item("source-join", 0, FALSE))
    /\ pc' = "open" /\ outcome' = "none" /\ failures' = 0
    /\ UNCHANGED <<serverVars, conn, cursor, held>>

(***************************************************************************)
(* The worker.                                                             *)
(***************************************************************************)
Finish(o) ==
    /\ pc' = "done" /\ outcome' = o
    /\ UNCHANGED <<serverVars, cancelled, held, restarts>>

\* How the last attempt ended; a failed open leaves NoStream.
Eof == conn.shut # "error"

\* Every look at the context outside the sending of a record.
Quit ==
    /\ cancelled
    /\ pc \in {"open", "read", "marker", "wait"} \/ (pc = "settle" /\ ~Eof)
    /\ Finish("canceled")
    /\ conn' = NoStream
    /\ UNCHANGED <<cursor, failures, out>>

OpenStream ==
    /\ pc = "open" /\ ~cancelled
    /\ cursor' = Reconnect(cursor)
    /\ conn' = [at |-> IF cursor.time # 0 THEN 1
                       ELSE Max({1, Len(log) - TailLines + 1}),
                upto |-> 0, since |-> cursor.time, follow |-> ~terminal,
                shut |-> "open"]
    /\ pc' = "read"
    /\ UNCHANGED <<serverVars, cancelled, workerVars, restarts, out>>

OpenFails ==
    /\ pc = "open" /\ ~cancelled
    /\ cursor' = Reconnect(cursor) /\ conn' = NoStream /\ pc' = "settle"
    /\ UNCHANGED <<serverVars, cancelled, held, failures, outcome, restarts, out>>

OpenDenied ==
    /\ pc = "open" /\ ~cancelled
    /\ cursor' = Reconnect(cursor)
    /\ Finish("denied")
    /\ UNCHANGED <<conn, failures, out>>

\* What the stream still holds; the server drops lines older than SinceTime.
Available ==
    {i \in conn.at..(IF conn.shut = "open" THEN Len(log) ELSE conn.upto) :
        Second(log[i].time) >= Second(conn.since)}

\* Mutated: the cursor moves when the record is read, not when it is delivered.
ReadRecordAdvances ==
    /\ pc = "read" /\ ~cancelled /\ Available # {}
    /\ LET i == Min(Available)
       IN  /\ ~Replayed(cursor, log[i])
           /\ held' = [pos |-> i, masked |-> Masked(cursor, log[i])]
           /\ cursor' = Advance(Track(cursor, log[i]), log[i])
           /\ conn' = [conn EXCEPT !.at = i + 1]
    /\ pc' = "send"
    /\ UNCHANGED <<serverVars, cancelled, failures, outcome, restarts, out>>

ReadReplayed ==
    /\ pc = "read" /\ ~cancelled /\ Available # {}
    /\ LET i == Min(Available)
       IN  /\ Replayed(cursor, log[i])
           /\ cursor' = [cursor EXCEPT !.replay[log[i]] = @ - 1]
           /\ conn' = [conn EXCEPT !.at = i + 1]
    /\ UNCHANGED <<serverVars, cancelled, pc, workerVars, restarts, out>>

ReadRecord ==
    /\ pc = "read" /\ ~cancelled /\ Available # {}
    /\ LET i == Min(Available)
       IN  /\ ~Replayed(cursor, log[i])
           /\ held' = [pos |-> i, masked |-> Masked(cursor, log[i])]
           /\ cursor' = Track(cursor, log[i])
           /\ conn' = [conn EXCEPT !.at = i + 1]
    /\ pc' = "send"
    /\ UNCHANGED <<serverVars, cancelled, failures, outcome, restarts, out>>

\* The channel takes the record; the select may choose this after a cancel.
Deliver ==
    /\ pc = "send" /\ Len(out) < MaxOut
    /\ out' = Append(out, Item("record", held.pos, held.masked))
    /\ cursor' = Advance(cursor, log[held.pos])
    /\ held' = Nothing /\ pc' = "read"
    /\ UNCHANGED <<serverVars, cancelled, conn, failures, outcome, restarts>>

\* Mutated: a cancelled send trusts the state it has consumed.
SendCancelledTrusts ==
    /\ pc = "send" /\ cancelled
    /\ held' = Nothing /\ pc' = "done" /\ outcome' = "canceled"
    /\ conn' = NoStream
    /\ UNCHANGED <<serverVars, cancelled, cursor, failures, restarts, out>>

\* Mutated: a last line without a newline is dropped at the end of the stream.
ReadEndsEarly ==
    /\ pc = "read" /\ ~cancelled /\ conn.shut # "open"
    /\ Cardinality(Available) <= 1
    /\ pc' = "settle"
    /\ UNCHANGED <<serverVars, cancelled, conn, cursor, workerVars, restarts, out>>

\* Track may have consumed an END that nobody received.
SendCancelled ==
    /\ pc = "send" /\ cancelled
    /\ cursor' = [cursor EXCEPT !.failClosed = @ \/ held.masked]
    /\ held' = Nothing /\ pc' = "done" /\ outcome' = "canceled"
    /\ conn' = NoStream
    /\ UNCHANGED <<serverVars, cancelled, failures, restarts, out>>

ReadEnds ==
    /\ pc = "read" /\ ~cancelled /\ Available = {} /\ conn.shut # "open"
    /\ pc' = "settle"
    /\ UNCHANGED <<serverVars, cancelled, conn, cursor, workerVars, restarts, out>>

\* Mutated: failures are counted only while the container runs.
FailuresRunning ==
    IF Eof THEN 0 ELSE IF terminal THEN failures ELSE Min({failures + 1, RetryCount})

Complete ==
    /\ pc = "settle" /\ Eof /\ terminal
    /\ Finish("completed")
    /\ UNCHANGED <<conn, cursor, failures, out>>

FailuresNow == IF Eof THEN 0 ELSE Min({failures + 1, RetryCount})

GivesUp == terminal /\ FailuresNow >= RetryCount

Exhausted ==
    /\ pc = "settle" /\ ~Eof /\ GivesUp
    /\ failures' = FailuresNow
    /\ Finish("exhausted")
    /\ UNCHANGED <<conn, cursor, out>>

TryAgain ==
    /\ pc = "settle" /\ ~(Eof /\ terminal) /\ ~GivesUp
    /\ failures' = FailuresNow /\ pc' = "marker" /\ conn' = NoStream
    /\ UNCHANGED <<serverVars, cancelled, cursor, held, outcome, restarts, out>>

AnnounceLimit ==
    /\ pc = "marker" /\ cursor.limited /\ Len(out) < MaxOut
    /\ out' = Append(out, Item("dedup-limit", 0, FALSE))
    /\ cursor' = [cursor EXCEPT !.limited = FALSE]
    /\ UNCHANGED <<serverVars, cancelled, conn, pc, workerVars, restarts>>

SkipMarker ==
    /\ pc = "marker" /\ ~cursor.limited /\ pc' = "wait"
    /\ UNCHANGED <<serverVars, cancelled, conn, cursor, workerVars, restarts, out>>

RetryTimer ==
    /\ pc = "wait" /\ pc' = "open"
    /\ UNCHANGED <<serverVars, cancelled, conn, cursor, workerVars, restarts, out>>

(***************************************************************************)
(* The system.                                                             *)
(***************************************************************************)
Init ==
    /\ log = <<>> /\ ended = FALSE /\ terminal = FALSE /\ cancelled = FALSE
    /\ conn = NoStream /\ cursor = NewCursor
    /\ pc = "open" /\ held = Nothing /\ failures = 0
    /\ outcome = "none" /\ restarts = 0 /\ out = <<>>

Worker ==
    \/ Quit \/ OpenStream \/ OpenFails \/ OpenDenied
    \/ ReadReplayed \/ ReadRecord \/ ReadEnds
    \/ Complete \/ Exhausted \/ TryAgain \/ SkipMarker \/ RetryTimer
    \/ SendCancelled

Consumer == Deliver \/ AnnounceLimit

Next ==
    \/ \E r \in Records : WriteLine(r)
    \/ ContainerEnds \/ StreamFails \/ StreamBreaks \/ StreamCompletes
    \/ StoreTerminal \/ Cancel \/ Restart
    \/ Worker \/ Consumer

Spec == Init /\ [][Next]_vars

\* The worker runs, the consumer takes items, the server ends a stream whose
\* container has ended.
SourceFairness == WF_vars(Worker) /\ WF_vars(Consumer) /\ WF_vars(StreamCompletes)

(***************************************************************************)
(* Properties.                                                             *)
(***************************************************************************)
Deliveries == {i \in DOMAIN out : out[i].kind = "record"}

\* The places of the log delivered by the items before i.
DeliveredBefore(i) == {out[j].pos : j \in {k \in Deliveries : k < i}}

\* A line stamped in an earlier second than a line delivered before it: a
\* server asked to resume does not send it again.
Late(p, places) ==
    \E q \in places : q < p /\ Second(log[q].time) > Second(log[p].time)

\* The first request asks for the last TailLines lines, a resumed one for all
\* lines of a second. When lines before the tail are of its first line's second
\* or a later one, a resumed stream contains them, and nothing is claimed.
TailCutsSecond ==
    Deliveries # {} /\
        LET first == out[Min(Deliveries)].pos
        IN  \E p \in 1..(first - 1) :
                Second(log[p].time) >= Second(log[first].time)

\* When a line is delivered, every line since the first one delivered and before
\* it was delivered already, in spite of reconnects, torn records, identical
\* lines and cancelled workers; only late lines may be missing (logCursor).
NothingSkipped ==
    ~TailCutsSecond =>
    \A i \in Deliveries :
        LET before == DeliveredBefore(i)
        IN  \A p \in 1..(out[i].pos - 1) :
                (\E q \in before : q < p) => p \in before \/ Late(p, before)

\* A line is delivered twice only after its second held more distinct records
\* than the cursor remembers, and the channel says so in between: by the
\* dedup-limit marker, or by source-join when the worker was started again before
\* it could send that.
DuplicatesAreAnnounced ==
    ~TailCutsSecond =>
    \A i, j \in Deliveries :
        i < j /\ out[i].pos = out[j].pos =>
            /\ \E k \in (i + 1)..(j - 1) : out[k].kind # "record"
            /\ Cardinality({log[p] : p \in {q \in DeliveredBefore(i + 1) :
                   Second(log[q].time) = Second(log[out[i].pos].time)}}) > CountLimit

Opens(p) == log[p].text \in {"begin", "cut"}

\* A line that follows the delivered beginning of a private key, with no delivered
\* end between them in the log, is masked, whatever was replayed, duplicated,
\* truncated or lost in a cancelled send in between (Redactor.Track, and the
\* cursor that carries its state from stream to stream).
KeyLinesStayMasked ==
    ~TailCutsSecond =>
    \A i \in Deliveries :
        LET p == out[i].pos
            before == DeliveredBefore(i)
        IN  (\E q \in before \cup {p} :
                /\ q <= p /\ Opens(q)
                /\ \A m \in (q + 1)..(p - 1) : log[m].text = "end" => m \notin before)
            => out[i].masked

LastLineArrived ==
    LET last == Len(log)
        places == {out[i].pos : i \in Deliveries}
    IN  last > 0 /\ ~TailCutsSecond => last \in places \/ Late(last, places)

\* A source reported completed has delivered its log to the last line, if its
\* last stream was not one that broke off while the container ran.
CompletedReadIsWhole ==
    outcome = "completed" /\ conn.shut = "complete" => LastLineArrived

\* The marker sent when a running source becomes terminal says "container is
\* terminal; completing remaining log read" (log_follow.go:203): a source
\* reported completed has delivered its log to the last line.
CompletedSourceIsWhole == outcome = "completed" => LastLineArrived

\* Once the owner loop has stored that the container ended, the worker ends: a
\* finite read fails at most logRetryCount times, and a stream that followed the
\* container is over with it.
TerminalSourceEnds == terminal ~> (pc = "done")
=============================================================================
