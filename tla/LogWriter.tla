------------------------------ MODULE LogWriter ------------------------------
(***************************************************************************)
(* The recording writer of a log workbench (internal/view/log_recording.go,*)
(* logWriter): log callbacks offer records without waiting for the disk, a *)
(* goroutine takes them from a bounded queue and gives them to the recorder*)
(* in batches, and the user or the end of the app closes the queue.        *)
(*                                                                         *)
(* Records are numbered in the order in which they are offered. The        *)
(* recorder is module Recorder; here it opens or not, and an append writes *)
(* a part of its batch or all of it. The limits of a batch in bytes are    *)
(* the freedom to flush at any moment, which the ticker has anyway.        *)
(***************************************************************************)
EXTENDS Integers, Sequences, SequencesExt

CONSTANTS
    QueueLimit,    \* records queued (4096 in the code)
    QueueBytes,    \* budget of bytes queued (logWriterQueueBytes)
    BatchLimit,    \* records of one batch (256 in the code)
    MaxOffers      \* bound of the model: how many records are offered

ASSUME WriterAssumption ==
    {QueueLimit, QueueBytes, BatchLimit, MaxOffers} \subseteq Nat \ {0}

SizesOf == {1, 2}

VARIABLES
    offered,      \* records offered so far
    accepted,     \* those that were queued, in their order
    dropped,      \* logWriterState.dropped
    queue,        \* the channel
    queuedBytes,  \* logWriter.queuedBytes
    closing,      \* logWriter.closing
    reported,     \* logWriterState.err # ""
    loop,         \* where logWriter.run is
    failed,       \* its own err
    opened,       \* the recorder was opened
    hand,         \* the record it took from the queue
    batch,        \* its batch
    written       \* records the recorder wrote

writerVars == <<offered, accepted, dropped, queue, queuedBytes, closing, reported,
                loop, failed, opened, hand, batch, written>>
offerVars == <<offered, accepted, dropped>>
queueVars == <<queue, queuedBytes, closing>>
runVars == <<failed, opened, hand, batch, written>>

WriterInit ==
    /\ offered = 0
    /\ accepted = <<>>
    /\ dropped = 0
    /\ queue = <<>>
    /\ queuedBytes = 0
    /\ closing = FALSE
    /\ reported = FALSE
    /\ loop = "opening"
    /\ failed = FALSE
    /\ opened = FALSE
    /\ hand = <<>>
    /\ batch = <<>>
    /\ written = <<>>

Admit(size) ==
    IF reported \/ queuedBytes + size > QueueBytes \/ Len(queue) = QueueLimit
      THEN dropped' = dropped + 1 /\ UNCHANGED <<accepted, queue, queuedBytes>>
      ELSE /\ queue' = Append(queue, [id |-> offered + 1, size |-> size])
           /\ queuedBytes' = queuedBytes + size
           /\ accepted' = Append(accepted, offered + 1)
           /\ UNCHANGED dropped

\* offer, for one record; after close it is neither queued nor counted.
Offer ==
    /\ ~ closing
    /\ offered < MaxOffers
    /\ offered' = offered + 1
    /\ \E size \in SizesOf : Admit(size)
    /\ UNCHANGED <<closing, reported, loop, runVars>>

CloseQueue ==
    /\ ~ closing
    /\ closing' = TRUE
    /\ UNCHANGED <<offerVars, queue, queuedBytes, reported, loop, runVars>>

OpenWriter ==
    /\ loop = "opening"
    /\ \/ opened' = TRUE /\ UNCHANGED <<failed, reported>>
       \/ failed' = TRUE /\ reported' = TRUE /\ UNCHANGED opened
    /\ loop' = "receiving"
    /\ UNCHANGED <<offerVars, queueVars, hand, batch, written>>

\* The channel hands over a record; a full batch was flushed before.
Receive ==
    /\ loop = "receiving"
    /\ Len(batch) < BatchLimit
    /\ queue # <<>>
    /\ hand' = <<Head(queue)>>
    /\ queue' = Tail(queue)
    /\ loop' = "received"
    /\ UNCHANGED <<offerVars, queuedBytes, closing, reported, failed, opened, batch,
                   written>>

\* A moment later, under the lock, its bytes are given back to the budget.
GiveBack ==
    /\ loop = "received"
    /\ queuedBytes' = queuedBytes - hand[1].size
    /\ loop' = "sizing"
    /\ UNCHANGED <<offerVars, queue, closing, reported, runVars>>

\* Mutated: a failed append does not stop the ones after it.
AppendForgets ==
    /\ batch' = <<>>
    /\ IF batch # <<>> /\ opened
         THEN \/ written' = written \o batch /\ UNCHANGED <<failed, reported>>
              \/ /\ \E n \in 0 .. Len(batch) : written' = written \o SubSeq(batch, 1, n)
                 /\ reported' = TRUE
                 /\ UNCHANGED failed
         ELSE UNCHANGED <<written, failed, reported>>

\* flush: after the first failure nothing is written any more.
AppendAll ==
    /\ batch' = <<>>
    /\ IF batch # <<>> /\ opened /\ ~ failed
         THEN \/ written' = written \o batch /\ UNCHANGED <<failed, reported>>
              \/ /\ \E n \in 0 .. Len(batch) : written' = written \o SubSeq(batch, 1, n)
                 /\ failed' = TRUE
                 /\ reported' = TRUE
         ELSE UNCHANGED <<written, failed, reported>>

\* The ticker, a batch that would become too large, or one that is full.
Flush ==
    /\ loop \in {"receiving", "sizing"}
    /\ batch # <<>>
    /\ AppendAll
    /\ UNCHANGED <<offerVars, queueVars, loop, opened, hand>>

Collect ==
    /\ loop = "sizing"
    /\ batch' = Append(batch, hand[1].id)
    /\ hand' = <<>>
    /\ loop' = "receiving"
    /\ UNCHANGED <<offerVars, queueVars, reported, failed, opened, written>>

\* A record that is too large for any batch is given up, after a flush; from
\* then on nothing is written.
Refuse ==
    /\ loop = "sizing"
    /\ batch = <<>>
    /\ failed' = TRUE
    /\ reported' = TRUE
    /\ hand' = <<>>
    /\ loop' = "receiving"
    /\ UNCHANGED <<offerVars, queueVars, opened, batch, written>>

\* The closed queue is empty: the last batch is flushed.
Drain ==
    /\ loop = "receiving"
    /\ closing
    /\ queue = <<>>
    /\ AppendAll
    /\ loop' = "draining"
    /\ UNCHANGED <<offerVars, queueVars, opened, hand>>

\* Then the recorder is closed, which may fail, and closed is set.
CloseWriter ==
    /\ loop = "draining"
    /\ loop' = "closed"
    /\ reported' \in IF opened THEN {reported, TRUE} ELSE {reported}
    /\ UNCHANGED <<offerVars, queueVars, runVars>>

WriterNext ==
    \/ Offer \/ CloseQueue
    \/ OpenWriter \/ Receive \/ GiveBack \/ Flush \/ Collect \/ Refuse \/ Drain \/ CloseWriter

WriterSpec == WriterInit /\ [][WriterNext]_writerVars

-----------------------------------------------------------------------------
(* Properties.                                                             *)

\* The bytes of a sequence of records.
BytesOf(records) ==
    LET sum[n \in 0..Len(records)] == IF n = 0 THEN 0 ELSE sum[n - 1] + records[n].size
    IN  sum[Len(records)]

\* The status line counts every record that was refused, and the budget counts
\* exactly the bytes that wait, but for the moment in which one is received.
RefusalsAreCounted ==
    /\ offered = Len(accepted) + dropped
    /\ queuedBytes = BytesOf(queue \o IF loop = "received" THEN hand ELSE <<>>)

\* What was written is a beginning of what was accepted, whatever failed in
\* between, and the rest of what was offered is counted as refused; a writer that
\* closed without an error wrote everything it accepted.
RecordingIsABeginning ==
    /\ RefusalsAreCounted
    /\ IsPrefix(written, accepted)
    /\ loop = "closed" /\ ~ reported => written = accepted
=============================================================================
