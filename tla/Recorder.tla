------------------------------ MODULE Recorder ------------------------------
(***************************************************************************)
(* The log recorder (internal/logstream/recording.go): AppendBatch writes  *)
(* an intent, the records of a batch, syncs them and writes a checkpoint;  *)
(* OpenRecorder resumes whatever a crash left; the redactor's state about  *)
(* open private keys is part of the checkpoint (redaction.go).             *)
(*                                                                         *)
(* A crash ends the process between any two steps and may take with it     *)
(* what was not synced: the end of a segment, a segment whose directory    *)
(* entry is new, a renamed session.json. Every call of the file system may *)
(* fail; what a crash in the middle of a call leaves is what its failure   *)
(* leaves. A removal and a truncation are durable at once.                 *)
(*                                                                         *)
(* Records and fragments of records are one byte, session.json is one byte *)
(* and one for each open key. Raw recordings, the index, file modes and    *)
(* the readers (Page, Search) are left out.                                *)
(***************************************************************************)
EXTENDS Integers, Sequences, FiniteSets, FiniteSetsExt, SequencesExt

CONSTANTS
    Sources,        \* log sources
    KeyLimit,       \* 1024: sources with an open key that are told apart
    MaxBytes,       \* RecordingOptions.MaxBytes
    SegmentBytes,   \* RecordingOptions.SegmentBytes
    MaxSegments,    \* 1024
    MaxBatch,       \* 256: entries of a batch
    MaxId,          \* bound of the model: entry IDs
    MaxOpens        \* bound of the model: calls of OpenRecorder

ASSUME RecorderAssumption ==
    /\ KeyLimit \in Nat /\ MaxBytes \in Nat \ {0} /\ SegmentBytes \in Nat \ {0}
    /\ MaxSegments \in Nat \ {0} /\ MaxBatch \in Nat \ {0}
    /\ MaxId \in Nat /\ MaxOpens \in Nat

VARIABLES
    meta,      \* session.json
    durable,   \* the session.json that a loss of power may bring back
    segs,      \* the segment files, oldest first
    rec,       \* the Recorder in memory
    pc,        \* where OpenRecorder, AppendBatch or Close stands
    todo,      \* the entries of the batch not yet written
    truth,     \* the sources inside a private key, from the lines handed over
    acked,     \* IDs of the batches whose AppendBatch returned no error
    gone,      \* the last ID in a segment that was evicted
    opens      \* calls of OpenRecorder

vars == <<meta, durable, segs, rec, pc, todo, truth, acked, gone, opens>>

disk == <<meta, durable, segs, gone>>
ghosts == <<truth, acked>>

\* No session.json yet.
NoMeta == [last |-> 0, keys |-> {}, closed |-> FALSE, pending |-> FALSE,
           writer |-> FALSE, bytes |-> 0]

NoRecorder == [last |-> 0, keys |-> {}, closed |-> FALSE, pending |-> FALSE,
               writer |-> FALSE, file |-> FALSE, sizes |-> <<>>, bytes |-> 0,
               metaBytes |-> 0]

NewSegment == [recs |-> <<>>, torn |-> FALSE, synced |-> 0, linked |-> FALSE]

Total(sizes) ==
    LET sum[n \in 0..Len(sizes)] == IF n = 0 THEN 0 ELSE sum[n - 1] + sizes[n]
    IN  sum[Len(sizes)]

Size(s) == Len(s.recs) + (IF s.torn THEN 1 ELSE 0)

IdsOf(ss) == UNION {{s.recs[i].id : i \in DOMAIN s.recs} : s \in ToSet(ss)}

(***************************************************************************)
(* session.json and eviction.                                              *)
(***************************************************************************)
MetaOf(r) ==
    [last |-> r.last, keys |-> r.keys, closed |-> r.closed,
     pending |-> r.pending, writer |-> r.writer,
     bytes |-> 1 + Cardinality(r.keys)]

\* The recorder once the new session.json is in place.
Counted(r) ==
    LET size == MetaOf(r).bytes
    IN  [r EXCEPT !.bytes = @ + size - r.metaBytes, !.metaBytes = size]

\* The recorder after the n oldest segments were removed.
Without(r, n) ==
    [r EXCEPT !.sizes = SubSeq(@, n + 1, Len(@)),
              !.bytes = @ - Total(SubSeq(r.sizes, 1, n)),
              !.file = @ /\ n < Len(r.sizes)]

\* evict may stop after n removals; retention may ask for more than the limits.
MayStop(r, n, incoming) ==
    \/ n = Len(r.sizes)
    \/ /\ Without(r, n).bytes + incoming <= MaxBytes
       /\ Len(r.sizes) - n < MaxSegments

Newest(ss) == Max({gone} \cup IdsOf(ss))

Linked(ss) == [i \in DOMAIN ss |-> [ss[i] EXCEPT !.linked = TRUE]]

Evict(n, ss) ==
    /\ segs' = SubSeq(ss, n + 1, Len(ss))
    /\ gone' = Newest(SubSeq(ss, 1, n))

\* writeMeta: replace the file, sync the directory, evict.
SaveMeta(r) ==
    /\ MetaOf(r).bytes <= MaxBytes
    /\ meta' = MetaOf(r) /\ durable' = MetaOf(r)
    /\ \E n \in 0..Len(segs) :
          /\ MayStop(Counted(r), n, 0)
          /\ Evict(n, Linked(segs))
          /\ rec' = Without(Counted(r), n)

\* writeMeta of r fails: before the rename, before the sync of the directory, or
\* at a removal. The caller is left with the memory k.
SaveFails(r, k) ==
    \/ rec' = k /\ UNCHANGED disk
    \/ /\ MetaOf(r).bytes <= MaxBytes
       /\ meta' = MetaOf(r) /\ rec' = Counted(k)
       /\ UNCHANGED <<durable, segs, gone>>
    \/ /\ MetaOf(r).bytes <= MaxBytes
       /\ meta' = MetaOf(r) /\ durable' = MetaOf(r)
       /\ \E n \in 0..(Len(segs) - 1) :
             /\ Evict(n, Linked(segs))
             /\ rec' = [Without(Counted(k), n) EXCEPT !.file = @ /\ n + 1 < Len(segs)]

(***************************************************************************)
(* OpenRecorder.                                                           *)
(***************************************************************************)
AnyTorn(ss) == \E s \in ToSet(ss) : s.torn

\* Mutated: a writer that did not close is no reason for doubt.
UncertainPending == meta.closed \/ meta.pending \/ AnyTorn(segs)

\* What makes the redactor fail closed from the start.
Uncertain ==
    \/ meta.closed \/ meta.pending \/ meta.writer
    \/ AnyTorn(segs)
    \/ \E id \in IdsOf(segs) : id > meta.last

LastKnown == Max({meta.last} \cup IdsOf(segs))

OpenScan ==
    /\ pc = "none" /\ opens < MaxOpens
    /\ rec' = [last |-> LastKnown, keys |-> meta.keys, closed |-> Uncertain,
               pending |-> FALSE, writer |-> TRUE, file |-> FALSE,
               sizes |-> [i \in DOMAIN segs |-> Size(segs[i])],
               bytes |-> meta.bytes + Total([i \in DOMAIN segs |-> Size(segs[i])]),
               metaBytes |-> meta.bytes]
    /\ opens' = opens + 1
    /\ pc' = "opening"
    /\ UNCHANGED <<disk, todo, ghosts>>

OpenMeta ==
    /\ pc = "opening"
    /\ SaveMeta(rec)
    /\ pc' = "repair"
    /\ UNCHANGED <<todo, ghosts, opens>>

OpenMetaFails ==
    /\ pc = "opening"
    /\ SaveFails(rec, rec)
    /\ pc' = "none"
    /\ UNCHANGED <<todo, ghosts, opens>>

Repaired(ss) == [i \in DOMAIN ss |-> [ss[i] EXCEPT !.torn = FALSE]]

\* Mutated: the bytes cut off go on being counted.
RepairUncounted ==
    /\ pc = "repair"
    /\ segs' = Repaired(segs)
    /\ rec' = [rec EXCEPT !.sizes = [i \in DOMAIN segs |-> Len(segs[i].recs)]]
    /\ pc' = "idle"
    /\ UNCHANGED <<meta, durable, gone, todo, ghosts, opens>>

Repair ==
    /\ pc = "repair"
    /\ segs' = Repaired(segs)
    /\ rec' = [rec EXCEPT !.sizes = [i \in DOMAIN segs |-> Len(segs[i].recs)],
                          !.bytes = @ - Cardinality({i \in DOMAIN segs : segs[i].torn})]
    /\ pc' = "idle"
    /\ UNCHANGED <<meta, durable, gone, todo, ghosts, opens>>

RepairFails ==
    /\ pc = "repair"
    /\ \E n \in 0..(Len(segs) - 1) :
          /\ segs[n + 1].torn
          /\ segs' = [i \in DOMAIN segs |->
                         IF i <= n THEN [segs[i] EXCEPT !.torn = FALSE] ELSE segs[i]]
    /\ pc' = "none"
    /\ UNCHANGED <<meta, durable, gone, rec, todo, ghosts, opens>>

(***************************************************************************)
(* AppendBatch.                                                            *)
(***************************************************************************)
Lines == [source : Sources, text : {"plain", "begin", "end"}]

\* Whether the source is inside a private key after n lines of the batch.
InKey(batch, n, source) ==
    LET delimiters == {j \in 1..n : batch[j].source = source /\ batch[j].text # "plain"}
    IN  IF delimiters = {} THEN source \in truth
        ELSE batch[Max(delimiters)].text = "begin"

Entries(batch) ==
    [i \in DOMAIN batch |->
        [id |-> rec.last + i, line |-> batch[i],
         secret |-> batch[i].text = "begin" \/ InKey(batch, i - 1, batch[i].source)]]

Begin ==
    /\ pc = "idle" /\ ~rec.pending
    /\ \E batch \in BoundedSeq(Lines, MaxBatch) :
          /\ batch # <<>> /\ rec.last + Len(batch) <= MaxId
          /\ todo' = Entries(batch)
          /\ truth' = {s \in Sources : InKey(batch, Len(batch), s)}
    /\ rec' = [rec EXCEPT !.pending = TRUE]
    /\ pc' = "intent"
    /\ UNCHANGED <<disk, acked, opens>>

\* A batch that failed leaves the recorder refusing others, and failing closed.
Failed(r) == [r EXCEPT !.pending = TRUE, !.closed = TRUE]

GiveUp ==
    /\ pc' = "idle" /\ todo' = <<>>
    /\ UNCHANGED <<ghosts, opens>>

Intent ==
    /\ pc = "intent"
    /\ SaveMeta(rec)
    /\ pc' = "entries"
    /\ UNCHANGED <<todo, ghosts, opens>>

IntentFails ==
    /\ pc = "intent"
    /\ SaveFails(rec, Failed(rec))
    /\ GiveUp

\* Redactor.Track.
Track(r, line) ==
    CASE line.text = "begin" /\ (line.source \in r.keys \/ Cardinality(r.keys) < KeyLimit) ->
            [r EXCEPT !.keys = @ \cup {line.source}]
      [] line.text = "begin" /\ ~(line.source \in r.keys \/ Cardinality(r.keys) < KeyLimit) ->
            [r EXCEPT !.closed = TRUE]
      [] line.text = "end" -> [r EXCEPT !.keys = @ \ {line.source}]
      [] OTHER -> r

Sensitive(r, line) == r.closed \/ line.source \in r.keys \/ line.text = "begin"

Tracked == Track(rec, Head(todo).line)

\* The current segment has no room for one more record.
Full(r) == r.sizes # <<>> /\ Last(r.sizes) + 1 > SegmentBytes

SyncLast(ss) ==
    [ss EXCEPT ![Len(ss)] = [@ EXCEPT !.synced = Len(ss[Len(ss)].recs)]]

\* The recorder and its segments when the next record is about to be written:
\* the current segment if it is open and has room, else a new one.
Ready(r, ss) ==
    IF r.file /\ ~Full(r) THEN [r |-> r, ss |-> ss]
    ELSE [r |-> [r EXCEPT !.file = TRUE, !.sizes = Append(@, 0)],
          ss |-> Append(IF r.file THEN SyncLast(ss) ELSE ss, NewSegment)]

Rest(n) == SubSeq(segs, n + 1, Len(segs))

WriteEntry ==
    /\ pc = "entries" /\ todo # <<>>
    /\ \E n \in 0..Len(segs) :
          /\ MayStop(Tracked, n, 1)
          /\ gone' = Newest(SubSeq(segs, 1, n))
          /\ LET ready == Ready(Without(Tracked, n), Rest(n))
                 at == Len(ready.ss)
                 record == [id |-> Head(todo).id, secret |-> Head(todo).secret,
                            masked |-> Sensitive(rec, Head(todo).line)]
             IN  /\ segs' = [ready.ss EXCEPT ![at].recs = Append(@, record)]
                 /\ rec' = [ready.r EXCEPT !.sizes[at] = @ + 1, !.bytes = @ + 1,
                                           !.last = record.id]
    /\ todo' = Tail(todo)
    /\ UNCHANGED <<meta, durable, pc, ghosts, opens>>

\* The entry is too large; nothing was touched but the redactor.
EntryRefused ==
    /\ pc = "entries" /\ todo # <<>>
    /\ rec' = Failed(Tracked)
    /\ GiveUp
    /\ UNCHANGED disk

\* A removal, the rotation or the new segment fails; the current file may be closed.
NoRoom ==
    /\ pc = "entries" /\ todo # <<>>
    /\ \E n \in 0..Len(segs), open \in BOOLEAN :
          /\ Evict(n, segs)
          /\ rec' = [Failed(Without(Tracked, n)) EXCEPT !.file = @ /\ open]
    /\ GiveUp
    /\ UNCHANGED <<meta, durable>>

\* The write fails or is short; rollbackWrite may fail to truncate.
WriteFails ==
    /\ pc = "entries" /\ todo # <<>>
    /\ \E n \in 0..Len(segs), torn \in BOOLEAN :
          /\ MayStop(Tracked, n, 1)
          /\ gone' = Newest(SubSeq(segs, 1, n))
          /\ LET ready == Ready(Without(Tracked, n), Rest(n))
             IN  /\ segs' = [ready.ss EXCEPT ![Len(ready.ss)].torn = torn]
                 /\ rec' = Failed(ready.r)
    /\ GiveUp
    /\ UNCHANGED <<meta, durable>>

\* Mutated: the checkpoint is written without syncing the records.
SyncNothing ==
    /\ pc = "entries" /\ todo = <<>>
    /\ rec' = [rec EXCEPT !.pending = FALSE]
    /\ pc' = "checkpoint"
    /\ UNCHANGED <<disk, todo, ghosts, opens>>

Sync ==
    /\ pc = "entries" /\ todo = <<>>
    /\ segs' = IF rec.file THEN SyncLast(segs) ELSE segs
    /\ rec' = [rec EXCEPT !.pending = FALSE]
    /\ pc' = "checkpoint"
    /\ UNCHANGED <<meta, durable, gone, todo, ghosts, opens>>

SyncFails ==
    /\ pc = "entries" /\ todo = <<>> /\ rec.file
    /\ rec' = Failed(rec)
    /\ GiveUp
    /\ UNCHANGED disk

\* The batch is acknowledged: its IDs follow the one in the intent.
Checkpoint ==
    /\ pc = "checkpoint"
    /\ SaveMeta(rec)
    /\ acked' = acked \cup ((meta.last + 1)..rec.last)
    /\ pc' = "idle"
    /\ UNCHANGED <<todo, truth, opens>>

CheckpointFails ==
    /\ pc = "checkpoint"
    /\ SaveFails(rec, Failed(rec))
    /\ GiveUp

(***************************************************************************)
(* Close and crash.                                                        *)
(***************************************************************************)
Close ==
    /\ pc = "idle"
    /\ LET r == [rec EXCEPT !.writer = FALSE]
       IN  SaveMeta(r) \/ SaveFails(r, r)
    /\ pc' = "closing"
    /\ UNCHANGED <<todo, ghosts, opens>>

CloseFile ==
    /\ pc = "closing"
    /\ segs' \in {segs, IF rec.file THEN SyncLast(segs) ELSE segs}
    /\ rec' = NoRecorder /\ pc' = "none"
    /\ UNCHANGED <<meta, durable, gone, todo, ghosts, opens>>

\* The first k records of a segment and, if torn, a piece of the next one.
Cut(s, k, torn) == [s EXCEPT !.recs = SubSeq(@, 1, k), !.torn = torn]

\* What a crash may leave of a segment: no less than what was synced, and nothing
\* at all when its directory entry was not.
Remains(s) ==
    {<<Cut(s, k, torn)>> : k \in s.synced..(Len(s.recs) - 1), torn \in BOOLEAN}
    \cup {<<s>>}
    \cup (IF s.torn THEN {<<[s EXCEPT !.torn = FALSE]>>} ELSE {})
    \cup (IF s.linked THEN {} ELSE {<<>>})

Settled(s) == Remains(s) = {<<s>>}

Crash ==
    LET loose == {i \in DOMAIN segs : ~Settled(segs[i])}
    IN  /\ \E left \in [loose -> UNION {Remains(segs[i]) : i \in loose}] :
              /\ \A i \in loose : left[i] \in Remains(segs[i])
              /\ segs' = FlattenSeq([i \in DOMAIN segs |->
                            IF i \in loose THEN left[i] ELSE <<segs[i]>>])
        /\ meta' \in {meta, durable}
        /\ rec' = NoRecorder /\ pc' = "none" /\ todo' = <<>>
        /\ UNCHANGED <<durable, gone, ghosts, opens>>

(***************************************************************************)
(* The system.                                                             *)
(***************************************************************************)
Init ==
    /\ meta = NoMeta /\ durable = NoMeta /\ segs = <<>>
    /\ rec = NoRecorder /\ pc = "none" /\ todo = <<>>
    /\ truth = {} /\ acked = {} /\ gone = 0 /\ opens = 0

Open == OpenScan \/ OpenMeta \/ OpenMetaFails \/ Repair \/ RepairFails

AppendBatch ==
    \/ Begin \/ Intent \/ IntentFails
    \/ WriteEntry \/ EntryRefused \/ NoRoom \/ WriteFails
    \/ Sync \/ SyncFails \/ Checkpoint \/ CheckpointFails

Next == Open \/ AppendBatch \/ Close \/ CloseFile \/ Crash

Spec == Init /\ [][Next]_vars

(***************************************************************************)
(* Properties.                                                             *)
(***************************************************************************)
\* No line of a private key is on disk unmasked, whatever batches failed, records
\* were torn, lost or evicted, and processes crashed since the key began.
SecretsAreMasked ==
    \A s \in ToSet(segs) : \A i \in DOMAIN s.recs :
        s.recs[i].secret => s.recs[i].masked

\* IDs ascend through the segments and are never given twice: a recorder that
\* accepts a batch knows of every ID on disk, and of every acknowledged one after
\* its segment was evicted and the recording was opened again.
IdsAscend ==
    /\ LET ids == FlattenSeq([i \in DOMAIN segs |->
                     [j \in DOMAIN segs[i].recs |-> segs[i].recs[j].id]])
       IN  \A i, j \in DOMAIN ids : i < j => ids[i] < ids[j]
    /\ pc \notin {"none", "closing"} =>
          \A id \in IdsOf(segs) \cup acked : id <= rec.last

\* What a recording promises of an acknowledged record: it is on disk until its
\* segment is evicted, whatever crashes (the sync before the checkpoint and the
\* sync of the directory in it), and no other record is given its ID.
AckedSurvive ==
    /\ \A id \in acked : id \in IdsOf(segs) \/ id <= gone
    /\ IdsAscend

DiskBytes == meta.bytes + Total([i \in DOMAIN segs |-> Size(segs[i])])

\* A recorder that accepts batches counts exactly the bytes on disk, session.json
\* included, and they are within the limit.
BytesAreTrue ==
    pc = "idle" /\ ~rec.pending => rec.bytes = DiskBytes /\ rec.bytes <= MaxBytes

\* When no recorder is open, a session.json that gives no reason for doubt tells
\* the open keys and the last ID exactly; a resumed recording may trust it.
CleanMetaIsExact ==
    pc = "none" /\ ~Uncertain =>
        meta.keys = truth /\ \A id \in acked : id <= meta.last

\* What session.json says is what the disk holds, at the two moments it is relied
\* on: before a batch is checked against the limit and when a recording is resumed.
CheckpointIsTrue == BytesAreTrue /\ CleanMetaIsExact
=============================================================================
