----------------------------- MODULE LogSessions -----------------------------
(***************************************************************************)
(* The directories that hold recordings (internal/view/log_recording.go)   *)
(* and the start of a recording (log_recording_start.go), as several       *)
(* processes that share a recording root prepare, record, prune and crash. *)
(*                                                                         *)
(* Processes exclude each other by advisory locks: the root's lease while  *)
(* one prunes and creates, a session's lease while it is recorded. A lock  *)
(* belongs to the file that was opened (its inode), not to the name, and   *)
(* disappears with its process; files stay. A directory is named after the *)
(* process that creates it. A call of the file system may fail anywhere,   *)
(* and a cancelled preparation gives up between any two calls: both are    *)
(* PruneFails. A session's age and its place in the list, both by time of  *)
(* modification, are free.                                                 *)
(***************************************************************************)
EXTENDS Integers, FiniteSets

CONSTANTS
    Processes,     \* cooperating processes, each of which starts one recording
    MaxSessions    \* sessions retained (8 unless configured, at most 64)

ASSUME SessionsAssumption == IsFiniteSet(Processes) /\ MaxSessions \in Nat \ {0}

Inodes == 1 .. Cardinality(Processes) + 1
NoFile == [dir |-> "none", inode |-> 0]

VARIABLES
    root,       \* who holds the root's lease
    step,         \* logRecordingStart.run and what it calls
    untried,       \* sessions a prune has still to try
    at,         \* the directory a process is removing
    seen,       \* the entries removeLogSession read of it
    file,       \* the "active" file a process has open
    locked,     \* processes that hold the lock of that file
    dirs,       \* session directories
    token,      \* those with a k9plus-owned
    records,    \* those with a recording
    active,     \* inode behind the name "active" in each, 0 for none
    cancelled,  \* logRecordingStart.ctx
    claimed,    \* logRecordingStart.claimed
    writer      \* logWriter.run

sessionVars == <<root, step, untried, at, seen, file, locked, dirs, token, records,
                 active, cancelled, claimed, writer>>
diskVars == <<dirs, token, records, active>>
leaseVars == <<file, locked>>
startVars == <<cancelled, claimed, writer>>

SessionsInit ==
    /\ root = {}
    /\ step = [p \in Processes |-> "idle"]
    /\ untried = [p \in Processes |-> {}]
    /\ at = [p \in Processes |-> p]
    /\ seen = [p \in Processes |-> {}]
    /\ file = [p \in Processes |-> NoFile]
    /\ locked = {}
    /\ dirs = {}
    /\ token = {}
    /\ records = {}
    /\ active = [d \in Processes |-> 0]
    /\ cancelled = {}
    /\ claimed = {}
    /\ writer = [p \in Processes |-> "none"]

To(p, l) == step' = [step EXCEPT ![p] = l]

-----------------------------------------------------------------------------
(* Leases.                                                                 *)

\* Opening "active" creates it where it is missing.
Opened(d) ==
    IF active[d] # 0 THEN active[d]
    ELSE CHOOSE i \in Inodes : \A q \in Processes : file[q] # [dir |-> d, inode |-> i]

OpenActive(p, d) ==
    /\ d \in dirs
    /\ active' = [active EXCEPT ![d] = Opened(d)]
    /\ file' = [file EXCEPT ![p] = [dir |-> d, inode |-> Opened(d)]]

\* Closing the file, or the end of its process, releases the lock.
Unlock(p) ==
    /\ file' = [file EXCEPT ![p] = NoFile]
    /\ locked' = locked \ {p}

-----------------------------------------------------------------------------
(* Preparing a session: prepareLogSessionOwned under the root's lease.     *)

AcquireRoot(p) ==
    /\ step[p] = "idle"
    /\ root = {}
    /\ root' = {p}
    /\ To(p, "list")
    /\ UNCHANGED <<untried, at, seen, leaseVars, diskVars, startVars>>

\* Sessions beyond the limit less one, and those past the retention, are tried.
Candidates == { s \in SUBSET token : Cardinality(token \ s) < MaxSessions }

List(p) ==
    /\ step[p] = "list"
    /\ \E s \in Candidates : untried' = [untried EXCEPT ![p] = s]
    /\ To(p, "prune")
    /\ UNCHANGED <<root, at, seen, leaseVars, diskVars, startVars>>

Visit(p) ==
    /\ step[p] = "prune"
    /\ \E d \in untried[p] :
          /\ OpenActive(p, d)
          /\ at' = [at EXCEPT ![p] = d]
          /\ untried' = [untried EXCEPT ![p] = @ \ {d}]
    /\ To(p, "lock")
    /\ UNCHANGED <<root, seen, locked, dirs, token, records, startVars>>

Busy(p) == \E q \in locked : file[q] = file[p]

\* Mutated: a busy lease is not told from a free one.
TryLeaseAnyway(p) ==
    /\ step[p] = "lock"
    /\ locked' = locked \union {p}
    /\ To(p, "children")
    /\ UNCHANGED <<root, untried, at, seen, file, diskVars, startVars>>

\* A session whose lease is held is passed over.
TryLease(p) ==
    /\ step[p] = "lock"
    /\ IF Busy(p) THEN Unlock(p) /\ To(p, "prune")
                  ELSE locked' = locked \union {p} /\ To(p, "children") /\ UNCHANGED file
    /\ UNCHANGED <<root, untried, at, seen, diskVars, startVars>>

\* removeLeasedLogSession, call by call: the lock file and the token come last.
RemoveChildren(p) ==
    /\ step[p] = "children"
    /\ at[p] \in dirs
    /\ records' = records \ {at[p]}
    /\ To(p, "unlease")
    /\ UNCHANGED <<root, untried, at, seen, leaseVars, dirs, token, active, startVars>>

CloseLease(p) ==
    /\ step[p] = "unlease"
    /\ Unlock(p)
    /\ To(p, "unlink active")
    /\ UNCHANGED <<root, untried, at, seen, diskVars, startVars>>

UnlinkActive(p) ==
    /\ step[p] = "unlink active"
    /\ active' = [active EXCEPT ![at[p]] = 0]
    /\ To(p, "unlink token")
    /\ UNCHANGED <<root, untried, at, seen, leaseVars, dirs, token, records, startVars>>

UnlinkToken(p) ==
    /\ step[p] = "unlink token"
    /\ at[p] \in token
    /\ token' = token \ {at[p]}
    /\ To(p, "unlink directory")
    /\ UNCHANGED <<root, untried, at, seen, leaseVars, dirs, records, active, startVars>>

Empty(d) == d \in dirs /\ d \notin records \union token /\ active[d] = 0

UnlinkDirectory(p) ==
    /\ step[p] = "unlink directory"
    /\ Empty(at[p])
    /\ dirs' = dirs \ {at[p]}
    /\ To(p, "prune")
    /\ UNCHANGED <<root, untried, at, seen, leaseVars, token, records, active, startVars>>

\* Mutated: the limit is looked at before what could not be pruned is counted.
CreateUnchecked(p) ==
    /\ step[p] = "prune"
    /\ untried[p] = {}
    /\ dirs' = dirs \union {p}
    /\ To(p, "reserve")
    /\ UNCHANGED <<root, untried, at, seen, leaseVars, token, records, active, startVars>>

Create(p) ==
    /\ step[p] = "prune"
    /\ untried[p] = {}
    /\ Cardinality(token) < MaxSessions
    /\ dirs' = dirs \union {p}
    /\ To(p, "reserve")
    /\ UNCHANGED <<root, untried, at, seen, leaseVars, token, records, active, startVars>>

\* Nobody looks into a directory without a token: the lease cannot be busy.
Reserve(p) ==
    /\ step[p] = "reserve"
    /\ OpenActive(p, p)
    /\ locked' = locked \union {p}
    /\ To(p, "publish")
    /\ UNCHANGED <<root, untried, at, seen, dirs, token, records, startVars>>

Publish(p) ==
    /\ step[p] = "publish"
    /\ token' = token \union {p}
    /\ To(p, "published")
    /\ UNCHANGED <<root, untried, at, seen, leaseVars, dirs, records, active, startVars>>

ReleaseRoot(p) ==
    /\ step[p] = "published"
    /\ p \notin cancelled
    /\ root' = {}
    /\ To(p, "prepared")
    /\ UNCHANGED <<untried, at, seen, leaseVars, diskVars, startVars>>

Pruning == {"list", "prune", "lock", "children", "unlease", "unlink active",
            "unlink token", "unlink directory"}

\* A failed call or the end of the context: both leases are closed on return.
PruneFails(p) ==
    /\ step[p] \in Pruning
    /\ Unlock(p)
    /\ root' = {}
    /\ To(p, "done")
    /\ UNCHANGED <<untried, at, seen, diskVars, startVars>>

\* The new session could not be finished: it is removed, the root still leased.
Abandon(p) ==
    /\ step[p] \in {"reserve", "publish", "published"}
    /\ Unlock(p)
    /\ To(p, "clean")
    /\ UNCHANGED <<root, untried, at, seen, diskVars, startVars>>

-----------------------------------------------------------------------------
(* removeLogSession of the process' own directory.                         *)

ReadOwn(p) ==
    /\ step[p] = "clean"
    /\ p \in dirs
    /\ seen' = [seen EXCEPT ![p] = (IF active[p] # 0 THEN {"active"} ELSE {})
                                   \union (IF p \in token THEN {"token"} ELSE {})]
    /\ To(p, "clean active")
    /\ UNCHANGED <<root, untried, at, leaseVars, diskVars, startVars>>

CleanActive(p) ==
    /\ step[p] = "clean active"
    /\ "active" \in seen[p] => active[p] # 0
    /\ active' = [active EXCEPT ![p] = IF "active" \in seen[p] THEN 0 ELSE @]
    /\ To(p, "clean token")
    /\ UNCHANGED <<root, untried, at, seen, leaseVars, dirs, token, records, startVars>>

CleanToken(p) ==
    /\ step[p] = "clean token"
    /\ "token" \in seen[p] => p \in token
    /\ token' = IF "token" \in seen[p] THEN token \ {p} ELSE token
    /\ To(p, "clean directory")
    /\ UNCHANGED <<root, untried, at, seen, leaseVars, dirs, records, active, startVars>>

\* The end of the removal, complete or given up at a failed call, ends the start.
Cleaned(p) ==
    /\ \/ step[p] = "clean directory" /\ Empty(p) /\ dirs' = dirs \ {p}
       \/ /\ step[p] \in {"clean", "clean active", "clean token", "clean directory"}
          /\ UNCHANGED dirs
    /\ root' = root \ {p}
    /\ To(p, "done")
    /\ UNCHANGED <<untried, at, seen, leaseVars, token, records, active, startVars>>

-----------------------------------------------------------------------------
(* The start's owner: the workbench cancels it or claims the session.      *)

Cancel(p) ==
    /\ step[p] # "idle"
    /\ p \notin cancelled
    /\ cancelled' = cancelled \union {p}
    /\ UNCHANGED <<root, step, untried, at, seen, leaseVars, diskVars, claimed, writer>>

\* claim, then newLogWriter with the lease.
Claim(p) ==
    /\ step[p] = "prepared"
    /\ p \notin cancelled
    /\ claimed' = claimed \union {p}
    /\ cancelled' = cancelled \union {p}
    /\ writer' = [writer EXCEPT ![p] = "open"]
    /\ UNCHANGED <<root, step, untried, at, seen, leaseVars, diskVars>>

\* The start's context ends: the session has a writer, or it goes.
AwaitOwner(p) ==
    /\ step[p] = "prepared"
    /\ p \in cancelled
    /\ IF p \in claimed THEN To(p, "done") /\ UNCHANGED leaseVars
                        ELSE To(p, "clean") /\ Unlock(p)
    /\ UNCHANGED <<root, untried, at, seen, diskVars, startVars>>

WriterTo(p, from, to) ==
    /\ writer[p] = from
    /\ writer' = [writer EXCEPT ![p] = to]

\* OpenRecorder creates the first files, or fails; the writer drains its queue.
OpenRecorder(p) ==
    /\ WriterTo(p, "open", "recording")
    /\ \/ p \in dirs /\ records' = records \union {p}
       \/ UNCHANGED records
    /\ UNCHANGED <<root, step, untried, at, seen, leaseVars, dirs, token, active,
                   cancelled, claimed>>

CloseRecorder(p) ==
    /\ WriterTo(p, "recording", "closed")
    /\ UNCHANGED <<root, step, untried, at, seen, leaseVars, diskVars, cancelled, claimed>>

CloseWriterLease(p) ==
    /\ WriterTo(p, "closed", "released")
    /\ Unlock(p)
    /\ UNCHANGED <<root, step, untried, at, seen, diskVars, cancelled, claimed>>

RemoveActive(p) ==
    /\ WriterTo(p, "released", "ended")
    /\ active' = [active EXCEPT ![p] = 0]
    /\ UNCHANGED <<root, step, untried, at, seen, leaseVars, dirs, token, records,
                   cancelled, claimed>>

\* The process ends without further ado: its locks go, its files stay.
ProcessEnds(p) ==
    /\ step[p] \notin {"idle", "crashed"}
    /\ Unlock(p)
    /\ root' = root \ {p}
    /\ writer' = [writer EXCEPT ![p] = "none"]
    /\ To(p, "crashed")
    /\ UNCHANGED <<untried, at, seen, diskVars, cancelled, claimed>>

SessionsNext ==
    \E p \in Processes :
        \/ AcquireRoot(p) \/ List(p) \/ Visit(p) \/ TryLease(p)
        \/ RemoveChildren(p) \/ CloseLease(p) \/ UnlinkActive(p)
        \/ UnlinkToken(p) \/ UnlinkDirectory(p) \/ Create(p) \/ Reserve(p)
        \/ Publish(p) \/ ReleaseRoot(p) \/ PruneFails(p) \/ Abandon(p)
        \/ ReadOwn(p) \/ CleanActive(p) \/ CleanToken(p) \/ Cleaned(p)
        \/ Cancel(p) \/ Claim(p) \/ AwaitOwner(p) \/ OpenRecorder(p)
        \/ CloseRecorder(p) \/ CloseWriterLease(p) \/ RemoveActive(p) \/ ProcessEnds(p)

SessionsSpec == SessionsInit /\ [][SessionsNext]_sessionVars

-----------------------------------------------------------------------------
(* Properties.                                                             *)

\* A session that is offered to its owner, or recorded, is there with its token,
\* and its lease is the lock of the file that a prune would open: no other
\* process removes what is recorded, whoever crashed or gave up before.
LiveSessionIsKept ==
    \A p \in Processes :
        \/ step[p] = "prepared" /\ p \notin cancelled
        \/ writer[p] \in {"open", "recording", "closed"}
        => /\ p \in token
           /\ p \in locked
           /\ file[p] = [dir |-> p, inode |-> active[p]]

\* The cap on sessions holds across processes, although sessions whose lease is
\* held cannot be pruned.
SessionCap == Cardinality(token) <= MaxSessions

\* A directory that holds records carries its token, so that a later prune finds
\* it after any crash, cancelled prune or abandoned removal.
RecordsStayOwned == records \subseteq token

\* Sessions on disk are never without an owner: who uses one, or who may remove it.
SessionsStayOwned == LiveSessionIsKept /\ RecordsStayOwned

\* "Keep the ownership token until every other child has been removed, so a canceled
\* prune remains identifiable on a later maintenance pass" (log_recording.go:688): the
\* token of a directory goes only when every other child has gone.
TokenGoesLast ==
    [][\A d \in token \ token' : d \notin records' /\ active'[d] = 0]_sessionVars
=============================================================================
