--------------------------- MODULE RecordingProofs ---------------------------
(***************************************************************************)
(* Proofs about LogSessions, for any number of processes that share a      *)
(* recording root and any cap on the sessions in it, and about LogWriter,  *)
(* for every limit of the queue and of a batch.                            *)
(*                                                                         *)
(* That a live session is kept is not inductive: a process that removes a  *)
(* directory closes its lease first, and goes on without it. What protects *)
(* the session is that it was not live when it was chosen, and cannot      *)
(* become live while somebody else holds the root's lease.                 *)
(*                                                                         *)
(* That a recording is a beginning of what was offered takes that every    *)
(* record offered was written, waits or was counted as refused; and what   *)
(* waits is in the order in which it was offered: what was written, the    *)
(* batch, the record in hand and the queue follow one another until a      *)
(* write fails. Its bytes are a sum over a sequence: their steps are       *)
(* proved from the sums of its beginnings.                                 *)
(***************************************************************************)
EXTENDS LogSessions, LogWriter, FiniteSetTheorems, SequenceTheorems,
        WellFoundedInduction, TLAPS

(***************************************************************************)
(* The sessions of a recording root.                                       *)
(***************************************************************************)

Locking == {"children", "unlease", "unlink active", "unlink token", "unlink directory"}
Removing == Locking \cup {"lock"}
RootSteps == Pruning \cup {"reserve", "publish", "published"}
Cleaning == {"clean", "clean active", "clean token", "clean directory"}
SessionSteps == RootSteps \cup Cleaning \cup {"idle", "prepared", "done", "crashed"}
WriterSteps == {"none", "open", "recording", "closed", "released", "ended"}

\* What a file system call may have opened: the files are Nat many, not one a process.
Files == [dir : Processes \cup {"none"}, inode : Nat]

SessionTypeOK ==
    /\ root \subseteq Processes
    /\ step \in [Processes -> SessionSteps]
    /\ untried \in [Processes -> SUBSET Processes]
    /\ at \in [Processes -> Processes]
    /\ seen \in [Processes -> SUBSET {"active", "token"}]
    /\ file \in [Processes -> Files]
    /\ locked \subseteq Processes
    /\ dirs \subseteq Processes /\ token \subseteq Processes /\ records \subseteq Processes
    /\ active \in [Processes -> Nat]
    /\ cancelled \subseteq Processes /\ claimed \subseteq Processes
    /\ writer \in [Processes -> WriterSteps]

Recording(p) == writer[p] \in {"open", "recording", "closed"}

Live(p) == (step[p] = "prepared" /\ p \notin cancelled) \/ Recording(p)

\* The process has prepared its session, or will never have one.
Settled(p) == step[p] \notin RootSteps \cup {"idle"}

\* It publishes its session, or has one that its owner uses.
Protected(p) == step[p] \in {"publish", "published"} \/ Live(p)

\* One process at a time holds the root's lease.
RootOK(p) == step[p] \in RootSteps => root = {p}

\* What a process' own session is at its step.
OwnOK(p) ==
    /\ p \in token => Settled(p) \/ step[p] = "published"
    /\ p \in claimed => step[p] \in {"prepared", "done", "crashed"} /\ p \in cancelled
    /\ writer[p] # "none" => p \in claimed
    /\ Recording(p) => step[p] \in {"prepared", "done"}
    /\ p \in records => p \in token /\ p \in claimed

\* Who has a session holds the lock of the file that is called "active".
LeaseOK(p) ==
    /\ Protected(p) =>
          p \in locked /\ active[p] # 0 /\ file[p] = [dir |-> p, inode |-> active[p]]
    /\ (step[p] = "published" \/ Live(p)) => p \in token

\* What is removed is nobody's.
PruneOK(p) ==
    /\ step[p] \in Pruning \ {"list"} => \A d \in untried[p] : Settled(d)
    /\ step[p] \in Removing => Settled(at[p])
    /\ (step[p] = "lock" /\ Live(at[p])) => file[p] = file[at[p]]
    /\ step[p] \in Locking => ~Live(at[p])
    /\ step[p] \in {"unlease", "unlink active", "unlink token"} => at[p] \notin records

ProcessOK(p) == RootOK(p) /\ OwnOK(p) /\ LeaseOK(p) /\ PruneOK(p)

CapOK ==
    /\ SessionCap
    /\ \A p \in Processes :
          step[p] \in {"reserve", "publish"} => Cardinality(token) < MaxSessions

SessionsInv == SessionTypeOK /\ CapOK /\ \A p \in Processes : ProcessOK(p)

-----------------------------------------------------------------------------
(* What one process does to the others.                                    *)

\* A step of one process neither takes a lease from another nor touches what
\* another one uses, and it does not come by a session while it is settled.
Apart(p) ==
    /\ \A r \in Processes \ {p} :
          /\ step'[r] = step[r] /\ writer'[r] = writer[r] /\ file'[r] = file[r]
          /\ untried'[r] = untried[r] /\ at'[r] = at[r]
          /\ r \in locked' <=> r \in locked
          /\ r \in cancelled' <=> r \in cancelled
          /\ r \in claimed' <=> r \in claimed
          /\ root = {r} => root' = {r}
          /\ r \in token' => r \in token
          /\ r \in records' => r \in records
          /\ Protected(r) => active'[r] = active[r] /\ (r \in token => r \in token')
          /\ r \in token \ token' => r \notin records
    /\ Settled(p) => Settled(p)'
    /\ Settled(p) /\ Live(p)' => Live(p) /\ file'[p] = file[p]
    /\ p \in records' => p \in records \/ Live(p)

\* What one process does to itself disturbs none of the others.
LEMMA OthersKept ==
    ASSUME SessionsInv, SessionTypeOK', NEW p \in Processes, Apart(p),
           NEW r \in Processes \ {p}
    PROVE  ProcessOK(r)'
  <1>1. ProcessOK(r) /\ ProcessOK(p) /\ at[r] \in Processes /\ untried[r] \subseteq Processes
    BY DEF SessionsInv, SessionTypeOK
  <1>2. /\ Settled(r)' <=> Settled(r)
        /\ Live(r)' <=> Live(r)
        /\ Recording(r)' <=> Recording(r)
        /\ Protected(r)' <=> Protected(r)
    BY DEF Apart, Settled, Live, Recording, Protected
  <1>3. RootOK(r)' /\ OwnOK(r)' /\ LeaseOK(r)'
    BY <1>1, <1>2 DEF Apart, ProcessOK, RootOK, OwnOK, LeaseOK, Protected
  <1>4. PruneOK(r)'
    <2>1. \A d \in Processes : Settled(d) =>
              /\ Settled(d)'
              /\ Live(d)' => Live(d) /\ file'[d] = file[d]
      BY DEF Apart, Settled, Live, Recording
    <2>2. \A d \in Processes : d \notin records /\ ~Live(d) => d \notin records'
      BY DEF Apart
    <2>3. /\ step'[r] = step[r] /\ file'[r] = file[r]
          /\ untried'[r] = untried[r] /\ at'[r] = at[r]
      BY DEF Apart
    <2> QED BY <1>1, <2>1, <2>2, <2>3 DEF ProcessOK, PruneOK, Locking, Removing
  <1> QED BY <1>3, <1>4 DEF ProcessOK

\* A step is safe if it is for the process that takes it and for the cap.
LEMMA StepKeeps ==
    ASSUME SessionsInv, SessionTypeOK', NEW p \in Processes, Apart(p), ProcessOK(p)', CapOK'
    PROVE  SessionsInv'
  BY OthersKept DEF SessionsInv

-----------------------------------------------------------------------------
(* The file that is opened.                                                *)

\* There are more inodes than processes that may have one open.
LEMMA SomeInodeIsFree ==
    ASSUME SessionTypeOK, NEW d
    PROVE  \E i \in Inodes : \A q \in Processes : file[q] # [dir |-> d, inode |-> i]
  <1> SUFFICES ASSUME \A i \in Inodes : \E q \in Processes : file[q] = [dir |-> d, inode |-> i]
               PROVE  FALSE
    OBVIOUS
  <1> DEFINE n == Cardinality(Processes)
             opener == [i \in Inodes |-> CHOOSE q \in Processes : file[q] = [dir |-> d, inode |-> i]]
  <1>1. IsFiniteSet(Processes) /\ n \in Nat
    BY SessionsAssumption, FS_CardinalityType
  <1>2. IsFiniteSet(Inodes) /\ Cardinality(Processes) < Cardinality(Inodes)
    BY <1>1, FS_Interval DEF Inodes
  <1>3. opener \in [Inodes -> Processes]
    OBVIOUS
  <1>4. \A i \in Inodes : file[opener[i]] = [dir |-> d, inode |-> i]
    OBVIOUS
  <1> HIDE DEF opener
  <1>5. PICK i, j \in Inodes : i # j /\ opener[i] = opener[j]
    BY <1>1, <1>2, <1>3, FS_PigeonHole
  <1>6. file[opener[i]] = [dir |-> d, inode |-> i] /\ file[opener[i]] = [dir |-> d, inode |-> j]
    BY <1>4, <1>5
  <1>7. i = j
    BY <1>6
  <1> QED BY <1>5, <1>7

\* Opening active gives an inode, and the one that is there if there is one.
LEMMA OpenedIsFile ==
    ASSUME SessionTypeOK, NEW d \in Processes
    PROVE  /\ Opened(d) \in Nat /\ Opened(d) # 0
           /\ active[d] # 0 => Opened(d) = active[d]
  <1>1. \A i \in Inodes : i \in Nat /\ i # 0
    BY SessionsAssumption, FS_CardinalityType DEF Inodes
  <1>2. CASE active[d] # 0
    BY <1>2 DEF Opened, SessionTypeOK
  <1>3. CASE active[d] = 0
    <2>1. Opened(d) \in Inodes
      BY <1>3, SomeInodeIsFree DEF Opened
    <2> QED BY <1>1, <1>3, <2>1
  <1> QED BY <1>2, <1>3

-----------------------------------------------------------------------------
(* What is known of a process at its step.                                 *)

\* Under the root's lease a process has no session yet, and the others are outside.
LEMMA UnderRoot ==
    ASSUME SessionsInv, NEW p \in Processes, step[p] \in RootSteps
    PROVE  /\ root = {p} /\ ~Settled(p) /\ writer[p] = "none" /\ ~Recording(p) /\ ~Live(p)
           /\ p \notin claimed /\ p \notin records
           /\ p \in token => step[p] = "published"
           /\ \A r \in Processes \ {p} : step[r] \notin RootSteps /\ root # {r}
  <1>1. \A r \in Processes : ProcessOK(r)
    BY DEF SessionsInv
  <1>2. root = {p} /\ \A r \in Processes \ {p} : step[r] \notin RootSteps /\ root # {r}
    BY <1>1 DEF ProcessOK, RootOK
  <1>3. /\ ~Settled(p) /\ p \notin claimed /\ p \notin records
        /\ p \in token => step[p] = "published"
    BY <1>1 DEF ProcessOK, OwnOK, Settled, RootSteps, Pruning
  <1>4. writer[p] = "none" /\ ~Recording(p)
    BY <1>1, <1>3 DEF ProcessOK, OwnOK, Recording
  <1>5. ~Live(p)
    BY <1>3, <1>4 DEF Live, RootSteps, Pruning
  <1> QED BY <1>2, <1>3, <1>4, <1>5

\* A process that cleans up was never recording.
LEMMA WhenCleaning ==
    ASSUME SessionsInv, NEW p \in Processes, step[p] \in Cleaning
    PROVE  /\ Settled(p) /\ writer[p] = "none" /\ ~Recording(p) /\ ~Live(p) /\ ~Protected(p)
           /\ p \notin claimed /\ p \notin records
  <1>1. ProcessOK(p)
    BY DEF SessionsInv
  <1>2. p \notin claimed /\ p \notin records /\ Settled(p)
    BY <1>1 DEF ProcessOK, OwnOK, Cleaning, Settled, RootSteps, Pruning
  <1>3. writer[p] = "none" /\ ~Recording(p)
    BY <1>1, <1>2 DEF ProcessOK, OwnOK, Recording
  <1> QED BY <1>2, <1>3 DEF Live, Protected, Cleaning

\* The step of one process moves its own variables.
Alone(p) ==
    \A r \in Processes \ {p} :
        /\ step'[r] = step[r] /\ file'[r] = file[r]
        /\ untried'[r] = untried[r] /\ at'[r] = at[r]
        /\ r \in locked' <=> r \in locked

\* It takes nothing away from a protected session, nor the token from records.
Spares(p) ==
    /\ token' \subseteq token /\ records' \subseteq records
    /\ \A r \in Processes \ {p} :
          /\ Protected(r) => active'[r] = active[r] /\ (r \in token => r \in token')
          /\ r \in token \ token' => r \notin records

\* No session is added, and nobody comes to the place where one is.
LEMMA CapKept ==
    ASSUME SessionTypeOK, CapOK, token' \subseteq token,
           \A r \in Processes : step'[r] \in {"reserve", "publish"} =>
              \E q \in Processes : step[q] \in {"reserve", "publish"}
    PROVE  CapOK'
  <1>1. IsFiniteSet(token)
    BY SessionsAssumption, FS_Subset DEF SessionTypeOK
  <1>2. Cardinality(token') <= Cardinality(token)
    BY <1>1, FS_Subset
  <1>3. Cardinality(token) \in Nat /\ Cardinality(token') \in Nat
    BY <1>1, FS_Subset, FS_CardinalityType
  <1> QED BY <1>2, <1>3, SessionsAssumption DEF CapOK, SessionCap

-----------------------------------------------------------------------------
(* Pruning.                                                                *)

\* A step of pruning keeps the invariant if it spares what the others rely on.
LEMMA PruneKeeps ==
    ASSUME SessionsInv, SessionTypeOK', NEW p \in Processes,
           step[p] \in Pruning, step'[p] \in Pruning, Alone(p), Spares(p),
           UNCHANGED <<root, writer, cancelled, claimed>>, PruneOK(p)'
    PROVE  SessionsInv'
  <1>1. /\ root = {p} /\ ~Settled(p) /\ writer[p] = "none" /\ p \notin claimed
        /\ p \notin records /\ p \notin token
        /\ \A r \in Processes \ {p} : step[r] \notin RootSteps /\ root # {r}
    BY UnderRoot DEF RootSteps, Pruning
  <1>2. Apart(p)
    BY <1>1 DEF Apart, Alone, Spares
  <1>3. ProcessOK(p)'
    <2>1. RootOK(p)'
      BY <1>1 DEF RootOK
    <2>2. OwnOK(p)'
      BY <1>1 DEF OwnOK, Spares, Recording
    <2>3. LeaseOK(p)'
      BY <1>1 DEF LeaseOK, Protected, Live, Recording, Pruning
    <2> QED BY <2>1, <2>2, <2>3 DEF ProcessOK
  <1>4. CapOK'
    <2>1. \A r \in Processes : step'[r] \notin {"reserve", "publish"}
      BY <1>1 DEF Alone, RootSteps, Pruning
    <2> QED BY <2>1, CapKept DEF SessionsInv, Spares
  <1> QED BY <1>2, <1>3, <1>4, StepKeeps

\* What is listed, or being removed, is settled, and of somebody else.
LEMMA Listed ==
    ASSUME SessionsInv, NEW p \in Processes, step[p] \in Pruning \ {"list"}
    PROVE  /\ \A e \in untried[p] : Settled(e) /\ e # p /\ e \in Processes
           /\ at[p] \in Processes
           /\ step[p] \in Removing => Settled(at[p]) /\ at[p] # p
           /\ (step[p] = "lock" /\ Live(at[p])) => file[p] = file[at[p]]
           /\ step[p] \in Locking => ~Live(at[p])
           /\ step[p] \in {"unlease", "unlink active", "unlink token"} => at[p] \notin records
  <1>1. ~Settled(p)
    BY UnderRoot DEF RootSteps
  <1>2. PruneOK(p)
    BY DEF SessionsInv, ProcessOK
  <1>3. at[p] \in Processes /\ untried[p] \subseteq Processes
    BY DEF SessionsInv, SessionTypeOK
  <1> QED BY <1>1, <1>2, <1>3 DEF PruneOK

\* The active file of one directory comes or goes; those of the others stay.
LEMMA ActiveType ==
    ASSUME active \in [Processes -> Nat], NEW d \in Processes, NEW i \in {0, active[d]},
           active' = [active EXCEPT ![d] = i]
    PROVE  /\ active' \in [Processes -> Nat]
           /\ \A r \in Processes \ {d} : active'[r] = active[r]
  OBVIOUS

\* Having nothing open is a value of the open file.
LEMMA NoFileType == NoFile \in Files
  BY DEF NoFile, Files

\* The directory is listed.
LEMMA ListStep ==
    ASSUME SessionsInv, NEW p \in Processes, List(p)
    PROVE  SessionsInv'
  <1>1. PICK s \in SUBSET token : untried' = [untried EXCEPT ![p] = s]
    BY DEF List, Candidates
  <1> USE DEF List, To, leaseVars, diskVars, startVars
  <1>2. SessionTypeOK'
    BY <1>1 DEF SessionsInv, SessionTypeOK, SessionSteps, RootSteps, Pruning
  <1>3. step[p] \in Pruning /\ step'[p] = "prune" /\ untried'[p] = s
    BY <1>1 DEF SessionsInv, SessionTypeOK, Pruning
  <1>4. Alone(p) /\ Spares(p)
    BY <1>1 DEF SessionsInv, SessionTypeOK, Alone, Spares
  <1>5. PruneOK(p)'
    <2>1. \A d \in s : Settled(d)
      <3>1. p \notin token
        BY <1>3, UnderRoot DEF RootSteps, Pruning
      <3>2. \A d \in token : step[d] # "published"
        BY <1>3, <3>1, UnderRoot DEF RootSteps, SessionsInv, SessionTypeOK
      <3> QED BY <3>2 DEF SessionsInv, SessionTypeOK, ProcessOK, OwnOK
    <2>2. \A d \in s : d # p /\ step'[d] = step[d]
      BY <2>1, <1>3, <1>4 DEF Settled, RootSteps, Alone, SessionsInv, SessionTypeOK
    <2> QED BY <1>3, <2>1, <2>2 DEF PruneOK, Settled, Removing, Locking
  <1> QED BY <1>2, <1>3, <1>4, <1>5, PruneKeeps DEF Pruning

\* A candidate is taken from the listing, and its active file opened.
LEMMA VisitStep ==
    ASSUME SessionsInv, NEW p \in Processes, Visit(p)
    PROVE  SessionsInv'
  <1> USE DEF Visit, OpenActive, To, startVars
  <1>1. PICK d \in untried[p] :
           /\ active' = [active EXCEPT ![d] = Opened(d)]
           /\ file' = [file EXCEPT ![p] = [dir |-> d, inode |-> Opened(d)]]
           /\ at' = [at EXCEPT ![p] = d]
           /\ untried' = [untried EXCEPT ![p] = @ \ {d}]
    OBVIOUS
  <1>2. d \in Processes /\ Opened(d) \in Nat /\ (active[d] # 0 => Opened(d) = active[d])
    BY OpenedIsFile DEF SessionsInv, SessionTypeOK
  <1>3. SessionTypeOK'
    <2>1. [dir |-> d, inode |-> Opened(d)] \in Files
      BY <1>2 DEF Files
    <2> QED BY <1>1, <1>2, <2>1 DEF SessionsInv, SessionTypeOK, SessionSteps, RootSteps, Pruning
  <1>4. /\ step[p] = "prune" /\ step'[p] = "lock" /\ at'[p] = d
        /\ file'[p] = [dir |-> d, inode |-> Opened(d)] /\ untried'[p] \subseteq untried[p]
    BY <1>1 DEF SessionsInv, SessionTypeOK
  <1>5. Alone(p) /\ Spares(p)
    <2>1. Alone(p)
      BY <1>1 DEF SessionsInv, SessionTypeOK, Alone
    <2>2. \A r \in Processes : Protected(r) => active'[r] = active[r]
      BY <1>1, <1>2 DEF SessionsInv, SessionTypeOK, ProcessOK, LeaseOK
    <2> QED BY <2>1, <2>2 DEF Spares
  <1>6. \A e \in untried[p] : Settled(e) /\ e # p /\ e \in Processes
    BY <1>4, Listed DEF Pruning
  <1>7. \A e \in untried[p] : Settled(e)' /\ (Live(e)' => Live(e)) /\ file'[e] = file[e]
    BY <1>5, <1>6 DEF Alone, Settled, Live, Recording
  <1>8. PruneOK(p)'
    <2>1. Live(d) => file[d] = [dir |-> d, inode |-> active[d]] /\ active[d] # 0
      BY <1>2 DEF SessionsInv, ProcessOK, LeaseOK, Protected
    <2> QED BY <1>1, <1>2, <1>4, <1>6, <1>7, <2>1 DEF PruneOK, Removing, Locking
  <1> QED BY <1>3, <1>4, <1>5, <1>8, PruneKeeps DEF Pruning

\* The lock of the opened file is tried for.
LEMMA TryLeaseStep ==
    ASSUME SessionsInv, NEW p \in Processes, TryLease(p)
    PROVE  SessionsInv'
  <1> USE DEF TryLease, Unlock, To, diskVars, startVars
  <1>1. /\ step[p] = "lock"
        /\ \/ /\ step' = [step EXCEPT ![p] = "prune"] /\ locked' = locked \ {p}
              /\ file' = [file EXCEPT ![p] = NoFile]
           \/ /\ step' = [step EXCEPT ![p] = "children"] /\ locked' = locked \union {p}
              /\ file' = file /\ ~Busy(p)
    OBVIOUS
  <1>2. SessionTypeOK'
    <2>1. file' \in [Processes -> Files]
      BY <1>1, NoFileType DEF SessionsInv, SessionTypeOK
    <2>2. step' \in [Processes -> SessionSteps]
      BY <1>1 DEF SessionsInv, SessionTypeOK, SessionSteps, RootSteps, Pruning, Cleaning
    <2> QED BY <1>1, <2>1, <2>2 DEF SessionsInv, SessionTypeOK
  <1>3. Alone(p) /\ Spares(p)
    BY <1>1 DEF SessionsInv, SessionTypeOK, Alone, Spares
  <1>4. /\ Settled(at[p]) /\ at[p] # p /\ at[p] \in Processes
        /\ \A e \in untried[p] : Settled(e) /\ e # p /\ e \in Processes
        /\ Live(at[p]) => file[p] = file[at[p]]
    BY <1>1, Listed DEF Pruning, Removing
  <1>5. \A e \in Processes \ {p} : (Settled(e)' <=> Settled(e)) /\ (Live(e)' <=> Live(e))
    BY <1>3 DEF Alone, Settled, Live, Recording
  <1>6. ~Busy(p) => ~Live(at[p])
    BY <1>4 DEF Busy, SessionsInv, ProcessOK, LeaseOK, Protected
  <1>7. PruneOK(p)'
    <2>1. step'[p] = "prune" \/ (step'[p] = "children" /\ ~Live(at[p]))
      BY <1>1, <1>6 DEF SessionsInv, SessionTypeOK
    <2> QED BY <1>4, <1>5, <2>1 DEF PruneOK, Removing, Locking
  <1>8. step'[p] \in Pruning
    BY <1>1 DEF SessionsInv, SessionTypeOK, Pruning
  <1> QED BY <1>1, <1>2, <1>3, <1>7, <1>8, PruneKeeps DEF Pruning

\* removeLeasedLogSession: what it removes is nobody's.
LEMMA RemoveStep ==
    ASSUME SessionsInv, NEW p \in Processes,
           \/ RemoveChildren(p) \/ CloseLease(p) \/ UnlinkActive(p)
           \/ UnlinkToken(p) \/ UnlinkDirectory(p)
    PROVE  SessionsInv'
  <1> USE DEF RemoveChildren, CloseLease, UnlinkActive, UnlinkToken, UnlinkDirectory,
              Unlock, To, leaseVars, diskVars, startVars
  <1>1. /\ step[p] \in Locking /\ step'[p] \in Locking \cup {"prune"}
        /\ step'[p] \in {"unlease", "unlink active", "unlink token"} =>
              \/ step[p] \in {"unlease", "unlink active"}
              \/ at[p] \notin records'
    BY DEF SessionsInv, SessionTypeOK, Locking
  <1>2. SessionTypeOK'
    <2>1. file' \in [Processes -> Files]
      BY NoFileType DEF SessionsInv, SessionTypeOK
    <2>2. step' \in [Processes -> SessionSteps]
      BY DEF SessionsInv, SessionTypeOK, SessionSteps, RootSteps, Pruning, Cleaning
    <2>3. /\ locked' \subseteq Processes /\ dirs' \subseteq Processes
          /\ token' \subseteq Processes /\ records' \subseteq Processes
      BY DEF SessionsInv, SessionTypeOK
    <2>4. active' \in [Processes -> Nat]
      <3>1. active' = active \/ active' = [active EXCEPT ![at[p]] = 0]
        OBVIOUS
      <3> QED BY <3>1, ActiveType DEF SessionsInv, SessionTypeOK
    <2>5. UNCHANGED <<root, untried, at, seen, cancelled, claimed, writer>>
      OBVIOUS
    <2> QED BY <2>1, <2>2, <2>3, <2>4, <2>5 DEF SessionsInv, SessionTypeOK
  <1>3. /\ Settled(at[p]) /\ at[p] # p /\ at[p] \in Processes /\ ~Live(at[p])
        /\ step[p] \in {"unlease", "unlink active", "unlink token"} => at[p] \notin records
        /\ \A e \in untried[p] : Settled(e) /\ e # p /\ e \in Processes
    BY <1>1, Listed DEF Pruning, Removing, Locking
  <1>4. Alone(p)
    BY DEF SessionsInv, SessionTypeOK, Alone
  <1>5. Spares(p)
    <2>1. ~Protected(at[p])
      BY <1>3 DEF Protected, Settled, RootSteps
    <2>2. /\ \A r \in Processes : active'[r] = active[r] \/ r = at[p]
          /\ token' = token \/ (token' = token \ {at[p]} /\ at[p] \notin records)
          /\ records' = records \/ records' = records \ {at[p]}
      BY <1>3 DEF SessionsInv, SessionTypeOK
    <2> QED BY <2>1, <2>2 DEF Spares
  <1>6. \A e \in Processes \ {p} : (Settled(e)' <=> Settled(e)) /\ (Live(e)' <=> Live(e))
    BY <1>4 DEF Alone, Settled, Live, Recording
  <1>7. PruneOK(p)'
    <2>1. UNCHANGED <<at, untried>> /\ records' \subseteq records
      OBVIOUS
    <2> QED BY <1>1, <1>3, <1>6, <2>1 DEF PruneOK, Removing, Locking
  <1> QED BY <1>1, <1>2, <1>4, <1>5, <1>7, PruneKeeps DEF Pruning, Locking

-----------------------------------------------------------------------------
(* Preparing under the root's lease.                                       *)

\* The root's lease is taken.
LEMMA AcquireRootStep ==
    ASSUME SessionsInv, NEW p \in Processes, AcquireRoot(p)
    PROVE  SessionsInv'
  <1> USE DEF AcquireRoot, To, leaseVars, diskVars, startVars
  <1>1. SessionTypeOK'
    BY DEF SessionsInv, SessionTypeOK, SessionSteps, RootSteps, Pruning
  <1>2. /\ p \notin token /\ p \notin claimed /\ p \notin records /\ writer[p] = "none"
        /\ ~Settled(p) /\ step'[p] = "list"
        /\ \A r \in Processes : step[r] \notin RootSteps
    BY DEF SessionsInv, SessionTypeOK, ProcessOK, RootOK, OwnOK, Settled
  <1>3. Apart(p)
    BY <1>2 DEF SessionsInv, SessionTypeOK, Apart
  <1>4. ProcessOK(p)'
    BY <1>2 DEF ProcessOK, RootOK, OwnOK, LeaseOK, PruneOK, Recording, Live, Protected,
                Removing, Locking
  <1>5. CapOK'
    <2>1. \A r \in Processes : step'[r] \in {"reserve", "publish"} => step[r] = step'[r]
      BY DEF SessionsInv, SessionTypeOK
    <2> QED BY <2>1, CapKept DEF SessionsInv
  <1> QED BY <1>1, <1>3, <1>4, <1>5, StepKeeps

\* The directory of the session is created.
LEMMA CreateStep ==
    ASSUME SessionsInv, NEW p \in Processes, Create(p)
    PROVE  SessionsInv'
  <1> USE DEF Create, To, leaseVars, startVars
  <1>1. SessionTypeOK'
    BY DEF SessionsInv, SessionTypeOK, SessionSteps, RootSteps, Pruning
  <1>2. step[p] = "prune" /\ step'[p] = "reserve"
    BY DEF SessionsInv, SessionTypeOK
  <1>3. /\ root = {p} /\ ~Settled(p) /\ writer[p] = "none" /\ p \notin claimed
        /\ p \notin records /\ p \notin token
        /\ \A r \in Processes \ {p} : step[r] \notin RootSteps /\ root # {r}
    BY <1>2, UnderRoot DEF RootSteps, Pruning
  <1>4. Apart(p)
    BY <1>3 DEF SessionsInv, SessionTypeOK, Apart
  <1>5. ProcessOK(p)'
    BY <1>2, <1>3 DEF ProcessOK, RootOK, OwnOK, LeaseOK, PruneOK, Recording, Live, Protected,
                      Removing, Locking, Pruning
  <1>6. CapOK'
    BY DEF SessionsInv, SessionTypeOK, CapOK, SessionCap
  <1> QED BY <1>1, <1>4, <1>5, <1>6, StepKeeps

\* The active file of the session is opened and locked.
LEMMA ReserveStep ==
    ASSUME SessionsInv, NEW p \in Processes, Reserve(p)
    PROVE  SessionsInv'
  <1> USE DEF Reserve, OpenActive, To, startVars
  <1>1. Opened(p) \in Nat /\ Opened(p) # 0
    BY OpenedIsFile DEF SessionsInv
  <1>2. SessionTypeOK'
    <2>1. [dir |-> p, inode |-> Opened(p)] \in Files
      BY <1>1 DEF Files
    <2> QED BY <1>1, <2>1 DEF SessionsInv, SessionTypeOK, SessionSteps, RootSteps, Pruning
  <1>3. /\ step[p] = "reserve" /\ step'[p] = "publish" /\ p \in locked'
        /\ active'[p] = Opened(p) /\ file'[p] = [dir |-> p, inode |-> Opened(p)]
    BY DEF SessionsInv, SessionTypeOK
  <1>4. /\ root = {p} /\ ~Settled(p) /\ writer[p] = "none" /\ p \notin claimed
        /\ p \notin records /\ p \notin token
        /\ \A r \in Processes \ {p} : step[r] \notin RootSteps /\ root # {r}
    BY <1>3, UnderRoot DEF RootSteps
  <1>5. Apart(p)
    BY <1>4 DEF SessionsInv, SessionTypeOK, Apart
  <1>6. ProcessOK(p)'
    BY <1>1, <1>3, <1>4 DEF ProcessOK, RootOK, OwnOK, LeaseOK, PruneOK, Recording, Live,
                            Protected, Removing, Locking, Pruning
  <1>7. CapOK'
    <2>1. \A r \in Processes : step'[r] \in {"reserve", "publish"} =>
              \E q \in Processes : step[q] \in {"reserve", "publish"}
      BY <1>3
    <2> QED BY <2>1, CapKept DEF SessionsInv
  <1> QED BY <1>2, <1>5, <1>6, <1>7, StepKeeps

\* The token is written: from now on the session can be listed.
LEMMA PublishStep ==
    ASSUME SessionsInv, NEW p \in Processes, Publish(p)
    PROVE  SessionsInv'
  <1> USE DEF Publish, To, leaseVars, startVars
  <1>1. SessionTypeOK'
    BY DEF SessionsInv, SessionTypeOK, SessionSteps, RootSteps, Pruning
  <1>2. step[p] = "publish" /\ step'[p] = "published" /\ token' = token \union {p}
    BY DEF SessionsInv, SessionTypeOK
  <1>3. /\ root = {p} /\ ~Settled(p) /\ writer[p] = "none" /\ p \notin claimed /\ p \notin records
        /\ \A r \in Processes \ {p} : step[r] \notin RootSteps /\ root # {r}
    BY <1>2, UnderRoot DEF RootSteps
  <1>4. Apart(p)
    BY <1>3 DEF SessionsInv, SessionTypeOK, Apart
  <1>5. ProcessOK(p)'
    <2>1. p \in locked /\ active[p] # 0 /\ file[p] = [dir |-> p, inode |-> active[p]]
      BY <1>2 DEF SessionsInv, ProcessOK, LeaseOK, Protected
    <2> QED BY <1>2, <1>3, <2>1 DEF ProcessOK, RootOK, OwnOK, LeaseOK, PruneOK, Recording,
                                    Live, Protected, Removing, Locking, Pruning
  <1>6. CapOK'
    <2>1. IsFiniteSet(token) /\ Cardinality(token) \in Nat
      BY SessionsAssumption, FS_Subset, FS_CardinalityType DEF SessionsInv, SessionTypeOK
    <2>2. Cardinality(token \union {p}) \in {Cardinality(token), Cardinality(token) + 1}
      BY <2>1, FS_AddElement
    <2>3. Cardinality(token') \in {Cardinality(token), Cardinality(token) + 1}
      BY <1>2, <2>2
    <2>4. Cardinality(token) < MaxSessions
      BY <1>2 DEF SessionsInv, CapOK
    <2>5. \A r \in Processes : step'[r] \notin {"reserve", "publish"}
      BY <1>2, <1>3 DEF RootSteps, SessionsInv, SessionTypeOK
    <2> QED BY <2>1, <2>2, <2>3, <2>4, <2>5, SessionsAssumption DEF CapOK, SessionCap
  <1> QED BY <1>1, <1>4, <1>5, <1>6, StepKeeps

\* The root's lease is let go.
LEMMA ReleaseRootStep ==
    ASSUME SessionsInv, NEW p \in Processes, ReleaseRoot(p)
    PROVE  SessionsInv'
  <1> USE DEF ReleaseRoot, To, leaseVars, diskVars, startVars
  <1>1. SessionTypeOK'
    BY DEF SessionsInv, SessionTypeOK, SessionSteps
  <1>2. step[p] = "published" /\ step'[p] = "prepared"
    BY DEF SessionsInv, SessionTypeOK
  <1>3. /\ ~Settled(p) /\ writer[p] = "none" /\ p \notin claimed /\ p \notin records
        /\ \A r \in Processes \ {p} : step[r] \notin RootSteps /\ root # {r}
    BY <1>2, UnderRoot DEF RootSteps
  <1>4. Apart(p)
    BY <1>3 DEF SessionsInv, SessionTypeOK, Apart
  <1>5. ProcessOK(p)'
    <2>1. /\ p \in locked /\ active[p] # 0 /\ file[p] = [dir |-> p, inode |-> active[p]]
          /\ p \in token
      BY <1>2 DEF SessionsInv, ProcessOK, LeaseOK, Protected
    <2> QED BY <1>2, <1>3, <2>1 DEF ProcessOK, RootOK, OwnOK, LeaseOK, PruneOK, Recording,
                   Live, Protected, Removing, Locking, Pruning, Settled, RootSteps
  <1>6. CapOK'
    <2>1. \A r \in Processes : step'[r] \notin {"reserve", "publish"}
      BY <1>2, <1>3 DEF RootSteps, SessionsInv, SessionTypeOK
    <2> QED BY <2>1, CapKept DEF SessionsInv
  <1> QED BY <1>1, <1>4, <1>5, <1>6, StepKeeps

\* Preparing is given up: with nothing left to remove, or with a directory.
LEMMA GiveUpStep ==
    ASSUME SessionsInv, NEW p \in Processes, PruneFails(p) \/ Abandon(p)
    PROVE  SessionsInv'
  <1> USE DEF PruneFails, Abandon, Unlock, To, diskVars, startVars
  <1>1. SessionTypeOK'
    <2>1. file' \in [Processes -> Files]
      BY NoFileType DEF SessionsInv, SessionTypeOK
    <2>2. step' \in [Processes -> SessionSteps]
      BY DEF SessionsInv, SessionTypeOK, SessionSteps, RootSteps, Pruning, Cleaning
    <2> QED BY <2>1, <2>2 DEF SessionsInv, SessionTypeOK
  <1>2. step[p] \in RootSteps /\ step'[p] \in {"done", "clean"}
    BY DEF SessionsInv, SessionTypeOK, RootSteps
  <1>3. /\ ~Settled(p) /\ writer[p] = "none" /\ p \notin claimed /\ p \notin records
        /\ \A r \in Processes \ {p} : step[r] \notin RootSteps /\ root # {r}
    BY <1>2, UnderRoot
  <1>4. Apart(p)
    BY <1>3 DEF SessionsInv, SessionTypeOK, Apart
  <1>5. ProcessOK(p)'
    BY <1>2, <1>3 DEF ProcessOK, RootOK, OwnOK, LeaseOK, PruneOK, Recording,
                   Live, Protected, Removing, Locking, Pruning, Settled, RootSteps
  <1>6. CapOK'
    <2>1. \A r \in Processes : step'[r] \notin {"reserve", "publish"}
      BY <1>2, <1>3 DEF RootSteps, SessionsInv, SessionTypeOK
    <2> QED BY <2>1, CapKept DEF SessionsInv
  <1> QED BY <1>1, <1>4, <1>5, <1>6, StepKeeps

-----------------------------------------------------------------------------
(* The end of a start, and the owner of the session.                       *)

\* removeLogSession of a session that was never recorded.
LEMMA CleanStep ==
    ASSUME SessionsInv, NEW p \in Processes,
           ReadOwn(p) \/ CleanActive(p) \/ CleanToken(p) \/ Cleaned(p)
    PROVE  SessionsInv'
  <1> USE DEF ReadOwn, CleanActive, CleanToken, Cleaned, To, leaseVars, diskVars, startVars
  <1>1. SessionTypeOK'
    <2>1. step' \in [Processes -> SessionSteps]
      BY DEF SessionsInv, SessionTypeOK, SessionSteps, Cleaning
    <2>2. seen' \in [Processes -> SUBSET {"active", "token"}]
      <3>1. seen \in [Processes -> SUBSET {"active", "token"}]
        BY DEF SessionsInv, SessionTypeOK
      <3>2. CASE seen' = seen
        BY <3>1, <3>2
      <3>3. CASE \E s \in SUBSET {"active", "token"} : seen' = [seen EXCEPT ![p] = s]
        BY <3>1, <3>3
      <3> QED BY <3>2, <3>3
    <2>3. active' \in [Processes -> Nat]
      <3>1. active' = active \/ \E i \in {0, active[p]} : active' = [active EXCEPT ![p] = i]
        OBVIOUS
      <3> QED BY <3>1, ActiveType DEF SessionsInv, SessionTypeOK
    <2>4. root' \subseteq Processes /\ dirs' \subseteq Processes /\ token' \subseteq Processes
      BY DEF SessionsInv, SessionTypeOK
    <2>5. UNCHANGED <<untried, at, file, locked, records, cancelled, claimed, writer>>
      OBVIOUS
    <2> QED BY <2>1, <2>2, <2>3, <2>4, <2>5 DEF SessionsInv, SessionTypeOK
  <1>2. /\ step[p] \in Cleaning /\ step'[p] \in Cleaning \cup {"done"}
        /\ token' = token \/ token' = token \ {p}
        /\ \A r \in Processes \ {p} : active'[r] = active[r] /\ step'[r] = step[r]
        /\ root' = root \/ root' = root \ {p}
    <2>1. step[p] \in Cleaning /\ step'[p] \in Cleaning \cup {"done"}
      <3>1. step[p] \in Cleaning
        BY DEF Cleaning
      <3>2. \E l \in Cleaning \cup {"done"} : step' = [step EXCEPT ![p] = l]
        BY DEF Cleaning
      <3>3. step \in [Processes -> SessionSteps]
        BY DEF SessionsInv, SessionTypeOK
      <3> QED BY <3>1, <3>2, <3>3
    <2>2. /\ token' = token \/ token' = token \ {p}
          /\ root' = root \/ root' = root \ {p}
      OBVIOUS
    <2>3. \A r \in Processes \ {p} : active'[r] = active[r] /\ step'[r] = step[r]
      <3>1. \A r \in Processes \ {p} : step'[r] = step[r]
        BY DEF SessionsInv, SessionTypeOK
      <3>2. active' = active \/ \E i \in {0, active[p]} : active' = [active EXCEPT ![p] = i]
        OBVIOUS
      <3> QED BY <3>1, <3>2, ActiveType DEF SessionsInv, SessionTypeOK
    <2> QED BY <2>1, <2>2, <2>3
  <1>3. Settled(p) /\ writer[p] = "none" /\ ~Recording(p) /\ ~Live(p) /\ p \notin claimed /\ p \notin records
    BY <1>2, WhenCleaning
  <1>4. /\ Settled(p)' /\ ~Live(p)' /\ ~Recording(p)' /\ ~Protected(p)'
        /\ step'[p] \notin RootSteps
    BY <1>2, <1>3 DEF Settled, Live, Recording, Protected, Cleaning, RootSteps, Pruning
  <1>5. Apart(p)
    BY <1>2, <1>3, <1>4 DEF Apart
  <1>6. ProcessOK(p)'
    BY <1>2, <1>3, <1>4 DEF ProcessOK, RootOK, OwnOK, LeaseOK, PruneOK, RootSteps,
                            Pruning, Removing, Locking, Cleaning, Live
  <1>7. CapOK'
    <2>1. \A r \in Processes : step'[r] \in {"reserve", "publish"} => step[r] = step'[r]
      BY <1>2 DEF Cleaning
    <2> QED BY <1>2, <2>1, CapKept DEF SessionsInv
  <1> QED BY <1>1, <1>5, <1>6, <1>7, StepKeeps

\* A start is cancelled.
LEMMA CancelStep ==
    ASSUME SessionsInv, NEW p \in Processes, Cancel(p)
    PROVE  SessionsInv'
  <1> USE DEF Cancel, leaseVars, diskVars
  <1>1. SessionTypeOK'
    BY DEF SessionsInv, SessionTypeOK
  <1>2. ProcessOK(p)
    BY DEF SessionsInv
  <1>3. Apart(p)
    BY DEF Apart, Settled, Live, Recording
  <1>4. \A r \in Processes : Live(r)' => Live(r)
    BY DEF Live, Recording
  <1>5. ProcessOK(p)'
    <2>1. RootOK(p)' /\ OwnOK(p)' /\ LeaseOK(p)'
      BY <1>2, <1>4 DEF ProcessOK, RootOK, OwnOK, LeaseOK, Protected, Settled, Recording
    <2>2. PruneOK(p)'
      BY <1>2, <1>4 DEF ProcessOK, PruneOK, Settled, SessionsInv, SessionTypeOK,
                        Removing, Locking
    <2> QED BY <2>1, <2>2 DEF ProcessOK
  <1>6. CapOK'
    BY DEF SessionsInv, CapOK, SessionCap
  <1> QED BY <1>1, <1>3, <1>5, <1>6, StepKeeps

\* The owner takes the session over, and its writer goes on, step by step.
LEMMA OwnerStep ==
    ASSUME SessionsInv, NEW p \in Processes,
           \/ Claim(p) \/ OpenRecorder(p) \/ CloseRecorder(p)
           \/ CloseWriterLease(p) \/ RemoveActive(p)
    PROVE  SessionsInv'
  <1> USE DEF Claim, OpenRecorder, CloseRecorder, CloseWriterLease, RemoveActive, WriterTo,
              Unlock, leaseVars, diskVars
  <1>1. ProcessOK(p)
    BY DEF SessionsInv
  <1>2. SessionTypeOK'
    <2>1. writer' \in [Processes -> WriterSteps] /\ active' \in [Processes -> Nat]
      BY DEF SessionsInv, SessionTypeOK, WriterSteps
    <2>2. file' \in [Processes -> Files]
      BY NoFileType DEF SessionsInv, SessionTypeOK
    <2>3. /\ locked' \subseteq Processes /\ records' \subseteq Processes
          /\ cancelled' \subseteq Processes /\ claimed' \subseteq Processes
      BY DEF SessionsInv, SessionTypeOK
    <2>4. UNCHANGED <<root, step, untried, at, seen, dirs, token>>
      OBVIOUS
    <2> QED BY <2>1, <2>2, <2>3, <2>4 DEF SessionsInv, SessionTypeOK
  <1>3. /\ Live(p)' => Live(p) /\ file' = file /\ locked' = locked /\ active' = active
        /\ p \in records' => p \in records \/ Live(p)
        /\ p \in claimed' => p \in claimed \/ (step[p] = "prepared" /\ p \in cancelled')
        /\ Recording(p)' => p \in claimed'
        /\ ~Recording(p)' => step[p] # "prepared" \/ p \in cancelled'
    BY <1>1 DEF SessionsInv, SessionTypeOK, ProcessOK, OwnOK, Live, Recording
  <1>4. /\ \A r \in Processes \ {p} : writer'[r] = writer[r] /\ file'[r] = file[r]
              /\ active'[r] = active[r]
              /\ (r \in locked' <=> r \in locked) /\ (r \in cancelled' <=> r \in cancelled)
              /\ (r \in claimed' <=> r \in claimed) /\ (r \in records' => r \in records)
        /\ UNCHANGED <<root, step, untried, at, seen, dirs, token>>
    BY DEF SessionsInv, SessionTypeOK
  <1>5. Apart(p)
    BY <1>3, <1>4 DEF Apart, Settled
  <1>6. step[p] \notin RootSteps /\ step[p] # "idle"
    BY <1>1 DEF SessionsInv, SessionTypeOK, ProcessOK, OwnOK, RootSteps, Pruning, Recording
  <1>7. ProcessOK(p)'
    BY <1>1, <1>3, <1>4, <1>6
       DEF ProcessOK, RootOK, OwnOK, LeaseOK, PruneOK, Protected, Settled, RootSteps,
           Removing, Locking, Pruning, Live, Recording
  <1>8. CapOK'
    BY <1>4 DEF SessionsInv, CapOK, SessionCap
  <1> QED BY <1>2, <1>5, <1>7, <1>8, StepKeeps

\* A start whose context has ended without an owner, and the end of a process.
LEMMA LeaveStep ==
    ASSUME SessionsInv, NEW p \in Processes, AwaitOwner(p) \/ ProcessEnds(p)
    PROVE  SessionsInv'
  <1> USE DEF AwaitOwner, ProcessEnds, Unlock, To, leaseVars, diskVars, startVars
  <1>1. ProcessOK(p)
    BY DEF SessionsInv
  <1>2. SessionTypeOK'
    <2>1. file' \in [Processes -> Files] /\ locked' \subseteq Processes
      BY NoFileType DEF SessionsInv, SessionTypeOK
    <2>2. step' \in [Processes -> SessionSteps]
      BY DEF SessionsInv, SessionTypeOK, SessionSteps, Cleaning
    <2>3. writer' \in [Processes -> WriterSteps] /\ root' \subseteq Processes
      BY DEF SessionsInv, SessionTypeOK, WriterSteps
    <2>4. UNCHANGED <<untried, at, seen, dirs, token, records, active, cancelled, claimed>>
      OBVIOUS
    <2> QED BY <2>1, <2>2, <2>3, <2>4 DEF SessionsInv, SessionTypeOK
  <1>3. /\ \A r \in Processes \ {p} : step'[r] = step[r] /\ writer'[r] = writer[r]
              /\ file'[r] = file[r] /\ (r \in locked' <=> r \in locked)
        /\ UNCHANGED <<untried, at, seen, dirs, token, records, active, cancelled, claimed>>
        /\ root' = root \/ root' = root \ {p}
        /\ step'[p] \in {"done", "clean", "crashed"} /\ writer'[p] \in {writer[p], "none"}
    BY DEF SessionsInv, SessionTypeOK
  <1>4. /\ Live(p)' => Live(p) /\ file' = file /\ locked' = locked
        /\ Recording(p)' => Recording(p) /\ step'[p] = "done"
        /\ p \in claimed => step'[p] \in {"done", "crashed"}
    BY <1>1 DEF SessionsInv, SessionTypeOK, ProcessOK, OwnOK, Live, Recording
  <1>5. Apart(p)
    BY <1>3, <1>4 DEF Apart, Settled, RootSteps, Pruning
  <1>6. ProcessOK(p)'
    BY <1>1, <1>3, <1>4
       DEF ProcessOK, RootOK, OwnOK, LeaseOK, PruneOK, Protected, Settled, RootSteps,
           Removing, Locking, Pruning
  <1>7. CapOK'
    <2>1. \A r \in Processes : step'[r] \in {"reserve", "publish"} => step[r] = step'[r]
      BY <1>3
    <2> QED BY <1>3, <2>1, CapKept DEF SessionsInv
  <1> QED BY <1>2, <1>5, <1>6, <1>7, StepKeeps

-----------------------------------------------------------------------------
(* What sessions on disk promise.                                          *)

\* The invariant holds when nobody has started.
LEMMA SessionsStart == SessionsInit => SessionsInv
  <1> SUFFICES ASSUME SessionsInit PROVE SessionsInv
    OBVIOUS
  <1> USE DEF SessionsInit
  <1>1. SessionTypeOK
    BY NoFileType DEF SessionTypeOK, SessionSteps, WriterSteps
  <1>2. CapOK
    BY FS_EmptySet, SessionsAssumption DEF CapOK, SessionCap
  <1>3. \A p \in Processes : ProcessOK(p)
    BY DEF ProcessOK, RootOK, OwnOK, LeaseOK, PruneOK, Protected, Live, Recording, RootSteps,
           Pruning, Removing, Locking
  <1> QED BY <1>1, <1>2, <1>3 DEF SessionsInv

\* Nothing happens.
LEMMA SessionsStutter == SessionsInv /\ UNCHANGED sessionVars => SessionsInv'
  <1> SUFFICES ASSUME SessionsInv, UNCHANGED sessionVars PROVE SessionsInv'
    OBVIOUS
  <1> USE DEF sessionVars
  <1>1. SessionTypeOK' /\ CapOK'
    BY DEF SessionsInv, SessionTypeOK, CapOK, SessionCap
  <1>2. ASSUME NEW p \in Processes PROVE ProcessOK(p)'
    <2>1. ProcessOK(p)
      BY DEF SessionsInv
    <2>2. RootOK(p)' /\ OwnOK(p)' /\ LeaseOK(p)'
      BY <2>1 DEF ProcessOK, RootOK, OwnOK, LeaseOK, Protected, Live, Recording, Settled
    <2>3. PruneOK(p)'
      BY <2>1 DEF ProcessOK, PruneOK, Live, Recording, Settled
    <2> QED BY <2>2, <2>3 DEF ProcessOK
  <1> QED BY <1>1, <1>2 DEF SessionsInv

\* Every step keeps the invariant.
LEMMA SessionsStep == SessionsInv /\ [SessionsNext]_sessionVars => SessionsInv'
  BY AcquireRootStep, ListStep, VisitStep, TryLeaseStep, RemoveStep, CreateStep, ReserveStep,
     PublishStep, ReleaseRootStep, GiveUpStep, CleanStep, CancelStep, OwnerStep, LeaveStep,
     SessionsStutter
  DEF SessionsNext

\* The strengthened invariant holds for any number of processes and any cap.
THEOREM SessionsInvariant == SessionsSpec => []SessionsInv
  BY SessionsStart, SessionsStep, PTL DEF SessionsSpec

\* Every variable keeps its type.
THEOREM SessionTypeCorrect == SessionsSpec => []SessionTypeOK
  <1>1. SessionsInv => SessionTypeOK
    BY DEF SessionsInv
  <1> QED BY <1>1, SessionsInvariant, PTL

\* The cap on sessions holds, however many processes prune and create.
THEOREM SessionCapHolds == SessionsSpec => []SessionCap
  <1>1. SessionsInv => SessionCap
    BY DEF SessionsInv, CapOK
  <1> QED BY <1>1, SessionsInvariant, PTL

\* A session in use is there, leased and found by its token, and records are never
\* without one, whoever crashed, gave up or was cancelled.
THEOREM SessionsStayOwnedHolds == SessionsSpec => []SessionsStayOwned
  <1>1. SessionsInv => SessionsStayOwned
    <2> SUFFICES ASSUME SessionsInv PROVE SessionsStayOwned
      OBVIOUS
    <2>1. LiveSessionIsKept
      BY DEF SessionsInv, ProcessOK, LeaseOK, Protected, Live, Recording, LiveSessionIsKept
    <2>2. RecordsStayOwned
      BY DEF SessionsInv, SessionTypeOK, ProcessOK, OwnOK, RecordsStayOwned
    <2> QED BY <2>1, <2>2 DEF SessionsStayOwned
  <1> QED BY <1>1, SessionsInvariant, PTL

(***************************************************************************)
(* The writer of a session.                                                *)
(***************************************************************************)

Records == [id : Nat, size : SizesOf]

---------------------------------------------------------------------------
(* Induction over the natural numbers, and the bytes of a sequence.        *)

\* A set with 0, and with the successor of each of its numbers, has all numbers.
LEMMA SetInduction ==
    ASSUME NEW S, 0 \in S, \A n \in Nat : n \in S => n + 1 \in S
    PROVE  Nat \subseteq S
  <1> SUFFICES ASSUME Nat \ S # {} PROVE FALSE
    OBVIOUS
  <1> DEFINE T == Nat \ S
  <1>1. PICK m \in T : \A k \in T : ~ (<<k, m>> \in OpToRel(<, Nat))
    BY NatLessThanWellFounded, WFMin
  <1>5. m \in Nat /\ m \notin S
    OBVIOUS
  <1>2. m # 0 /\ m - 1 \in Nat /\ (m - 1) + 1 = m
    BY <1>5
  <1>3. <<m - 1, m>> \in OpToRel(<, Nat)
    BY <1>2 DEF OpToRel
  <1>4. m - 1 \in S
    BY <1>1, <1>2, <1>3
  <1> QED BY <1>2, <1>4, <1>5

\* The fields of records, and of the one record of a sequence.
LEMMA RecordFields ==
    /\ \A r \in Records : r.id \in Nat /\ r.size \in Nat
    /\ \A s \in Seq(Records) : Len(s) = 1 =>
          s[1] \in Records /\ \A q \in Seq(Records) : q \o s = Append(q, s[1])
  <1>1. \A r \in Records : r.id \in Nat /\ r.size \in Nat
    BY DEF Records, SizesOf
  <1>2. ASSUME NEW s \in Seq(Records), Len(s) = 1, NEW q \in Seq(Records)
        PROVE  s[1] \in Records /\ q \o s = Append(q, s[1])
    <2>1. s[1] \in Records
      BY <1>2
    <2>2. /\ q \o s \in Seq(Records) /\ Append(q, s[1]) \in Seq(Records)
          /\ Len(q \o s) = Len(q) + 1 /\ Len(Append(q, s[1])) = Len(q) + 1
      <3>1. q \o s \in Seq(Records) /\ Len(q \o s) = Len(q) + 1
        <4>1. q \o s \in Seq(Records) /\ Len(q \o s) = Len(q) + Len(s)
          BY ConcatProperties
        <4> QED BY <1>2, <4>1
      <3>2. Append(q, s[1]) \in Seq(Records) /\ Len(Append(q, s[1])) = Len(q) + 1
        BY <2>1
      <3> QED BY <3>1, <3>2
    <2>3. \A i \in 1..(Len(q) + 1) : (q \o s)[i] = Append(q, s[1])[i]
      <3>1. \A i \in 1..(Len(q) + 1) : (q \o s)[i] = IF i <= Len(q) THEN q[i] ELSE s[i - Len(q)]
        BY <1>2, ConcatProperties
      <3>2. /\ Len(q) \in Nat /\ Append(q, s[1])[Len(q) + 1] = s[1]
            /\ \A i \in 1..Len(q) : Append(q, s[1])[i] = q[i]
        BY <2>1
      <3>3. ASSUME NEW i \in 1..(Len(q) + 1) PROVE (q \o s)[i] = Append(q, s[1])[i]
        <4>1. CASE i = Len(q) + 1
          <5>1. i - Len(q) = 1 /\ ~ (i <= Len(q))
            BY <3>2, <4>1
          <5> QED BY <3>1, <3>2, <4>1, <5>1
        <4>2. CASE i # Len(q) + 1
          <5>1. i \in 1..Len(q) /\ i <= Len(q)
            BY <3>2, <4>2
          <5> QED BY <3>1, <3>2, <5>1
        <4> QED BY <4>1, <4>2
      <3> QED BY <3>3
    <2> QED BY <2>1, <2>2, <2>3, SeqEqual
  <1>3. ASSUME NEW s \in Seq(Records), Len(s) = 1 PROVE s[1] \in Records
    BY <1>3
  <1> QED BY <1>1, <1>2, <1>3

\* The sums of the beginnings of a sequence.
Sums(rs, N, sum) ==
    sum = [n \in 0..N |-> IF n = 0 THEN 0 ELSE sum[n - 1] + rs[n].size]

\* Sums exist.
LEMMA SumsExist ==
    ASSUME NEW rs, NEW N \in Nat
    PROVE  \E sum : Sums(rs, N, sum)
  <1> DEFINE S == {m \in Nat : \E sum : Sums(rs, m, sum)}
  <1>1. 0 \in S
    <2> DEFINE f == [n \in 0..0 |-> 0]
    <2>1. f = [n \in 0..0 |-> IF n = 0 THEN 0 ELSE f[n - 1] + rs[n].size]
      OBVIOUS
    <2> QED BY <2>1 DEF Sums
  <1>2. ASSUME NEW m \in Nat, m \in S PROVE m + 1 \in S
    <2>1. PICK f : Sums(rs, m, f)
      BY <1>2
    <2> DEFINE g == [n \in 0..(m + 1) |-> IF n = m + 1 THEN f[m] + rs[m + 1].size ELSE f[n]]
    <2>2. ASSUME NEW n \in 0..(m + 1)
          PROVE  g[n] = IF n = 0 THEN 0 ELSE g[n - 1] + rs[n].size
      <3>1. CASE n = 0
        <4>1. f[0] = 0
          BY <2>1 DEF Sums
        <4> QED BY <3>1, <4>1
      <3>2. CASE n # 0 /\ n <= m
        <4>1. f[n] = f[n - 1] + rs[n].size
          BY <2>1, <3>2 DEF Sums
        <4>2. g[n] = f[n] /\ g[n - 1] = f[n - 1]
          BY <3>2
        <4> QED BY <3>2, <4>1, <4>2
      <3>3. CASE n = m + 1
        <4>1. g[n] = f[m] + rs[m + 1].size /\ g[n - 1] = f[m]
          BY <3>3
        <4> QED BY <3>3, <4>1
      <3> QED BY <3>1, <3>2, <3>3
    <2>3. Sums(rs, m + 1, g)
      BY <2>2 DEF Sums
    <2> QED BY <2>3
  <1>3. Nat \subseteq S
    BY <1>1, <1>2, SetInduction
  <1> QED BY <1>3

\* BytesOf is the last sum.
LEMMA BytesAreSums ==
    ASSUME NEW rs \in Seq(Records)
    PROVE  \E sum : Sums(rs, Len(rs), sum) /\ BytesOf(rs) = sum[Len(rs)]
  <1> DEFINE sum == CHOOSE sum : Sums(rs, Len(rs), sum)
  <1>1. Len(rs) \in Nat
    OBVIOUS
  <1>2. Sums(rs, Len(rs), sum)
    BY <1>1, SumsExist
  <1>3. BytesOf(rs) = sum[Len(rs)]
    BY DEF BytesOf, Sums
  <1> QED BY <1>2, <1>3

\* The bytes of no record, of one more at the end, and of the first one and the rest.
LEMMA BytesSteps ==
    ASSUME NEW rs \in Seq(Records)
    PROVE  /\ BytesOf(<<>>) = 0
           /\ BytesOf(rs) \in Nat
           /\ \A r \in Records : BytesOf(Append(rs, r)) = BytesOf(rs) + r.size
           /\ rs # <<>> =>
                 BytesOf(rs) = BytesOf(Tail(rs)) + Head(rs).size
  <1> DEFINE N == Len(rs)
  <1>1. PICK f : Sums(rs, N, f) /\ BytesOf(rs) = f[N]
    BY BytesAreSums
  <1>2. N \in Nat /\ \A i \in 1..N : rs[i] \in Records /\ rs[i].size \in Nat
    <2>1. \A r \in Records : r.size \in Nat
      BY DEF Records, SizesOf
    <2> QED BY <2>1
  <1>3. f[0] = 0 /\ \A n \in 1..N : f[n] = f[n - 1] + rs[n].size
    BY <1>1, <1>2 DEF Sums
  <1>4. \A n \in 0..N : f[n] \in Nat
    <2> DEFINE S == {n \in Nat : n <= N => f[n] \in Nat}
    <2>1. 0 \in S
      BY <1>3
    <2>2. ASSUME NEW n \in Nat, n \in S PROVE n + 1 \in S
      BY <1>2, <1>3, <2>2
    <2>3. Nat \subseteq S
      BY <2>1, <2>2, SetInduction
    <2> QED BY <1>2, <2>3
  <1>5. BytesOf(<<>>) = 0
    <2>1. PICK g : Sums(<<>>, 0, g) /\ BytesOf(<<>>) = g[0]
      <3>1. <<>> \in Seq(Records) /\ Len(<<>>) = 0
        OBVIOUS
      <3> QED BY <3>1, BytesAreSums
    <2> QED BY <2>1 DEF Sums
  <1>6. ASSUME NEW r \in Records PROVE BytesOf(Append(rs, r)) = BytesOf(rs) + r.size
    <2> DEFINE more == Append(rs, r)
    <2>1. more \in Seq(Records) /\ Len(more) = N + 1 /\ more[N + 1] = r
          /\ \A i \in 1..N : more[i] = rs[i]
      OBVIOUS
    <2> HIDE DEF more
    <2>2. PICK g : Sums(more, N + 1, g) /\ BytesOf(more) = g[N + 1]
      BY <2>1, BytesAreSums
    <2>3. g[0] = 0 /\ \A n \in 1..(N + 1) : g[n] = g[n - 1] + more[n].size
      BY <1>2, <2>2 DEF Sums
    <2> DEFINE S == {n \in Nat : n <= N => g[n] = f[n]}
    <2>4. 0 \in S
      BY <1>3, <2>3
    <2>5. ASSUME NEW n \in Nat, n \in S PROVE n + 1 \in S
      <3>1. CASE n + 1 <= N
        BY <1>2, <1>3, <2>1, <2>3, <2>5, <3>1
      <3>2. CASE ~ (n + 1 <= N)
        BY <3>2
      <3> QED BY <3>1, <3>2
    <2>6. Nat \subseteq S
      BY <2>4, <2>5, SetInduction
    <2>7. g[N] = f[N]
      BY <1>2, <2>6
    <2>8. g[N + 1] = g[N] + r.size
      BY <1>2, <2>1, <2>3
    <2> QED BY <1>1, <2>2, <2>7, <2>8 DEF more
  <1>7. ASSUME rs # <<>>
        PROVE  BytesOf(rs) = BytesOf(Tail(rs)) + Head(rs).size
    <2> DEFINE rest == Tail(rs)
    <2>1. /\ N # 0 /\ rest \in Seq(Records) /\ Len(rest) = N - 1 /\ Head(rs) = rs[1]
          /\ \A i \in 1..(N - 1) : rest[i] = rs[i + 1]
      BY <1>7
    <2> HIDE DEF rest
    <2>2. PICK g : Sums(rest, N - 1, g) /\ BytesOf(rest) = g[N - 1]
      BY <2>1, BytesAreSums
    <2>3. g[0] = 0 /\ \A n \in 1..(N - 1) : g[n] = g[n - 1] + rest[n].size
      BY <1>2, <2>1, <2>2 DEF Sums
    <2> DEFINE first == rs[1].size
    <2> DEFINE S == {n \in Nat : n <= N - 1 => g[n] \in Nat /\ f[n + 1] = g[n] + first}
    <2>8. first \in Nat /\ 1 \in 1..N
      BY <1>2, <2>1
    <2> HIDE DEF first
    <2>4. 0 \in S
      <3>1. f[1] = f[0] + first
        BY <1>3, <2>8 DEF first
      <3> QED BY <1>3, <2>3, <2>8, <3>1
    <2>5. ASSUME NEW n \in Nat, n \in S PROVE n + 1 \in S
      <3>1. CASE n + 1 <= N - 1
        <4>1. n + 1 \in 1..(N - 1) /\ n + 2 \in 1..N
          BY <1>2, <3>1
        <4>2. g[n + 1] = g[n] + rest[n + 1].size
          BY <2>3, <4>1
        <4>3. f[n + 2] = f[n + 1] + rs[n + 2].size
          BY <1>3, <4>1
        <4>4. rest[n + 1] = rs[n + 2]
          BY <2>1, <4>1
        <4>5. g[n] \in Nat /\ f[n + 1] = g[n] + first
          BY <2>5, <3>1, <1>2
        <4>6. rs[n + 2].size \in Nat
          BY <1>2, <4>1
        <4> QED BY <2>8, <4>2, <4>3, <4>4, <4>5, <4>6
      <3>2. CASE ~ (n + 1 <= N - 1)
        BY <3>2
      <3> QED BY <3>1, <3>2
    <2>6. Nat \subseteq S
      BY <2>4, <2>5, SetInduction
    <2>7. f[N] = g[N - 1] + first
      BY <1>2, <2>1, <2>6
    <2> QED BY <1>1, <2>1, <2>2, <2>7 DEF rest, first
  <1> QED BY <1>1, <1>2, <1>4, <1>5, <1>6, <1>7

---------------------------------------------------------------------------
(* The inductive invariant.                                                *)

Loops == {"opening", "receiving", "received", "sizing", "draining", "closed"}

WriterTypeOK ==
    /\ offered \in Nat /\ dropped \in Nat /\ queuedBytes \in Int
    /\ accepted \in Seq(Nat) /\ batch \in Seq(Nat) /\ written \in Seq(Nat)
    /\ queue \in Seq(Records) /\ hand \in Seq(Records)
    /\ closing \in BOOLEAN /\ reported \in BOOLEAN
    /\ failed \in BOOLEAN /\ opened \in BOOLEAN
    /\ loop \in Loops

\* A record is in hand between its receipt and its batch; it is opened before that.
LoopOK ==
    /\ Len(hand) = IF loop \in {"received", "sizing"} THEN 1 ELSE 0
    /\ loop = "opening" => ~failed /\ ~opened /\ batch = <<>> /\ written = <<>>
    /\ loop # "opening" => failed \/ opened
    /\ failed => reported
    /\ loop \in {"draining", "closed"} => queue = <<>> /\ batch = <<>> /\ closing

\* The counters.
CountsOK ==
    /\ offered = Len(accepted) + dropped
    /\ queuedBytes = BytesOf(queue) + (IF loop = "received" THEN hand[1].size ELSE 0)

\* The queue is the end of what was accepted, what is in hand comes before it.
QueueOK ==
    /\ Len(hand) + Len(queue) <= Len(accepted)
    /\ \A i \in 1..Len(queue) :
          queue[i].id = accepted[Len(accepted) - Len(queue) + i]
    /\ Len(hand) = 1 => hand[1].id = accepted[Len(accepted) - Len(queue)]

\* What was written is a beginning; until a failure the batch follows it.
WrittenOK ==
    /\ Len(written) <= Len(accepted)
    /\ \A i \in 1..Len(written) : written[i] = accepted[i]
    /\ ~failed =>
          /\ Len(written) + Len(batch) + Len(hand) + Len(queue) = Len(accepted)
          /\ \A i \in 1..Len(batch) : batch[i] = accepted[Len(written) + i]

WriterInv == WriterTypeOK /\ LoopOK /\ CountsOK /\ QueueOK /\ WrittenOK

---------------------------------------------------------------------------
(* The steps.                                                              *)

\* A record is offered: queued at the end of what was accepted, or refused.
LEMMA OfferStep ==
    ASSUME WriterInv, Offer
    PROVE  WriterInv'
  <1> USE DEF Offer, runVars
  <1>1. PICK size \in SizesOf : Admit(size)
    OBVIOUS
  <1>2. offered' = offered + 1 /\ offered' \in Nat /\ offered' = offered + 1
    BY DEF WriterInv, WriterTypeOK
  <1>3. CASE dropped' = dropped + 1 /\ UNCHANGED <<accepted, queue, queuedBytes>>
    <2>1. WriterTypeOK'
      BY <1>2, <1>3 DEF WriterInv, WriterTypeOK
    <2>2. LoopOK' /\ QueueOK' /\ WrittenOK'
      BY <1>3 DEF WriterInv, LoopOK, QueueOK, WrittenOK
    <2>3. CountsOK'
      BY <1>2, <1>3 DEF WriterInv, WriterTypeOK, CountsOK
    <2> QED BY <2>1, <2>2, <2>3 DEF WriterInv
  <1>4. CASE /\ queue' = Append(queue, [id |-> offered + 1, size |-> size])
             /\ queuedBytes' = queuedBytes + size
             /\ accepted' = Append(accepted, offered + 1)
             /\ UNCHANGED dropped
    <2> DEFINE r == [id |-> offered + 1, size |-> size]
    <2>1. r \in Records /\ r.id = offered + 1 /\ r.size = size /\ size \in Nat
      BY <1>2 DEF Records, SizesOf
    <2> HIDE DEF r
    <2>2. /\ queue' = Append(queue, r) /\ queue \in Seq(Records) /\ accepted \in Seq(Nat)
          /\ Len(hand) \in Nat /\ Len(hand) <= 1 /\ offered + 1 \in Nat
          /\ hand \in Seq(Records)
      BY <1>2, <1>4 DEF WriterInv, WriterTypeOK, LoopOK, r
    <2>3. /\ queue' \in Seq(Records) /\ Len(queue') = Len(queue) + 1
          /\ queue'[Len(queue) + 1] = r
          /\ \A i \in 1..Len(queue) : queue'[i] = queue[i]
      BY <2>1, <2>2
    <2>4. /\ accepted' \in Seq(Nat) /\ Len(accepted') = Len(accepted) + 1
          /\ accepted'[Len(accepted) + 1] = offered + 1
          /\ \A i \in 1..Len(accepted) : accepted'[i] = accepted[i]
      BY <1>4, <2>2
    <2>5. WriterTypeOK'
      BY <1>2, <1>4, <2>1, <2>3, <2>4 DEF WriterInv, WriterTypeOK
    <2>6. LoopOK'
      BY DEF WriterInv, LoopOK
    <2>7. CountsOK'
      <3>1. BytesOf(queue') = BytesOf(queue) + size /\ BytesOf(queue) \in Nat
        BY <2>1, <2>2, BytesSteps
      <3>2. loop = "received" => hand[1].size \in Nat
        BY <2>2, RecordFields DEF WriterInv, LoopOK
      <3>3. queuedBytes' = BytesOf(queue') + (IF loop' = "received" THEN hand'[1].size ELSE 0)
        BY <1>4, <2>1, <3>1, <3>2 DEF WriterInv, CountsOK
      <3> QED BY <1>2, <1>4, <2>4, <3>3 DEF WriterInv, WriterTypeOK, CountsOK
    <2>8. QueueOK'
      <3> USE <2>2, <2>3, <2>4
      <3>1. Len(queue) <= Len(accepted) /\ Len(queue) \in Nat /\ Len(accepted) \in Nat
        BY DEF WriterInv, QueueOK
      <3>2. ASSUME NEW i \in 1..Len(queue')
            PROVE  queue'[i].id = accepted'[Len(accepted') - Len(queue') + i]
        <4>1. CASE i = Len(queue) + 1
          <5>1. Len(accepted') - Len(queue') + i = Len(accepted) + 1
            BY <3>1, <4>1
          <5> QED BY <2>1, <4>1, <5>1
        <4>2. CASE i # Len(queue) + 1
          <5>1. /\ i \in 1..Len(queue)
                /\ Len(accepted') - Len(queue') + i = Len(accepted) - Len(queue) + i
                /\ Len(accepted) - Len(queue) + i \in 1..Len(accepted)
            BY <3>1, <4>2
          <5>2. queue[i].id = accepted[Len(accepted) - Len(queue) + i]
            BY <5>1 DEF WriterInv, QueueOK
          <5> QED BY <5>1, <5>2
        <4> QED BY <4>1, <4>2
      <3>3. Len(hand) = 1 => hand[1].id = accepted'[Len(accepted') - Len(queue')]
        <4> SUFFICES ASSUME Len(hand) = 1
                     PROVE  hand[1].id = accepted'[Len(accepted') - Len(queue')]
          OBVIOUS
        <4>1. /\ Len(accepted') - Len(queue') = Len(accepted) - Len(queue)
              /\ Len(accepted) - Len(queue) \in 1..Len(accepted)
          BY <3>1 DEF WriterInv, QueueOK
        <4> QED BY <4>1 DEF WriterInv, QueueOK
      <3>4. Len(hand) + Len(queue') <= Len(accepted')
        BY <3>1 DEF WriterInv, QueueOK
      <3> QED BY <3>2, <3>3, <3>4 DEF QueueOK
    <2>9. WrittenOK'
      <3>1. /\ Len(written) \in Nat /\ Len(batch) \in Nat /\ Len(queue) \in Nat
            /\ Len(accepted) \in Nat
        BY <2>2 DEF WriterInv, WriterTypeOK
      <3>2. Len(written) <= Len(accepted) /\ \A i \in 1..Len(written) : written[i] = accepted[i]
        BY DEF WriterInv, WrittenOK
      <3>3. Len(written) <= Len(accepted') /\ \A i \in 1..Len(written) : written[i] = accepted'[i]
        BY <2>4, <3>1, <3>2
      <3>4. ASSUME ~failed
            PROVE  /\ Len(written) + Len(batch) + Len(hand) + Len(queue') = Len(accepted')
                   /\ \A i \in 1..Len(batch) : batch[i] = accepted'[Len(written) + i]
        <4>1. /\ Len(written) + Len(batch) + Len(hand) + Len(queue) = Len(accepted)
              /\ \A i \in 1..Len(batch) : batch[i] = accepted[Len(written) + i]
          BY <3>4 DEF WriterInv, WrittenOK
        <4>2. \A i \in 1..Len(batch) : Len(written) + i \in 1..Len(accepted)
          BY <2>2, <3>1, <4>1
        <4>3. \A i \in 1..Len(batch) : batch[i] = accepted'[Len(written) + i]
          BY <2>4, <4>1, <4>2
        <4>4. Len(batch) \in Nat /\ Len(hand) \in Nat /\ Len(queue) \in Nat
          BY DEF WriterInv, WriterTypeOK
        <4>5. Len(queue') = Len(queue) + 1 /\ Len(accepted') = Len(accepted) + 1
          BY <2>3, <2>4
        <4>6. Len(written) + Len(batch) + Len(hand) + Len(queue') = Len(accepted')
          <5> DEFINE w == Len(written)
                     b == Len(batch)
                     h == Len(hand)
                     q == Len(queue)
                     a == Len(accepted)
          <5>1. w \in Nat /\ b \in Nat /\ h \in Nat /\ q \in Nat /\ a \in Nat /\ w + b + h + q = a
            BY <3>1, <4>1, <4>4
          <5>2. Len(queue') = q + 1 /\ Len(accepted') = a + 1
            BY <4>5
          <5> HIDE DEF w, b, h, q, a
          <5>3. w + b + h + (q + 1) = a + 1
            BY <5>1
          <5>4. w + b + h + Len(queue') = Len(accepted')
            BY <5>2, <5>3, Zenon
          <5> QED BY <5>4 DEF w, b, h
        <4> QED BY <4>3, <4>6
      <3> QED BY <3>3, <3>4 DEF WrittenOK
    <2> QED BY <2>5, <2>6, <2>7, <2>8, <2>9 DEF WriterInv
  <1> QED BY <1>1, <1>3, <1>4 DEF Admit

\* The queue is closed, or the recorder opens or does not.
LEMMA StartSteps ==
    ASSUME WriterInv, CloseQueue \/ OpenWriter
    PROVE  WriterInv'
  <1>1. CASE CloseQueue
    BY <1>1 DEF CloseQueue, offerVars, runVars, WriterInv, WriterTypeOK, LoopOK, CountsOK,
                QueueOK, WrittenOK
  <1>2. CASE OpenWriter
    <2> USE <1>2 DEF OpenWriter, offerVars, queueVars
    <2>1. WriterTypeOK'
      BY DEF WriterInv, WriterTypeOK, Loops
    <2>2. LoopOK' /\ CountsOK'
      BY DEF WriterInv, LoopOK, CountsOK
    <2>3. QueueOK'
      BY DEF WriterInv, QueueOK
    <2>4. WrittenOK'
      BY DEF WriterInv, WrittenOK, LoopOK
    <2> QED BY <2>1, <2>2, <2>3, <2>4 DEF WriterInv
  <1> QED BY <1>1, <1>2

\* A record is received: it is the one that was accepted before the rest of the queue.
LEMMA ReceiveStep ==
    ASSUME WriterInv, Receive
    PROVE  WriterInv'
  <1> USE DEF Receive, offerVars
  <1> DEFINE r == Head(queue)
  <1>1. /\ queue \in Seq(Records) /\ queue # <<>> /\ accepted \in Seq(Nat)
        /\ hand \in Seq(Records) /\ Len(hand) = 0
        /\ Len(queue) \in Nat /\ Len(accepted) \in Nat
    BY DEF WriterInv, WriterTypeOK, LoopOK
  <1>2. /\ r \in Records /\ r = queue[1] /\ Len(queue) >= 1
        /\ queue' \in Seq(Records) /\ Len(queue') = Len(queue) - 1
        /\ \A i \in 1..Len(queue') : queue'[i] = queue[i + 1]
    BY <1>1
  <1>3. hand' = <<r>> /\ hand' \in Seq(Records) /\ Len(hand') = 1 /\ hand'[1] = r
    BY <1>2
  <1> HIDE DEF r
  <1>4. WriterTypeOK'
    BY <1>2, <1>3 DEF WriterInv, WriterTypeOK, Loops
  <1>5. LoopOK'
    BY <1>3 DEF WriterInv, LoopOK
  <1>6. CountsOK'
    <2>1. BytesOf(queue) = BytesOf(queue') + r.size
      BY <1>1, BytesSteps DEF r
    <2>2. BytesOf(queue') \in Nat
      BY <1>2, BytesSteps
    <2>3. r.size \in Nat
      BY <1>2, RecordFields
    <2>4. queuedBytes = BytesOf(queue) + 0 /\ offered = Len(accepted) + dropped
      BY DEF WriterInv, CountsOK
    <2> QED BY <1>3, <2>1, <2>2, <2>3, <2>4 DEF CountsOK
  <1>7. QueueOK'
    <2>1. Len(queue) <= Len(accepted) /\ \A i \in 1..Len(queue) :
              queue[i].id = accepted[Len(accepted) - Len(queue) + i]
      BY <1>1 DEF WriterInv, QueueOK
    <2>2. ASSUME NEW i \in 1..Len(queue')
          PROVE  queue'[i].id = accepted[Len(accepted) - Len(queue') + i]
      <3>1. i + 1 \in 1..Len(queue)
            /\ Len(accepted) - Len(queue) + (i + 1) = Len(accepted) - Len(queue') + i
        BY <1>1, <1>2
      <3> QED BY <1>2, <2>1, <3>1
    <2>3. r.id = accepted[Len(accepted) - Len(queue')]
      <3>1. Len(accepted) - Len(queue) + 1 = Len(accepted) - Len(queue') /\ 1 \in 1..Len(queue)
        BY <1>1, <1>2
      <3> QED BY <1>2, <2>1, <3>1
    <2> QED BY <1>1, <1>2, <1>3, <2>1, <2>2, <2>3 DEF QueueOK
  <1>8. WrittenOK'
    BY <1>1, <1>2, <1>3 DEF WriterInv, WriterTypeOK, WrittenOK
  <1> QED BY <1>4, <1>5, <1>6, <1>7, <1>8 DEF WriterInv

\* The bytes of the record in hand are given back.
LEMMA GiveBackStep ==
    ASSUME WriterInv, GiveBack
    PROVE  WriterInv'
  <1> USE DEF GiveBack, offerVars, runVars
  <1>1. /\ hand \in Seq(Records) /\ Len(hand) = 1 /\ queue \in Seq(Records)
        /\ queuedBytes \in Int
    BY DEF WriterInv, WriterTypeOK, LoopOK
  <1>2. hand[1].size \in Nat
    BY <1>1, RecordFields
  <1>3. BytesOf(queue) \in Nat
    BY <1>1, BytesSteps
  <1>4. WriterTypeOK'
    BY <1>1, <1>2 DEF WriterInv, WriterTypeOK, Loops
  <1>5. LoopOK' /\ QueueOK' /\ WrittenOK'
    BY DEF WriterInv, LoopOK, QueueOK, WrittenOK
  <1>6. CountsOK'
    BY <1>1, <1>2, <1>3 DEF WriterInv, CountsOK
  <1> QED BY <1>4, <1>5, <1>6 DEF WriterInv

\* A batch is appended: all of it, or a part of it with an error, or nothing after one.
LEMMA AppendBatch ==
    ASSUME WriterInv, AppendAll, UNCHANGED <<accepted, hand, queue>>
    PROVE  /\ batch' = <<>> /\ written' \in Seq(Nat)
           /\ failed' \in BOOLEAN /\ reported' \in BOOLEAN
           /\ failed => failed'
           /\ failed' => reported'
           /\ WrittenOK'
  <1> USE DEF AppendAll
  <1>1. /\ accepted \in Seq(Nat) /\ batch \in Seq(Nat) /\ written \in Seq(Nat)
        /\ Len(accepted) \in Nat /\ Len(batch) \in Nat /\ Len(written) \in Nat
        /\ failed \in BOOLEAN /\ reported \in BOOLEAN
        /\ Len(hand) \in Nat /\ Len(queue) \in Nat
        /\ failed => reported
        /\ batch' = <<>>
    BY DEF WriterInv, WriterTypeOK, LoopOK
  <1>2. CASE batch # <<>> /\ opened /\ ~failed
    <2>1. /\ Len(written) + Len(batch) + Len(hand) + Len(queue) = Len(accepted)
          /\ \A i \in 1..Len(written) : written[i] = accepted[i]
          /\ \A i \in 1..Len(batch) : batch[i] = accepted[Len(written) + i]
      BY <1>2 DEF WriterInv, WrittenOK
    <2>2. CASE written' = written \o batch /\ UNCHANGED <<failed, reported>>
      <3>1. /\ written' \in Seq(Nat) /\ Len(written') = Len(written) + Len(batch)
            /\ \A i \in 1..(Len(written) + Len(batch)) :
                  written'[i] = IF i <= Len(written) THEN written[i] ELSE batch[i - Len(written)]
        BY <1>1, <2>2
      <3>2. \A i \in 1..Len(written') : written'[i] = accepted[i]
        <4> TAKE i \in 1..Len(written')
        <4>1. CASE i <= Len(written)
          <5>1. i \in 1..Len(written) /\ i \in 1..(Len(written) + Len(batch))
            BY <1>1, <3>1, <4>1
          <5> QED BY <2>1, <3>1, <4>1, <5>1
        <4>2. CASE ~ (i <= Len(written))
          <5>1. i - Len(written) \in 1..Len(batch) /\ Len(written) + (i - Len(written)) = i
            BY <1>1, <3>1, <4>2
          <5> QED BY <1>1, <2>1, <3>1, <4>2, <5>1
        <4> QED BY <4>1, <4>2
      <3>3. Len(batch') = 0
        BY <1>1
      <3>4. WrittenOK'
        BY <1>1, <2>1, <3>1, <3>2, <3>3 DEF WrittenOK
      <3> QED BY <1>1, <2>2, <3>1, <3>4
    <2>3. CASE /\ \E n \in 0..Len(batch) : written' = written \o SubSeq(batch, 1, n)
               /\ failed' = TRUE /\ reported' = TRUE
      <3>1. PICK n \in 0..Len(batch) : written' = written \o SubSeq(batch, 1, n)
        BY <2>3
      <3> DEFINE part == SubSeq(batch, 1, n)
      <3>2. part \in Seq(Nat) /\ Len(part) = n /\ \A i \in 1..n : part[i] = batch[i]
        BY <1>1
      <3> HIDE DEF part
      <3>3. /\ written' \in Seq(Nat) /\ Len(written') = Len(written) + n
            /\ \A i \in 1..(Len(written) + n) :
                  written'[i] = IF i <= Len(written) THEN written[i] ELSE part[i - Len(written)]
        BY <1>1, <3>1, <3>2 DEF part
      <3>4. \A i \in 1..Len(written') : written'[i] = accepted[i]
        <4> TAKE i \in 1..Len(written')
        <4>0. n \in Nat /\ n <= Len(batch) /\ i \in Nat /\ i >= 1 /\ i <= Len(written) + n
          BY <1>1, <3>3
        <4>1. CASE i <= Len(written)
          <5>1. i \in 1..Len(written) /\ i \in 1..(Len(written) + n)
            BY <1>1, <4>0, <4>1
          <5> QED BY <2>1, <3>3, <4>1, <5>1
        <4>2. CASE ~ (i <= Len(written))
          <5>1. i - Len(written) \in 1..n /\ i - Len(written) \in 1..Len(batch)
                /\ Len(written) + (i - Len(written)) = i
            BY <1>1, <4>0, <4>2
          <5> QED BY <1>1, <2>1, <3>2, <3>3, <4>2, <5>1
        <4> QED BY <4>1, <4>2
      <3>5. Len(written') <= Len(accepted)
        BY <1>1, <2>1, <3>3
      <3> QED BY <1>1, <2>3, <3>3, <3>4, <3>5 DEF WrittenOK
    <2> QED BY <1>2, <2>2, <2>3
  <1>3. CASE ~ (batch # <<>> /\ opened /\ ~failed)
    <2>1. UNCHANGED <<written, failed, reported>>
      BY <1>3
    <2>2. ~failed => batch = <<>>
      BY <1>3, <1>1 DEF WriterInv, LoopOK
    <2> QED BY <1>1, <2>1, <2>2 DEF WriterInv, WrittenOK
  <1> QED BY <1>2, <1>3

\* The batch is flushed, or the last of it once the closed queue is empty.
LEMMA FlushStep ==
    ASSUME WriterInv, Flush \/ Drain
    PROVE  WriterInv'
  <1>1. /\ AppendAll /\ UNCHANGED <<accepted, hand, queue>>
        /\ UNCHANGED <<offered, dropped, queuedBytes, closing, opened>>
        /\ loop \in {"receiving", "sizing"}
        /\ \/ loop' = loop
           \/ loop = "receiving" /\ loop' = "draining" /\ closing /\ queue = <<>>
    BY DEF Flush, Drain, offerVars, queueVars
  <1>2. /\ batch' = <<>> /\ written' \in Seq(Nat)
        /\ failed' \in BOOLEAN /\ reported' \in BOOLEAN
        /\ failed => failed'
        /\ failed' => reported'
        /\ WrittenOK'
    BY <1>1, AppendBatch
  <1>3. WriterTypeOK'
    <2>1. batch' \in Seq(Nat)
      BY <1>2
    <2> QED BY <1>1, <1>2, <2>1 DEF WriterInv, WriterTypeOK, Loops
  <1>4. LoopOK'
    BY <1>1, <1>2 DEF WriterInv, LoopOK
  <1>5. CountsOK'
    BY <1>1 DEF WriterInv, CountsOK
  <1>6. QueueOK'
    BY <1>1 DEF WriterInv, QueueOK
  <1> QED BY <1>2, <1>3, <1>4, <1>5, <1>6 DEF WriterInv

\* What is in hand joins the batch, or is given up.
LEMMA HandStep ==
    ASSUME WriterInv, Collect \/ Refuse
    PROVE  WriterInv'
  <1>0. /\ loop = "sizing" /\ loop' = "receiving" /\ hand' = <<>>
        /\ UNCHANGED <<offered, accepted, dropped, queue, queuedBytes, closing, opened, written>>
    BY DEF Collect, Refuse, offerVars, queueVars
  <1>1. /\ hand \in Seq(Records) /\ Len(hand) = 1 /\ hand[1].id \in Nat
        /\ batch \in Seq(Nat) /\ accepted \in Seq(Nat) /\ written \in Seq(Nat)
        /\ Len(batch) \in Nat /\ Len(accepted) \in Nat /\ Len(written) \in Nat
        /\ Len(queue) \in Nat
        /\ hand' \in Seq(Records) /\ Len(hand') = 0
    <2>1. hand \in Seq(Records) /\ Len(hand) = 1
      BY <1>0 DEF WriterInv, WriterTypeOK, LoopOK
    <2>2. hand[1].id \in Nat
      BY <2>1, RecordFields
    <2>3. /\ batch \in Seq(Nat) /\ accepted \in Seq(Nat) /\ written \in Seq(Nat)
          /\ queue \in Seq(Records)
      BY DEF WriterInv, WriterTypeOK
    <2> QED BY <1>0, <2>1, <2>2, <2>3
  <1>2. CountsOK' /\ QueueOK'
    BY <1>0, <1>1 DEF WriterInv, CountsOK, QueueOK
  <1>3. CASE Collect
    <2>1. batch' = Append(batch, hand[1].id) /\ UNCHANGED <<reported, failed>>
      BY <1>3 DEF Collect
    <2>2. /\ batch' \in Seq(Nat) /\ Len(batch') = Len(batch) + 1
          /\ batch'[Len(batch) + 1] = hand[1].id
          /\ \A i \in 1..Len(batch) : batch'[i] = batch[i]
      BY <1>1, <2>1
    <2>3. WriterTypeOK'
      BY <1>0, <1>1, <2>1, <2>2 DEF WriterInv, WriterTypeOK, Loops
    <2>4. LoopOK'
      BY <1>0, <1>1, <2>1 DEF WriterInv, LoopOK
    <2>5. WrittenOK'
      <3>1. ~failed =>
              /\ Len(written) + Len(batch) + 1 + Len(queue) = Len(accepted)
              /\ hand[1].id = accepted[Len(accepted) - Len(queue)]
              /\ \A i \in 1..Len(batch) : batch[i] = accepted[Len(written) + i]
        BY <1>1 DEF WriterInv, WrittenOK, QueueOK
      <3>2. ~failed => \A i \in 1..Len(batch') : batch'[i] = accepted[Len(written) + i]
        <4> SUFFICES ASSUME ~failed, NEW i \in 1..Len(batch')
                     PROVE  batch'[i] = accepted[Len(written) + i]
          OBVIOUS
        <4>1. CASE i = Len(batch) + 1
          <5>1. Len(written) + i = Len(accepted) - Len(queue)
            BY <1>1, <3>1, <4>1
          <5> QED BY <2>2, <3>1, <4>1, <5>1
        <4>2. CASE i # Len(batch) + 1
          <5>1. i \in 1..Len(batch)
            BY <1>1, <2>2, <4>2
          <5> QED BY <2>2, <3>1, <5>1
        <4> QED BY <4>1, <4>2
      <3> QED BY <1>0, <1>1, <2>1, <2>2, <3>1, <3>2 DEF WriterInv, WrittenOK
    <2> QED BY <1>2, <2>3, <2>4, <2>5 DEF WriterInv
  <1>4. CASE Refuse
    <2>1. failed' = TRUE /\ reported' = TRUE /\ UNCHANGED batch
      BY <1>4 DEF Refuse
    <2>2. WriterTypeOK'
      BY <1>0, <1>1, <2>1 DEF WriterInv, WriterTypeOK, Loops
    <2>3. LoopOK'
      BY <1>0, <1>1, <2>1 DEF WriterInv, LoopOK
    <2>4. WrittenOK'
      BY <1>0, <2>1 DEF WriterInv, WrittenOK
    <2> QED BY <1>2, <2>2, <2>3, <2>4 DEF WriterInv
  <1> QED BY <1>3, <1>4

\* The recorder is closed.
LEMMA CloseStep ==
    ASSUME WriterInv, CloseWriter
    PROVE  WriterInv'
  <1> USE DEF CloseWriter, offerVars, queueVars, runVars
  <1>1. reported' \in BOOLEAN /\ (reported => reported')
    BY DEF WriterInv, WriterTypeOK
  <1>2. WriterTypeOK' /\ LoopOK'
    BY <1>1 DEF WriterInv, WriterTypeOK, LoopOK, Loops
  <1>3. CountsOK' /\ QueueOK' /\ WrittenOK'
    BY DEF WriterInv, CountsOK, QueueOK, WrittenOK
  <1> QED BY <1>2, <1>3 DEF WriterInv

---------------------------------------------------------------------------
(* The theorems.                                                           *)

\* The invariant holds when the writer was made.
LEMMA WriterStart == WriterInit => WriterInv
  <1> SUFFICES ASSUME WriterInit PROVE WriterInv
    OBVIOUS
  <1> USE DEF WriterInit
  <1>0. <<>> \in Seq(Nat) /\ <<>> \in Seq(Records)
    OBVIOUS
  <1>1. WriterTypeOK
    <2>1. loop \in Loops
      BY DEF Loops
    <2>2. offered \in Nat /\ dropped \in Nat /\ queuedBytes \in Int
      OBVIOUS
    <2>3. /\ accepted \in Seq(Nat) /\ batch \in Seq(Nat) /\ written \in Seq(Nat)
          /\ queue \in Seq(Records) /\ hand \in Seq(Records)
      BY <1>0
    <2>4. closing \in BOOLEAN /\ reported \in BOOLEAN /\ failed \in BOOLEAN /\ opened \in BOOLEAN
      OBVIOUS
    <2> HIDE DEF WriterInit
    <2> QED BY <2>1, <2>2, <2>3, <2>4 DEF WriterTypeOK
  <1>2. BytesOf(queue) = 0
    <2>1. queue \in Seq(Records)
      OBVIOUS
    <2> QED BY <2>1, BytesSteps
  <1>3. LoopOK /\ CountsOK /\ QueueOK /\ WrittenOK
    BY <1>2 DEF LoopOK, CountsOK, QueueOK, WrittenOK
  <1> QED BY <1>1, <1>3 DEF WriterInv

\* Every step keeps the invariant.
LEMMA WriterStep == WriterInv /\ [WriterNext]_writerVars => WriterInv'
  <1> SUFFICES ASSUME WriterInv, [WriterNext]_writerVars PROVE WriterInv'
    OBVIOUS
  <1>1. CASE UNCHANGED writerVars
    BY <1>1 DEF writerVars, WriterInv, WriterTypeOK, LoopOK, CountsOK, QueueOK, WrittenOK
  <1> QED BY <1>1, OfferStep, StartSteps, ReceiveStep, GiveBackStep, FlushStep, HandStep,
             CloseStep DEF WriterNext

\* The strengthened invariant holds for every limit.
THEOREM WriterInvariant == WriterSpec => []WriterInv
  BY WriterStart, WriterStep, PTL DEF WriterSpec

\* Every variable of the writer keeps its type.
THEOREM WriterTypeCorrect == WriterSpec => []WriterTypeOK
  <1>1. WriterInv => WriterTypeOK
    BY DEF WriterInv
  <1> QED BY <1>1, WriterInvariant, PTL

\* What was written is a beginning of what was accepted, all of it when the writer closed
\* without an error; refusals and the bytes of the queue are counted exactly.
THEOREM RecordingIsABeginningHolds == WriterSpec => []RecordingIsABeginning
  <1>1. WriterInv => RecordingIsABeginning
    <2> SUFFICES ASSUME WriterInv PROVE RecordingIsABeginning
      OBVIOUS
    <2>1. /\ accepted \in Seq(Nat) /\ written \in Seq(Nat) /\ queue \in Seq(Records)
          /\ hand \in Seq(Records) /\ Len(accepted) \in Nat /\ Len(written) \in Nat
      BY DEF WriterInv, WriterTypeOK
    <2>2. RefusalsAreCounted
      <3>1. CASE loop = "received"
        <4>1. Len(hand) = 1 /\ hand[1] \in Records
          BY <2>1, <3>1, RecordFields DEF WriterInv, LoopOK
        <4>2. queue \o hand = Append(queue, hand[1])
          BY <2>1, <4>1, RecordFields
        <4>3. BytesOf(Append(queue, hand[1])) = BytesOf(queue) + hand[1].size
          BY <2>1, <4>1, BytesSteps
        <4> QED BY <3>1, <4>2, <4>3 DEF WriterInv, CountsOK, RefusalsAreCounted
      <3>2. CASE loop # "received"
        <4>1. queue \o <<>> = queue
          BY <2>1
        <4>2. BytesOf(queue) \in Nat
          BY <2>1, BytesSteps
        <4> QED BY <3>2, <4>1, <4>2 DEF WriterInv, CountsOK, RefusalsAreCounted
      <3> QED BY <3>1, <3>2
    <2>3. IsPrefix(written, accepted)
      BY <2>1 DEF WriterInv, WrittenOK, IsPrefix
    <2>4. ASSUME loop = "closed", ~reported PROVE written = accepted
      <3>1. Len(written) = Len(accepted)
        <4>1. ~failed /\ Len(hand) = 0 /\ Len(queue) = 0 /\ Len(batch) = 0
          BY <2>4 DEF WriterInv, LoopOK
        <4> QED BY <2>1, <4>1 DEF WriterInv, WrittenOK
      <3> QED BY <2>1, <3>1 DEF WriterInv, WrittenOK
    <2> QED BY <2>2, <2>3, <2>4 DEF RecordingIsABeginning
  <1> QED BY <1>1, WriterInvariant, PTL
=============================================================================
