---------------------------- MODULE WritesProofs -----------------------------
(***************************************************************************)
(* Proofs about GuardedWrite, for every number of attempts, of changes by  *)
(* other actors and every set of operations; about NodeDrain, for every    *)
(* set of places and every number of recreated Pods; and about ChangeSet,  *)
(* for every number of rows, of preparations and of operations, and        *)
(* whatever others write.                                                  *)
(*                                                                         *)
(* The receipt's promise is not inductive: it needs to know, before the    *)
(* receipt is written, that a request exists only after it was recorded as *)
(* attempted, that nothing is in flight while the worker prepares another  *)
(* attempt, and that an error which is neither uncertain nor the context's *)
(* was answered by the server. RequestIsBound carries the precondition     *)
(* from the read to the server.                                            *)
(*                                                                         *)
(* What the drain promises is not inductive: a request is in flight while  *)
(* the Pods, the server's answers and the list might change under it. The  *)
(* strengthening says why they do not matter: generations are given once,  *)
(* the list is made before the cordon and requests only after it, requests *)
(* are pinned to the list, the discovery that decided is the one that is   *)
(* remembered, and a Pod seen gone stays gone.                             *)
(*                                                                         *)
(* What a change set promises is not inductive: a request may be on its    *)
(* way when its operation has given up. The strengthening says what keeps  *)
(* it harmless: whoever may still write a row holds the claim on it, no    *)
(* two operations hold the same claim, and an outcome that excludes a      *)
(* write is only given while no request is on its way.                     *)
(***************************************************************************)
EXTENDS GuardedWrite, NodeDrain, ChangeSet, TLAPS

(***************************************************************************)
(* Guarded writes.                                                         *)
(***************************************************************************)

Preparing == pc \in {"start", "check", "attempt", "read", "write"}
Answered == pc \in {"return", "done"}

\* Between attempts nothing is in flight and nothing was applied.
PreparingIsQuiet ==
    Preparing => /\ wire = NoRequest
                 /\ reply = "none"
                 /\ effects = 0
                 /\ ~ accepted
                 /\ ~ refused
                 /\ err = {}
                 /\ pc = "start" => ~ attempted

\* While an answer is awaited, the answer tells what the server did.
SentIsConsistent ==
    pc = "sent" => /\ attempted
                   /\ ~ accepted
                   /\ ~ refused
                   /\ err = {}
                   /\ wire # NoRequest => reply = "none" /\ effects = 0
                   /\ reply \in {"conflict", "rejected"} => effects = 0
                   /\ reply = "ok" => effects = 1

\* Once the work returned, its error tells what the server did or still may.
AnsweredIsConsistent ==
    Answered => /\ reply = "none"
                /\ err = {} => accepted /\ effects = 1 /\ wire = NoRequest
                /\ accepted => effects = 1
                /\ wire # NoRequest => effects = 0 /\ attempted
                /\ effects = 1 => attempted
                /\ refused => ~ attempted
                /\ err # {} /\ "context" \notin err /\ "uncertain" \notin err
                      => effects = 0 /\ wire = NoRequest

VerdictIsConsistent ==
    /\ pc # "done" => verdict = "PENDING"
    /\ pc = "done" => /\ verdict # "PENDING"
                      /\ verdict = "ACCEPTED" => wire = NoRequest
                      /\ verdict \in {"FAILED", "CANCELED", "NOT SUBMITTED"}
                            => effects = 0 /\ wire = NoRequest

\* A request other than a Job's creation names the selected identity and a
\* version at which the object was in the reviewed state.
ReviewedVersion(v) ==
    kind \in {"restart", "suspend"} /\ object.version = v => ~ object.blocked

RequestIsBound ==
    /\ object.version > 0
    /\ pc = "write" => /\ seen \in 1 .. object.version
                       /\ ReviewedVersion(seen)
    /\ wire # NoRequest /\ kind # "trigger"
          => /\ wire.uid = Selected
             /\ wire.version \in 1 .. object.version
             /\ ReviewedVersion(wire.version)

WriteInv ==
    /\ GuardedTypeOK
    /\ effects \in {0, 1}
    /\ OnlySelectedIdentity
    /\ PreparingIsQuiet
    /\ SentIsConsistent
    /\ AnsweredIsConsistent
    /\ VerdictIsConsistent
    /\ RequestIsBound

\* The invariant's parts other than the types and RequestIsBound.
Consistent ==
    /\ PreparingIsQuiet
    /\ SentIsConsistent
    /\ AnsweredIsConsistent
    /\ VerdictIsConsistent

\* The invariant holds initially.
LEMMA InitEstablishes == Init => WriteInv
  <1> SUFFICES ASSUME Init PROVE WriteInv
    OBVIOUS
  <1>1. /\ object.uid = Selected /\ object.version = Selected
        /\ object \in [uid : Nat, version : Nat, blocked : BOOLEAN]
    BY DEF Init, Selected
  <1>2. 0 \in 0 .. MaxSteps - 1
    BY WriteAssumption
  <1>3. GuardedTypeOK
    BY <1>1, <1>2 DEF Init, GuardedTypeOK, Verdicts, ErrorKinds
  <1>4. PreparingIsQuiet /\ SentIsConsistent /\ AnsweredIsConsistent
    BY DEF Init, PreparingIsQuiet, SentIsConsistent, AnsweredIsConsistent,
       Preparing, Answered
  <1>5. VerdictIsConsistent /\ OnlySelectedIdentity /\ effects \in {0, 1}
    BY DEF Init, VerdictIsConsistent, OnlySelectedIdentity
  <1>6. RequestIsBound
    BY <1>1 DEF Init, RequestIsBound, Selected
  <1> QED
    BY <1>3, <1>4, <1>5, <1>6 DEF WriteInv

\* A step that leaves the server and the network alone, and neither reads nor
\* sends, keeps the request bound.
LEMMA StillBound ==
    ASSUME WriteInv, UNCHANGED <<kind, server, wire, seen>>, pc' # "write"
    PROVE  RequestIsBound'
  BY DEF WriteInv, RequestIsBound, ReviewedVersion, server

\* The steps of the worker that settle something without the server.
LEMMA PreparationPreserves ==
    ASSUME WriteInv, Begin \/ Authorized \/ Attempt \/ WorkFails \/ SendRefrained
    PROVE  WriteInv'
  <1>1. RequestIsBound'
    BY StillBound DEF Begin, Authorized, Attempt, WorkFails, SendRefrained,
       captured, network, Return
  <1>2. GuardedTypeOK' /\ OnlySelectedIdentity' /\ effects' \in {0, 1}
    <2>1. /\ UNCHANGED <<kind, available, object, over, steps, seen, wire, reply,
                         attempted, accepted, verdict, effects, touched>>
          /\ refused' \in BOOLEAN
          /\ err' = err \/ err' \subseteq ErrorKinds
          /\ pc' \in {"check", "attempt", "read", "return"}
      <3>1. CASE Begin
        BY <3>1 DEF WriteInv, GuardedTypeOK, Begin, Return, ErrorKinds, captured,
           network, server
      <3>2. CASE Authorized
        BY <3>2 DEF WriteInv, GuardedTypeOK, Authorized, captured, network, server,
           progress
      <3>3. CASE Attempt
        BY <3>3 DEF WriteInv, GuardedTypeOK, Attempt, Return, ErrorKinds, captured,
           network, server, progress
      <3>4. CASE WorkFails
        BY <3>4 DEF WriteInv, GuardedTypeOK, WorkFails, Return, captured, network,
           server, progress
      <3>5. CASE SendRefrained
        BY <3>5 DEF WriteInv, GuardedTypeOK, SendRefrained, Return, ErrorKinds,
           captured, network, server, progress
      <3> QED
        BY <3>1, <3>2, <3>3, <3>4, <3>5
    <2> QED
      BY <2>1 DEF WriteInv, GuardedTypeOK, OnlySelectedIdentity
  <1>3. CASE Begin
    <2>1. /\ pc = "start"
          /\ pc' = "return" => err' # {} /\ (refused' => ~ attempted')
          /\ pc' = "check" => err' = err /\ ~ refused'
          /\ pc' \in {"return", "check"}
      BY <1>3 DEF WriteInv, Begin, Return, PreparingIsQuiet, Preparing
    <2> QED
    BY <1>1, <1>2, <1>3, <2>1 DEF WriteInv, Begin, PreparingIsQuiet, SentIsConsistent,
       AnsweredIsConsistent, VerdictIsConsistent, Preparing, Answered,
       captured, network, server
  <1>4. CASE Authorized
    BY <1>1, <1>2, <1>4 DEF WriteInv, Authorized, PreparingIsQuiet,
       SentIsConsistent, AnsweredIsConsistent, VerdictIsConsistent, Preparing,
       Answered, captured, network, server, progress
  <1>5. CASE Attempt
    BY <1>1, <1>2, <1>5 DEF WriteInv, Attempt, PreparingIsQuiet,
       SentIsConsistent, AnsweredIsConsistent, VerdictIsConsistent, Preparing,
       Answered, captured, network, server, progress, Return
  <1>6. CASE WorkFails
    <2>1. /\ pc \in {"check", "read"}
          /\ err' # {} /\ pc' = "return"
          /\ UNCHANGED <<wire, reply, attempted, accepted, refused, verdict,
                         effects>>
      BY <1>6 DEF WorkFails, Return, network, progress, server
    <2>2. Preparing /\ ~ Preparing' /\ Answered' /\ pc' # "sent" /\ pc' # "done"
      BY <2>1 DEF Preparing, Answered
    <2>3. AnsweredIsConsistent'
      BY <2>1, <2>2 DEF WriteInv, PreparingIsQuiet, AnsweredIsConsistent
    <2>4. PreparingIsQuiet' /\ SentIsConsistent' /\ VerdictIsConsistent'
      BY <2>1, <2>2 DEF WriteInv, PreparingIsQuiet, SentIsConsistent,
         VerdictIsConsistent
    <2> QED
      BY <1>1, <1>2, <2>3, <2>4 DEF WriteInv
  <1>7. CASE SendRefrained
    BY <1>1, <1>2, <1>7 DEF WriteInv, SendRefrained, PreparingIsQuiet,
       SentIsConsistent, AnsweredIsConsistent, VerdictIsConsistent, Preparing,
       Answered, captured, network, server, progress, Return
  <1> QED
    BY <1>3, <1>4, <1>5, <1>6, <1>7

\* A read binds the request that will be built from it.
LEMMA ReadPreserves ==
    ASSUME WriteInv, Read
    PROVE  WriteInv'
  <1>1. RequestIsBound'
    BY DEF WriteInv, Read, RequestIsBound, ReviewedVersion, GuardedTypeOK, server, network,
       captured, PreparingIsQuiet, Preparing
  <1>2. GuardedTypeOK' /\ OnlySelectedIdentity' /\ effects' \in {0, 1}
    BY DEF WriteInv, Read, GuardedTypeOK, OnlySelectedIdentity, server, network,
       progress, captured
  <1>3. /\ pc = "read" /\ pc' = "write"
        /\ UNCHANGED <<wire, reply, attempted, accepted, refused, err, verdict,
                       effects>>
    BY DEF Read, network, progress, server
  <1> QED
    BY <1>1, <1>2, <1>3 DEF WriteInv, PreparingIsQuiet, SentIsConsistent,
       AnsweredIsConsistent, VerdictIsConsistent, Preparing, Answered

LEMMA SendPreserves ==
    ASSUME WriteInv, Send
    PROVE  WriteInv'
  <1>1. Request \in Requests
    BY DEF WriteInv, GuardedTypeOK, Request, Requests, Selected
  <1>2. GuardedTypeOK' /\ OnlySelectedIdentity' /\ effects' \in {0, 1}
    BY <1>1 DEF WriteInv, Send, GuardedTypeOK, OnlySelectedIdentity, server, captured
  <1>3. kind # "trigger" => Request.uid = Selected /\ Request.version = seen
    BY DEF Request
  <1>4. RequestIsBound'
    BY <1>3 DEF WriteInv, Send, RequestIsBound, ReviewedVersion, server, captured
  <1>5. /\ pc = "write" /\ pc' = "sent" /\ attempted'
        /\ UNCHANGED <<reply, accepted, refused, err, verdict, effects>>
    BY DEF Send, server
  <1> QED
    BY <1>2, <1>4, <1>5 DEF WriteInv, PreparingIsQuiet, SentIsConsistent,
       AnsweredIsConsistent, VerdictIsConsistent, Preparing, Answered

\* The worker takes an answer, or stops waiting for one.
LEMMA AnswerPreserves ==
    ASSUME WriteInv, GiveUp \/ Accepted \/ Rejected \/ Conflicted
    PROVE  WriteInv'
  <1>1. RequestIsBound'
    BY StillBound DEF GiveUp, Accepted, Rejected, Conflicted, captured, network,
       Return
  <1>2. OnlySelectedIdentity' /\ effects' \in {0, 1}
    BY DEF WriteInv, OnlySelectedIdentity, GiveUp, Accepted, Rejected, Conflicted,
       server
  <1>3. CASE GiveUp
    <2>1. GuardedTypeOK'
      BY <1>3 DEF WriteInv, GuardedTypeOK, GiveUp, captured, network, server,
         progress, Return, ErrorKinds
    <2>2. /\ pc = "sent" /\ reply = "none" /\ pc' = "return"
          /\ err' # {} /\ ("uncertain" \in err' \/ "context" \in err')
          /\ UNCHANGED <<wire, reply, attempted, accepted, refused, verdict,
                         effects>>
      BY <1>3 DEF GiveUp, Return, network, progress, server
    <2> QED
      BY <1>1, <1>2, <2>1, <2>2 DEF WriteInv, PreparingIsQuiet, SentIsConsistent,
         AnsweredIsConsistent, VerdictIsConsistent, Preparing, Answered
  <1>4. CASE Accepted
    <2>1. GuardedTypeOK'
      BY <1>4 DEF WriteInv, GuardedTypeOK, Accepted, captured, server, Return,
         ErrorKinds
    <2> QED
      BY <1>1, <1>2, <1>4, <2>1 DEF WriteInv, Accepted, Return, server,
         PreparingIsQuiet, SentIsConsistent, AnsweredIsConsistent,
         VerdictIsConsistent, Preparing, Answered
  <1>5. CASE Rejected
    <2>1. GuardedTypeOK'
      BY <1>5 DEF WriteInv, GuardedTypeOK, Rejected, captured, server, progress,
         Return, ErrorKinds
    <2>2. /\ pc = "sent" /\ reply' = "none" /\ pc' = "return"
          /\ reply = "rejected" \/ (reply = "uncertain" /\ "uncertain" \in err')
          /\ err' # {}
          /\ UNCHANGED <<wire, attempted, accepted, refused, verdict, effects>>
      BY <1>5 DEF Rejected, Return, progress, server
    <2>3. ~ Preparing' /\ Answered' /\ pc' # "sent" /\ pc' # "done"
      BY <2>2 DEF Preparing, Answered
    <2>4. AnsweredIsConsistent'
      BY <2>2 DEF WriteInv, SentIsConsistent, AnsweredIsConsistent
    <2>5. PreparingIsQuiet' /\ SentIsConsistent' /\ VerdictIsConsistent'
      BY <2>2, <2>3 DEF WriteInv, PreparingIsQuiet, SentIsConsistent,
         VerdictIsConsistent
    <2> QED
      BY <1>1, <1>2, <2>1, <2>4, <2>5 DEF WriteInv
  <1>6. CASE Conflicted
    <2>0. steps' \in 0 .. MaxSteps - 1
      BY <1>6, WriteAssumption DEF WriteInv, GuardedTypeOK, Conflicted
    <2>1. GuardedTypeOK'
      <3>1. /\ pc' \in {"attempt", "return"}
            /\ reply' = "none"
            /\ err' \subseteq ErrorKinds
            /\ UNCHANGED <<kind, available, object, over, seen, wire, attempted,
                           accepted, refused, verdict, effects, touched>>
        BY <1>6 DEF WriteInv, GuardedTypeOK, Conflicted, captured, server, progress,
           Return, ErrorKinds
      <3> QED
        BY <2>0, <3>1 DEF WriteInv, GuardedTypeOK
    <2>2. /\ pc = "sent" /\ reply = "conflict" /\ reply' = "none"
          /\ \/ pc' = "attempt" /\ err' = err
             \/ pc' = "return" /\ err' # {}
          /\ UNCHANGED <<wire, attempted, accepted, refused, verdict, effects>>
      BY <1>6 DEF Conflicted, Return, progress, server
    <2> QED
      BY <1>1, <1>2, <2>1, <2>2 DEF WriteInv, PreparingIsQuiet, SentIsConsistent,
         AnsweredIsConsistent, VerdictIsConsistent, Preparing, Answered
  <1> QED
    BY <1>3, <1>4, <1>5, <1>6

LEMMA SettlePreserves ==
    ASSUME WriteInv, Settle
    PROVE  WriteInv'
  <1>1. RequestIsBound'
    BY StillBound DEF Settle, captured, network
  <1>2. /\ pc = "return" /\ pc' = "done" /\ verdict' = ResultState(Joined)
        /\ UNCHANGED <<wire, reply, attempted, accepted, refused, err, effects,
                       touched>>
    BY DEF Settle, network, progress, server
  <1>3. verdict' \in Verdicts \ {"PENDING"}
    BY <1>2 DEF ResultState, Verdicts
  <1>4. GuardedTypeOK' /\ OnlySelectedIdentity' /\ effects' \in {0, 1}
    BY <1>2, <1>3 DEF WriteInv, GuardedTypeOK, OnlySelectedIdentity, Settle, captured,
       server
  <1>5. PreparingIsQuiet' /\ SentIsConsistent' /\ AnsweredIsConsistent'
    BY <1>2 DEF WriteInv, PreparingIsQuiet, SentIsConsistent, AnsweredIsConsistent,
       Preparing, Answered
  <1>6. err # {} => Joined # {}
    BY DEF Joined
  <1>7. verdict' = "ACCEPTED" => wire' = NoRequest
    BY <1>2, <1>6 DEF WriteInv, ResultState, AnsweredIsConsistent, Answered
  <1>8. ASSUME verdict' \in {"FAILED", "CANCELED", "NOT SUBMITTED"}
        PROVE  effects' = 0 /\ wire' = NoRequest
    <2>1. Joined # {} /\ err # {}
      BY <1>2, <1>8 DEF ResultState, Joined
    <2>2. CASE ~ attempted
      BY <1>2, <2>2 DEF WriteInv, AnsweredIsConsistent, Answered
    <2>3. CASE attempted
      <3>1. ~ refused
        BY <1>2, <2>3 DEF WriteInv, AnsweredIsConsistent, Answered
      <3>2. "context" \notin Joined /\ "uncertain" \notin Joined
        BY <1>2, <1>8, <2>1, <2>3, <3>1 DEF ResultState
      <3>3. "context" \notin err /\ "uncertain" \notin err
        BY <3>2 DEF Joined
      <3> QED
        BY <1>2, <2>1, <3>3 DEF WriteInv, AnsweredIsConsistent, Answered
    <2> QED
      BY <2>2, <2>3
  <1>9. VerdictIsConsistent'
    BY <1>2, <1>3, <1>7, <1>8 DEF VerdictIsConsistent
  <1> QED
    BY <1>1, <1>4, <1>5, <1>9 DEF WriteInv

\* Whatever is written, the object's version grows.
Bumped ==
    /\ object' \in [uid : Nat, version : Nat, blocked : BOOLEAN]
    /\ object'.version = object.version + 1

LEMMA WriteBumps ==
    ASSUME object \in [uid : Nat, version : Nat, blocked : BOOLEAN],
           NEW u \in Nat, NEW b \in BOOLEAN, Write(u, b)
    PROVE  Bumped
  BY DEF Write, Bumped

\* What other actors do leaves every request with an older version.
LEMMA OthersPreserve ==
    ASSUME WriteInv, OthersChange \/ ContextEnds
    PROVE  WriteInv'
  <1>1. /\ UNCHANGED <<kind, available, pc, steps, seen, wire, reply, attempted,
                       accepted, refused, err, verdict, effects, touched>>
        /\ over' \in BOOLEAN
    BY DEF WriteInv, GuardedTypeOK, OthersChange, ContextEnds, captured, network,
       progress, server
  <1>2. UNCHANGED object \/ Bumped
    <2>1. CASE OthersChange
      <3>1. object \in [uid : Nat, version : Nat, blocked : BOOLEAN]
        BY DEF WriteInv, GuardedTypeOK
      <3>2. 0 \in Nat /\ object.uid \in Nat /\ object.version + 1 \in Nat
        BY <3>1
      <3>3. CASE Write(0, FALSE)
        BY <3>1, <3>2, <3>3, WriteBumps
      <3>4. ASSUME NEW b \in BOOLEAN, Write(object.uid, b)
            PROVE  Bumped
        BY <3>1, <3>2, <3>4, WriteBumps
      <3>5. ASSUME NEW b \in BOOLEAN, Write(object.version + 1, b)
            PROVE  Bumped
        BY <3>1, <3>2, <3>5, WriteBumps
      <3> QED
        BY <2>1, <3>3, <3>4, <3>5 DEF OthersChange
    <2>2. CASE ContextEnds
      BY <2>2 DEF ContextEnds, server
    <2> QED
      BY <2>1, <2>2
  <1>3. RequestIsBound'
    BY <1>1, <1>2 DEF WriteInv, RequestIsBound, ReviewedVersion, GuardedTypeOK, Bumped
  <1>4. GuardedTypeOK' /\ OnlySelectedIdentity' /\ effects' \in {0, 1}
    BY <1>1, <1>2 DEF Bumped, WriteInv, GuardedTypeOK, OnlySelectedIdentity
  <1> QED
    BY <1>1, <1>3, <1>4 DEF WriteInv, PreparingIsQuiet, SentIsConsistent,
       AnsweredIsConsistent, VerdictIsConsistent, Preparing, Answered

\* A request in flight is applied at most once, to the identity it names.
LEMMA ApplyPreserves ==
    ASSUME WriteInv, ServerApplies
    PROVE  WriteInv'
  <1>1. /\ wire # NoRequest /\ wire' = NoRequest
        /\ effects' = effects + 1
        /\ reply' \in {"ok", "uncertain", "none"}
        /\ pc # "sent" => reply' = "none"
        /\ pc = "sent" => reply' \in {"ok", "uncertain"}
        /\ UNCHANGED <<kind, available, over, pc, steps, seen, attempted,
                       accepted, refused, err, verdict>>
    BY DEF ServerApplies, Answer, captured, progress
  <1>2. effects = 0 /\ pc \in {"sent", "return", "done"} /\ attempted
    BY <1>1 DEF WriteInv, GuardedTypeOK, PreparingIsQuiet, SentIsConsistent,
       AnsweredIsConsistent, Preparing, Answered
  <1>3. UNCHANGED object \/ Bumped
    <2>1. Effect
      BY DEF ServerApplies
    <2>2. object \in [uid : Nat, version : Nat, blocked : BOOLEAN]
      BY DEF WriteInv, GuardedTypeOK
    <2>3. CASE kind = "trigger"
      BY <2>1, <2>3 DEF Effect
    <2>4. CASE kind = "delete"
      BY <2>1, <2>2, <2>4, WriteBumps DEF Effect
    <2>5. CASE kind = "suspend"
      BY <2>1, <2>2, <2>5, WriteBumps DEF Effect
    <2>6. CASE kind \notin {"trigger", "delete", "suspend"}
      BY <2>1, <2>2, <2>6, WriteBumps DEF Effect
    <2> QED
      BY <2>3, <2>4, <2>5, <2>6
  <1>4. touched' \subseteq {Selected}
    <2>1. kind # "trigger" => object.uid = Selected
      BY <1>1 DEF WriteInv, RequestIsBound, ServerApplies, Admits, Selected
    <2> QED
      BY <2>1 DEF WriteInv, OnlySelectedIdentity, ServerApplies
  <1>5. RequestIsBound'
    BY <1>1, <1>2, <1>3 DEF WriteInv, RequestIsBound, GuardedTypeOK, Bumped
  <1>6. GuardedTypeOK' /\ OnlySelectedIdentity' /\ effects' \in {0, 1}
    BY <1>1, <1>2, <1>3, <1>4 DEF Bumped, WriteInv, GuardedTypeOK, OnlySelectedIdentity,
       Selected
  <1>7. err = {} => pc = "sent"
    BY <1>1, <1>2 DEF WriteInv, AnsweredIsConsistent, Answered
  <1>8. PreparingIsQuiet' /\ SentIsConsistent' /\ AnsweredIsConsistent'
    BY <1>1, <1>2, <1>7 DEF WriteInv, PreparingIsQuiet, SentIsConsistent,
       AnsweredIsConsistent, Preparing, Answered
  <1>9. VerdictIsConsistent'
    BY <1>1 DEF WriteInv, VerdictIsConsistent
  <1> QED
    BY <1>5, <1>6, <1>8, <1>9 DEF WriteInv

\* A request that was refused or lost leaves the server as it was.
LEMMA RefusalPreserves ==
    ASSUME WriteInv, ServerRefuses \/ RequestLost
    PROVE  WriteInv'
  <1>1. /\ wire # NoRequest /\ wire' = NoRequest
        /\ reply' \in {"none", "conflict", "rejected", "uncertain"}
        /\ pc # "sent" => reply' = "none"
        /\ UNCHANGED <<kind, available, object, over, pc, steps, seen, attempted,
                       accepted, refused, err, verdict, effects, touched>>
    <2>1. wire # NoRequest => reply = "none"
      BY DEF WriteInv, GuardedTypeOK, PreparingIsQuiet, SentIsConsistent,
         AnsweredIsConsistent, Preparing, Answered
    <2>2. CASE ServerRefuses
      BY <2>2 DEF ServerRefuses, Answer, captured, progress, server
    <2>3. CASE RequestLost
      BY <2>1, <2>3 DEF RequestLost, captured, progress, server
    <2> QED
      BY <2>2, <2>3
  <1>2. effects = 0 /\ pc \in {"sent", "return", "done"}
    BY <1>1 DEF WriteInv, GuardedTypeOK, PreparingIsQuiet, SentIsConsistent,
       AnsweredIsConsistent, Preparing, Answered
  <1>3. GuardedTypeOK' /\ OnlySelectedIdentity' /\ effects' \in {0, 1}
    BY <1>1 DEF WriteInv, GuardedTypeOK, OnlySelectedIdentity
  <1>4. RequestIsBound'
    BY <1>1, <1>2 DEF WriteInv, RequestIsBound, ReviewedVersion
  <1>5. PreparingIsQuiet' /\ SentIsConsistent' /\ AnsweredIsConsistent'
    BY <1>1, <1>2 DEF WriteInv, PreparingIsQuiet, SentIsConsistent,
       AnsweredIsConsistent, Preparing, Answered
  <1>6. VerdictIsConsistent'
    BY <1>1 DEF WriteInv, VerdictIsConsistent
  <1> QED
    BY <1>3, <1>4, <1>5, <1>6 DEF WriteInv

LEMMA StepPreserves == WriteInv /\ [Next]_vars => WriteInv'
  <1> SUFFICES ASSUME WriteInv, [Next]_vars PROVE WriteInv'
    OBVIOUS
  <1>1. CASE Worker
    BY <1>1, PreparationPreserves, ReadPreserves, SendPreserves, AnswerPreserves,
       SettlePreserves DEF Worker
  <1>2. CASE Environment
    BY <1>2, OthersPreserve, ApplyPreserves, RefusalPreserves DEF Environment
  <1>3. CASE UNCHANGED vars
    <2>1. GuardedTypeOK' /\ OnlySelectedIdentity' /\ effects' \in {0, 1}
      BY <1>3 DEF vars, WriteInv, GuardedTypeOK, OnlySelectedIdentity
    <2>2. PreparingIsQuiet' /\ VerdictIsConsistent'
      BY <1>3 DEF vars, WriteInv, PreparingIsQuiet, VerdictIsConsistent, Preparing
    <2>3. SentIsConsistent' /\ AnsweredIsConsistent'
      BY <1>3 DEF vars, WriteInv, SentIsConsistent, AnsweredIsConsistent, Answered
    <2>4. RequestIsBound'
      BY <1>3 DEF vars, WriteInv, RequestIsBound, ReviewedVersion
    <2> QED
      BY <2>1, <2>2, <2>3, <2>4 DEF WriteInv
  <1> QED
    BY <1>1, <1>2, <1>3 DEF Next

\* The inductive invariant holds in every reachable state.
THEOREM GuardedInvariant == Spec => []WriteInv
  BY InitEstablishes, StepPreserves, PTL DEF Spec

\* Every variable keeps its type; the number of attempts stays bounded.
THEOREM GuardedTypeCorrect == Spec => []GuardedTypeOK
  <1>1. WriteInv => GuardedTypeOK
    BY DEF WriteInv
  <1> QED
    BY <1>1, GuardedInvariant, PTL

\* No write reaches another identity than the selected one, for any number of
\* replacements and any delay of the request.
THEOREM OnlySelectedIdentityHolds == Spec => []OnlySelectedIdentity
  <1>1. WriteInv => OnlySelectedIdentity
    BY DEF WriteInv
  <1> QED
    BY <1>1, GuardedInvariant, PTL

\* What restart and suspend read is still true where their write is applied.
THEOREM AppliesToReviewedStateHolds == Spec => AppliesToReviewedState
  <1>1. WriteInv /\ [Next]_vars =>
          [effects' # effects /\ kind \in {"restart", "suspend"}
              => ~ object.blocked]_vars
    <2> SUFFICES ASSUME WriteInv, Next, effects' # effects,
                        kind \in {"restart", "suspend"}
                 PROVE  ~ object.blocked
      BY DEF vars
    <2>1. ServerApplies
      BY DEF Next, Worker, Environment, Begin, Authorized, Attempt, Read,
         WorkFails, Send, SendRefrained, GiveUp, Accepted, Rejected, Conflicted,
         Settle, OthersChange, ContextEnds, ServerRefuses, RequestLost, server
    <2>2. wire # NoRequest /\ wire.version \in {0, object.version}
      BY <2>1 DEF ServerApplies, Admits
    <2>3. wire.version # 0 /\ ReviewedVersion(wire.version)
      BY <2>2 DEF WriteInv, RequestIsBound
    <2> QED
      BY <2>2, <2>3 DEF ReviewedVersion
  <1> QED
    BY <1>1, GuardedInvariant, PTL DEF Spec, AppliesToReviewedState

\* The worker with its retries, its context and an unreliable network
\* implements the promise of the receipt.
THEOREM GuardedWriteImplementsContract == Spec => ImplementsWriteContract
  <1>1. Init => Receipt!Init
    BY DEF Init, Receipt!Init
  <1>2. WriteInv /\ WriteInv' /\ [Next]_vars => [Receipt!Next]_Receipt!vars
    <2> SUFFICES ASSUME WriteInv, WriteInv', Next
                 PROVE  Receipt!Next \/ UNCHANGED Receipt!vars
      BY DEF vars, Receipt!vars
    <2>1. CASE ServerApplies
      <3>1. /\ wire # NoRequest /\ effects' = effects + 1
            /\ UNCHANGED <<accepted, verdict>>
        BY <2>1 DEF ServerApplies, Answer, progress
      <3>2. effects = 0 /\ effects' = 1
        BY <3>1 DEF WriteInv
      <3>3. verdict \in {"PENDING", "UNKNOWN"}
        BY <3>1 DEF WriteInv, GuardedTypeOK, Verdicts, VerdictIsConsistent
      <3> QED
        BY <3>1, <3>2, <3>3 DEF Receipt!Next, Receipt!Apply
    <2>2. CASE Accepted
      <3>1. effects = 1 /\ verdict = "PENDING" /\ accepted' = TRUE
        BY <2>2 DEF Accepted, WriteInv, SentIsConsistent, VerdictIsConsistent
      <3> QED
        BY <2>2, <3>1 DEF Accepted, server, Receipt!Next, Receipt!Acknowledge
    <2>3. CASE Settle
      <3>1. /\ verdict = "PENDING" /\ pc' = "done"
            /\ UNCHANGED <<effects, accepted, err>>
            /\ verdict' = ResultState(Joined)
            /\ pc = "return"
        BY <2>3 DEF Settle, progress, server, WriteInv, VerdictIsConsistent
      <3>2. verdict' \in {"ACCEPTED", "FAILED", "CANCELED", "NOT SUBMITTED",
                          "UNKNOWN"}
        BY <3>1 DEF ResultState
      <3>3. verdict' = "ACCEPTED" => accepted
        BY <3>1 DEF ResultState, Joined, WriteInv, AnsweredIsConsistent, Answered
      <3>4. verdict' \in {"FAILED", "CANCELED", "NOT SUBMITTED"} => effects = 0
        BY <3>1 DEF WriteInv, VerdictIsConsistent
      <3>5. Receipt!Decide(verdict')
        BY <3>1, <3>3, <3>4 DEF Receipt!Decide
      <3> QED
        BY <3>2, <3>5 DEF Receipt!Next
    <2>4. CASE ~ (ServerApplies \/ Accepted \/ Settle)
      <3>1. UNCHANGED <<effects, accepted, verdict>>
        BY <2>4 DEF Next, Worker, Environment, Begin, Authorized, Attempt, Read,
           WorkFails, Send, SendRefrained, GiveUp, Rejected, Conflicted,
           OthersChange, ContextEnds, ServerRefuses, RequestLost, Answer, server,
           progress
      <3> QED
        BY <3>1 DEF Receipt!vars
    <2> QED
      BY <2>1, <2>2, <2>3, <2>4
  <1> QED
    BY <1>1, <1>2, GuardedInvariant, PTL DEF Spec, ImplementsWriteContract,
       Receipt!Spec

(***************************************************************************)
(* The drain of a node.                                                    *)
(***************************************************************************)

DrainSteps == {"list", "discover", "authorize", "cordon", "write", "done"}
WorkerSteps == {"none", "ready", "checked", "sent", "waiting", "gone", "failed"}
Methods == {"evict", "delete"}

\* Every variable has its type.
DrainTypeOK ==
    /\ pods \in [Places -> Nat] /\ recreated \in [Places -> Nat]
    /\ evictable \in BOOLEAN /\ given \in BOOLEAN /\ disabled \in BOOLEAN
    /\ cordoned \in BOOLEAN
    /\ reviewed \in [Places -> Nat] /\ expected \in [Places -> Nat]
    /\ cached \in {"unread", "yes", "no"}
    /\ drain \in DrainSteps
    /\ worker \in [Places -> WorkerSteps]
    /\ request \in [Places -> [generation : Nat, how : Methods \cup {"none"}]]
    /\ returned \in {"none", "nil", "error"}
    /\ removed \subseteq [place : Places, generation : Nat, how : Methods]

\* Generations are given once, the one to remove among them, and if the drain
\* was reviewed it is the reviewed one.
GenerationsAreOld ==
    \A p \in Places :
        /\ pods[p] <= recreated[p] /\ expected[p] <= recreated[p]
        /\ given /\ expected[p] # 0 => expected[p] = reviewed[p]

\* What the preflight announced is what the helper will find: the discovery that
\* decided is the one that is remembered.
MethodIsSettled ==
    drain \in {"authorize", "cordon"} \/ cordoned =>
        /\ method = IF disabled THEN "delete" ELSE MethodOf(cached)
        /\ disabled \/ cached # "unread"

\* Nothing is written before the cordon was accepted.
CordonComesFirst ==
    /\ drain = "write" => cordoned
    /\ cordoned => drain \in {"write", "done"}
    /\ ~cordoned => /\ removed = {}
                    /\ \A p \in Places : worker[p] = "none" /\ request[p] = NoWrite
    /\ \A p \in Places : worker[p] # "none" => expected[p] # 0

\* A request that may still be applied names the listed Pod and the method.
RequestsArePinned ==
    \A p \in Places : request[p].generation # 0 =>
        /\ request[p].generation = expected[p]
        /\ request[p].how = method

\* A worker that saw its Pod gone is right for good, and nil needs all of them.
GoneIsGone ==
    /\ \A p \in Places : worker[p] = "gone" => pods[p] # expected[p]
    /\ returned = "nil" =>
          /\ drain = "done" /\ cordoned
          /\ \A p \in Removable : worker[p] = "gone"

DInv ==
    /\ DrainTypeOK
    /\ GenerationsAreOld
    /\ MethodIsSettled
    /\ CordonComesFirst
    /\ RequestsArePinned
    /\ GoneIsGone
    /\ OnlyReviewedPods

\* The initial states: nothing is listed, cordoned or requested.
LEMMA DrainStart == DrainInit => DInv
  <1> SUFFICES ASSUME DrainInit PROVE DInv
    OBVIOUS
  <1> USE DEF DrainInit, NoWrite
  <1>1. pods \in [Places -> Nat] /\ \A p \in Places : pods[p] <= 1
    OBVIOUS
  <1>2. DrainTypeOK
    BY <1>1 DEF DrainTypeOK, DrainSteps, WorkerSteps, Methods
  <1>3. GenerationsAreOld /\ RequestsArePinned /\ GoneIsGone
    BY <1>1 DEF GenerationsAreOld, RequestsArePinned, GoneIsGone
  <1>4. MethodIsSettled /\ CordonComesFirst /\ OnlyReviewedPods
    BY DEF MethodIsSettled, CordonComesFirst, OnlyReviewedPods
  <1> QED BY <1>2, <1>3, <1>4 DEF DInv

\* The cluster, the end of the context and a preflight that gives up: whatever
\* was listed stays listed, and a new Pod has a new generation.
LEMMA EnvironmentKeeps ==
  ASSUME DInv,
         \/ \E p \in Places : PodAppears(p) \/ PodLeaves(p)
         \/ ServerChanges \/ OperationEnds \/ DrainFails
  PROVE  DInv'
  <1> USE DEF DInv, DrainTypeOK, GenerationsAreOld, MethodIsSettled, CordonComesFirst,
             RequestsArePinned, GoneIsGone, OnlyReviewedPods, NoWrite, Removable,
             optionVars, serverVars, preflightVars, podVars, DrainSteps, WorkerSteps,
             Methods, MethodOf
  <1>1. ASSUME NEW p \in Places, PodAppears(p) PROVE DInv'
    BY <1>1 DEF PodAppears
  <1>2. ASSUME NEW p \in Places, PodLeaves(p) PROVE DInv'
    BY <1>2 DEF PodLeaves
  <1>3. CASE ServerChanges
    BY <1>3 DEF ServerChanges
  <1>4. CASE OperationEnds
    BY <1>4 DEF OperationEnds
  <1>5. CASE DrainFails
    BY <1>5 DEF DrainFails
  <1> QED BY <1>1, <1>2, <1>3, <1>4, <1>5

\* The steps of drainReviewed. The list is made before anything is written; the
\* discovery that decides is remembered, so the helper's is answered from it.
LEMMA PreflightKeeps ==
  ASSUME DInv,
         \/ \E kept \in SUBSET Places : ListPods(kept)
         \/ Discover \/ Authorize \/ Cordon \/ DrainReturns
  PROVE  DInv'
  <1> USE DEF DInv, DrainTypeOK, GenerationsAreOld, MethodIsSettled, CordonComesFirst,
             RequestsArePinned, GoneIsGone, OnlyReviewedPods, NoWrite, Removable,
             optionVars, serverVars, preflightVars, podVars, DrainSteps, WorkerSteps,
             Methods, MethodOf
  <1>1. ASSUME NEW kept \in SUBSET Places, ListPods(kept) PROVE DInv'
    BY <1>1 DEF ListPods, GoOn, Listed, OnNode
  <1>2. CASE Discover
    BY <1>2 DEF Discover, Discovered, ServerSays, GoOn
  <1>3. CASE Authorize
    BY <1>3 DEF Authorize, GoOn
  <1>4. CASE Cordon
    BY <1>4 DEF Cordon
  <1>5. CASE DrainReturns
    BY <1>5 DEF DrainReturns
  <1> QED BY <1>1, <1>2, <1>3, <1>4, <1>5

\* The helper's worker for one Pod, and the server that applies its request.
LEMMA WorkerKeeps ==
  ASSUME DInv, NEW p \in Places,
         \/ CheckNode(p) \/ CheckFails(p) \/ WriteTo(p) \/ Apply(p) \/ Refuse(p)
         \/ RequestFails(p) \/ SeenGone(p) \/ WaitFails(p)
  PROVE  DInv'
  <1> USE DEF DInv, DrainTypeOK, GenerationsAreOld, MethodIsSettled, CordonComesFirst,
             RequestsArePinned, GoneIsGone, OnlyReviewedPods, NoWrite, Removable,
             optionVars, serverVars, preflightVars, podVars, DrainSteps, WorkerSteps,
             Methods, MethodOf
  <1>1. CASE CheckNode(p) \/ CheckFails(p)
    BY <1>1 DEF CheckNode, CheckFails, Works
  <1>2. CASE WriteTo(p)
    BY <1>2 DEF WriteTo, Pinned, How, Discovered, Works
  <1>3. CASE Apply(p)
    BY <1>3 DEF Apply
  <1>4. CASE Refuse(p)
    BY <1>4 DEF Refuse, Works
  <1>5. CASE RequestFails(p)
    <2>1. CASE UNCHANGED request
      BY <1>5, <2>1 DEF RequestFails, Works
    <2>2. CASE request' = [request EXCEPT ![p] = NoWrite]
      BY <1>5, <2>2 DEF RequestFails, Works
    <2> QED BY <1>5, <2>1, <2>2 DEF RequestFails
  <1>6. CASE SeenGone(p) \/ WaitFails(p)
    BY <1>6 DEF SeenGone, WaitFails, Works
  <1> QED BY <1>1, <1>2, <1>3, <1>4, <1>5, <1>6

\* The strengthened invariant of a drain (drainReviewed and the clients it gives
\* to kubectl's helper) holds for every set of places.
THEOREM DrainInvariant == DrainSpec => []DInv
  <1>1. DInv /\ [DrainNext]_drainVars => DInv'
    <2> SUFFICES ASSUME DInv, [DrainNext]_drainVars PROVE DInv'
      OBVIOUS
    <2>1. CASE DrainNext
      BY <2>1, EnvironmentKeeps, PreflightKeeps, WorkerKeeps DEF DrainNext
    <2>2. CASE UNCHANGED drainVars
      BY <2>2 DEF drainVars, DInv, DrainTypeOK, GenerationsAreOld, MethodIsSettled, CordonComesFirst,
             RequestsArePinned, GoneIsGone, OnlyReviewedPods, Removable
    <2> QED BY <2>1, <2>2
  <1> QED BY DrainStart, <1>1, PTL DEF DrainSpec

\* A drain removes only Pods it listed under their reviewed UID, after its cordon,
\* by the method it announced.
THEOREM OnlyReviewedPodsHolds == DrainSpec => []OnlyReviewedPods
  <1>1. DInv => OnlyReviewedPods
    BY DEF DInv
  <1> QED BY DrainInvariant, <1>1, PTL

\* A drain that returned nil has removed all it listed.
THEOREM DrainedIsEmptyHolds == DrainSpec => []DrainedIsEmpty
  <1>1. DInv => DrainedIsEmpty
    BY DEF DInv, GoneIsGone, DrainedIsEmpty, Removable
  <1> QED BY DrainInvariant, <1>1, PTL

(***************************************************************************)
(* Change sets.                                                            *)
(***************************************************************************)

\* At these steps nothing was sent.
Unwritten == {"none", "pending", "running", "claimed", "checked",
              "FAILED", "CANCELED", "NOT SUBMITTED"}

\* What the stage of a row, its request and the server know of each other.
RowOK(k, t) ==
    /\ stage[k][t] \in Unwritten => made[k][t] = {} /\ flight[k][t] = "none"
    /\ flight[k][t] \in {"sent", "refused"} => made[k][t] = {}
    /\ stage[k][t] = "OBSERVED" => made[k][t] # {}
    /\ k > submitted => stage[k][t] = "none"

RowsOK == \A k \in Tasks, t \in Targets : RowOK(k, t)

\* The operation may write the row, or has written it.
Holds(k, t) ==
    \/ stage[k][t] \in {"claimed", "checked", "sent", "accepted"}
    \/ flight[k][t] = "sent"
    \/ made[k][t] # {}

\* Who holds a row has claimed it, and nobody else holds it for the same plan.
ClaimsOK ==
    \A k \in Tasks, t \in Targets : Holds(k, t) =>
        /\ <<task[k].plan, t>> \in claimed
        /\ \A j \in Tasks : Holds(j, t) /\ task[j].plan = task[k].plan => j = k

\* The page awaits the latest preparation or none, and has no plan meanwhile.
PageOK ==
    /\ withdrawn \subseteq 1..started
    /\ view.loading => view.plan = 0 /\ view.awaits # 0
    /\ view.awaits # 0 => view.awaits = started /\ view.awaits \notin withdrawn
    /\ PlanIsLatest

ChangeInv == ChangeTypeOK /\ RowsOK /\ ClaimsOK /\ PageOK

-----------------------------------------------------------------------------
(* The beginning.                                                          *)

\* A page that was just opened satisfies the invariant.
LEMMA ChangeInvInit == ChangeInit => ChangeInv
  <1> SUFFICES ASSUME ChangeInit PROVE ChangeInv
    OBVIOUS
  <1> USE ChangeSetAssumption DEF ChangeInit
  <1>1. ChangeTypeOK
    BY DEF ChangeTypeOK, Objects, Stages, Unread, NoTask, Targets, Plans, Tasks
  <1>2. \A k \in Tasks, t \in Targets :
            stage[k][t] = "none" /\ flight[k][t] = "none" /\ made[k][t] = {}
    OBVIOUS
  <1>3. RowsOK
    BY <1>2 DEF RowsOK, RowOK
  <1>4. ClaimsOK
    BY <1>2 DEF ClaimsOK, Holds
  <1>5. PageOK
    BY DEF PageOK, PlanIsLatest
  <1> QED BY <1>1, <1>3, <1>4, <1>5 DEF ChangeInv

-----------------------------------------------------------------------------
(* Steps of a row.                                                         *)

Flights == {"none", "sent", "ok", "refused", "uncertain"}

\* What a step of one row leaves alone.
OnlyRow(k, t) ==
    /\ \A j \in Tasks, u \in Targets : j # k \/ u # t =>
          stage'[j][u] = stage[j][u] /\ flight'[j][u] = flight[j][u] /\ made'[j][u] = made[j][u]
    /\ UNCHANGED <<pageVars, planVars, taskVars>>

Quiet(k, t) == flight'[k][t] = flight[k][t] /\ made'[k][t] = made[k][t]

Moves(k, t, from, to) == stage[k][t] \in from /\ stage'[k][t] \in to

\* The ways a row may go, and who may claim it.
RowMove(k, t) ==
    \/ /\ \/ Moves(k, t, {"pending"}, {"CANCELED", "NOT SUBMITTED", "running"})
          \/ Moves(k, t, {"running", "claimed", "checked"}, {"FAILED", "CANCELED"})
          \/ Moves(k, t, {"claimed"}, {"checked"})
          \/ Moves(k, t, {"sent"}, {"UNKNOWN"}) 
          \/ Moves(k, t, {"accepted"}, {"UNKNOWN"})
          \/ Moves(k, t, {"accepted"}, {"OBSERVED"}) /\ made[k][t] # {}
       /\ Quiet(k, t) /\ claimed' = claimed
    \/ /\ Moves(k, t, {"running"}, {"claimed"}) /\ Quiet(k, t)
       /\ <<task[k].plan, t>> \notin claimed
       /\ claimed' = claimed \union {<<task[k].plan, t>>}
    \/ /\ made'[k][t] = made[k][t] /\ claimed' = claimed
       /\ \/ Moves(k, t, {"checked"}, {"sent"}) /\ flight'[k][t] = "sent"
          \/ /\ flight'[k][t] = "none"
             /\ \/ Moves(k, t, {"sent"}, {"UNKNOWN", "accepted"})
                \/ Moves(k, t, {"sent"}, {"FAILED"}) /\ flight[k][t] = "refused"
    \/ /\ flight[k][t] = "sent" /\ stage'[k][t] = stage[k][t] /\ claimed' = claimed
       /\ \/ made'[k][t] # {} /\ flight'[k][t] \in {"ok", "uncertain", "none"}
          \/ made'[k][t] = made[k][t] /\ flight'[k][t] \in {"refused", "uncertain", "none"}

\* Go moves one row.
LEMMA GoMoves ==
    ASSUME stage \in [Tasks -> [Targets -> Stages]], NEW k \in Tasks, NEW t \in Targets,
           NEW s \in Stages, Go(k, t, s)
    PROVE  /\ stage' \in [Tasks -> [Targets -> Stages]]
           /\ stage'[k][t] = s
           /\ \A j \in Tasks, u \in Targets : j # k \/ u # t => stage'[j][u] = stage[j][u]
  BY DEF Go

\* A request moves on, or its answer, for one row.
LEMMA FlightMoves ==
    ASSUME flight \in [Tasks -> [Targets -> Flights]], NEW k \in Tasks, NEW t \in Targets,
           NEW f \in Flights, flight' = [flight EXCEPT ![k][t] = f]
    PROVE  /\ flight' \in [Tasks -> [Targets -> Flights]]
           /\ flight'[k][t] = f
           /\ \A j \in Tasks, u \in Targets : j # k \/ u # t => flight'[j][u] = flight[j][u]
  OBVIOUS

\* The types of what a step of a row may change.
RowTypes ==
    /\ stage \in [Tasks -> [Targets -> Stages]]
    /\ flight \in [Tasks -> [Targets -> Flights]]
    /\ made \in [Tasks -> [Targets -> SUBSET Objects]]

\* Work that moves the stage alone.
LEMMA StageStep ==
    ASSUME RowTypes, NEW k \in Tasks, NEW t \in Targets,
           \/ NotStarted(k, t) \/ Run(k, t) \/ Fail(k, t) \/ Claim(k, t) \/ Check(k, t)
           \/ StopWaiting(k, t) \/ Observe(k, t)
    PROVE  RowTypes' /\ OnlyRow(k, t) /\ RowMove(k, t)
  <1> USE DEF RowTypes, Worked, pageVars, planVars, taskVars, objectVars, At
  <1>1. UNCHANGED <<flight, made, pageVars, planVars, taskVars>>
    BY DEF NotStarted, Run, Fail, Claim, Check, StopWaiting, Observe
  <1>2. ASSUME NEW s \in Stages, Go(k, t, s)
        PROVE  RowTypes' /\ OnlyRow(k, t) /\ stage'[k][t] = s /\ Quiet(k, t)
    BY <1>1, <1>2, GoMoves DEF OnlyRow, Quiet
  <1>3. {"CANCELED", "NOT SUBMITTED", "running", "FAILED", "claimed", "checked", "UNKNOWN",
         "OBSERVED"} \subseteq Stages
    BY DEF Stages, Outcomes
  <1>4. CASE NotStarted(k, t)
    BY <1>2, <1>3, <1>4 DEF NotStarted, Turn, RowMove, Moves
  <1>5. CASE Run(k, t)
    BY <1>2, <1>3, <1>5 DEF Run, Turn, RowMove, Moves
  <1>6. CASE Fail(k, t)
    BY <1>2, <1>3, <1>6 DEF Fail, RowMove, Moves
  <1>7. CASE Claim(k, t)
    BY <1>2, <1>3, <1>7 DEF Claim, Fit, RowMove, Moves
  <1>8. CASE Check(k, t)
    BY <1>2, <1>3, <1>8 DEF Check, RowMove, Moves
  <1>9. CASE StopWaiting(k, t)
    BY <1>2, <1>3, <1>9 DEF StopWaiting, RowMove, Moves
  <1>10. CASE Observe(k, t)
    BY <1>2, <1>3, <1>10 DEF Observe, RowMove, Moves
  <1> QED BY <1>4, <1>5, <1>6, <1>7, <1>8, <1>9, <1>10

\* Work that sends a request or takes its answer.
LEMMA RequestStep ==
    ASSUME RowTypes, NEW k \in Tasks, NEW t \in Targets,
           SendWrite(k, t) \/ Refused(k, t) \/ Accept(k, t)
    PROVE  RowTypes' /\ OnlyRow(k, t) /\ RowMove(k, t)
  <1> USE DEF RowTypes, Worked, pageVars, planVars, taskVars, objectVars, At
  <1>1. UNCHANGED <<made, claimed, pageVars, planVars, taskVars>>
    BY DEF SendWrite, Refused, Accept
  <1>2. ASSUME NEW s \in Stages, Go(k, t, s), NEW f \in Flights,
               flight' = [flight EXCEPT ![k][t] = f]
        PROVE  RowTypes' /\ OnlyRow(k, t) /\ stage'[k][t] = s /\ flight'[k][t] = f
    BY <1>1, <1>2, GoMoves, FlightMoves DEF OnlyRow
  <1>3. {"sent", "FAILED", "UNKNOWN", "accepted"} \subseteq Stages /\ {"sent", "none"} \subseteq Flights
    BY DEF Stages, Outcomes, Flights
  <1>4. CASE SendWrite(k, t)
    BY <1>1, <1>2, <1>3, <1>4 DEF SendWrite, RowMove, Moves
  <1>5. CASE Refused(k, t)
    BY <1>1, <1>2, <1>3, <1>5 DEF Refused, RowMove, Moves
  <1>6. CASE Accept(k, t)
    BY <1>1, <1>2, <1>3, <1>6 DEF Accept, RowMove, Moves
  <1> QED BY <1>4, <1>5, <1>6

\* The server persists, rejects or loses a request.
LEMMA ServerStep ==
    ASSUME RowTypes, objects \in [Targets -> Objects], NEW k \in Tasks, NEW t \in Targets,
           Server(k, t)
    PROVE  RowTypes' /\ OnlyRow(k, t) /\ RowMove(k, t) /\ objects' \in [Targets -> Objects]
  <1> USE DEF RowTypes, Served, pageVars, planVars, taskVars, objectVars
  <1>1. UNCHANGED <<stage, claimed, pageVars, planVars, taskVars>> /\ flight[k][t] = "sent"
    BY DEF Server, Persist, Reject, Lose
  <1>2. ASSUME NEW f \in Flights, flight' = [flight EXCEPT ![k][t] = f]
        PROVE  /\ flight' \in [Tasks -> [Targets -> Flights]] /\ flight'[k][t] = f
               /\ \A j \in Tasks, u \in Targets : j # k \/ u # t => flight'[j][u] = flight[j][u]
    BY <1>2, FlightMoves
  <1>3. {"ok", "uncertain", "none", "refused"} \subseteq Flights
    BY DEF Flights
  <1>4. CASE Persist(k, t)
    <2> DEFINE o == Written(t, objects[t].uid)
    <2>1. o \in Objects
      BY DEF Objects, Written
    <2>2. /\ objects' = [objects EXCEPT ![t] = o]
          /\ made' = [made EXCEPT ![k][t] = @ \union {o}]
      BY <1>4 DEF Persist
    <2> HIDE DEF o
    <2>3. /\ made' \in [Tasks -> [Targets -> SUBSET Objects]] /\ made'[k][t] # {}
          /\ \A j \in Tasks, u \in Targets : j # k \/ u # t => made'[j][u] = made[j][u]
      BY <2>1, <2>2
    <2>4. \E f \in {"ok", "uncertain", "none"} : flight' = [flight EXCEPT ![k][t] = f]
      BY <1>4 DEF Persist, Respond
    <2>5. objects' \in [Targets -> Objects]
      BY <2>1, <2>2
    <2>6. /\ flight' \in [Tasks -> [Targets -> Flights]]
          /\ flight'[k][t] \in {"ok", "uncertain", "none"}
          /\ \A j \in Tasks, u \in Targets : j # k \/ u # t => flight'[j][u] = flight[j][u]
      BY <1>2, <1>3, <2>4
    <2> QED BY <1>1, <2>3, <2>5, <2>6 DEF OnlyRow, RowMove
  <1>5. CASE Reject(k, t) \/ Lose(k, t)
    <2>1. \E f \in {"refused", "uncertain", "none"} : flight' = [flight EXCEPT ![k][t] = f]
      <3>1. CASE Reject(k, t)
        <4>1. PICK a \in {"refused", "uncertain"} :
                 flight' = [flight EXCEPT ![k][t] = IF At(k, t, "sent") THEN a ELSE "none"]
          BY <3>1 DEF Reject, Respond
        <4> QED BY <4>1
      <3>2. CASE Lose(k, t)
        BY <3>2 DEF Lose
      <3> QED BY <1>5, <3>1, <3>2
    <2>2. UNCHANGED <<made, objects>>
      BY <1>5 DEF Reject, Lose
    <2> QED BY <1>1, <1>2, <1>3, <2>1, <2>2 DEF OnlyRow, RowMove
  <1> QED BY <1>4, <1>5 DEF Server

\* A move keeps what the stage, the request and the server know of each other.
LEMMA MoveKeepsRow ==
    ASSUME NEW k \in Tasks, NEW t \in Targets, RowOK(k, t), RowMove(k, t), OnlyRow(k, t)
    PROVE  RowOK(k, t)'
  BY DEF RowOK, RowMove, Moves, Quiet, Unwritten, OnlyRow, taskVars

\* Only a claim makes an operation a holder, and there is no other for the plan then.
LEMMA MoveOfHolder ==
    ASSUME NEW k \in Tasks, NEW t \in Targets, RowOK(k, t), RowMove(k, t)
    PROVE  /\ claimed \subseteq claimed'
           /\ Holds(k, t)' => \/ Holds(k, t)
                              \/ /\ <<task[k].plan, t>> \in claimed'
                                 /\ <<task[k].plan, t>> \notin claimed
  BY DEF RowOK, RowMove, Moves, Quiet, Unwritten, Holds

\* A step of a row keeps the invariant.
LEMMA RowStep ==
    ASSUME ChangeInv, NEW k \in Tasks, NEW t \in Targets, Work(k, t) \/ Server(k, t)
    PROVE  ChangeInv'
  <1>1. RowTypes /\ objects \in [Targets -> Objects]
    BY DEF ChangeInv, ChangeTypeOK, RowTypes, Flights
  <1>2. RowTypes' /\ OnlyRow(k, t) /\ RowMove(k, t) /\ objects' \in [Targets -> Objects]
    <2>1. CASE Server(k, t)
      BY <1>1, <2>1, ServerStep
    <2>2. CASE Work(k, t)
      <3>1. objects' = objects
        BY <2>2 DEF Work, NotStarted, Run, Fail, Claim, Check, SendWrite, StopWaiting, Refused,
                    Accept, Observe, Worked, objectVars
      <3> QED BY <1>1, <2>2, <3>1, StageStep, RequestStep DEF Work
    <2> QED BY <2>1, <2>2
  <1>3. UNCHANGED <<expired, halted>>
    BY DEF Work, NotStarted, Run, Fail, Claim, Check, SendWrite, StopWaiting, Refused,
           Accept, Observe, Worked, Server, Persist, Reject, Lose, Served
  <1>4. UNCHANGED <<view, current, started, prep, withdrawn, review, task, submitted>>
    BY <1>2 DEF OnlyRow, pageVars, planVars, taskVars
  <1>5. RowOK(k, t)
    BY DEF ChangeInv, RowsOK
  <1>6. ChangeTypeOK'
    <2>1. task[k].plan \in 0..MaxPlans
      BY DEF ChangeInv, ChangeTypeOK
    <2>2. claimed' \subseteq claimed \union {<<task[k].plan, t>>}
      BY <1>2 DEF RowMove
    <2>3. claimed' \subseteq (0..MaxPlans) \X Targets
      BY <2>1, <2>2 DEF ChangeInv, ChangeTypeOK
    <2> QED BY <1>2, <1>3, <1>4, <2>3 DEF ChangeInv, ChangeTypeOK, RowTypes, Flights
  <1>7. RowsOK'
    <2> SUFFICES ASSUME NEW j \in Tasks, NEW u \in Targets PROVE RowOK(j, u)'
      BY DEF RowsOK
    <2>1. CASE j = k /\ u = t
      BY <1>2, <1>5, <2>1, MoveKeepsRow
    <2>2. CASE j # k \/ u # t
      BY <1>2, <1>4, <2>2 DEF ChangeInv, RowsOK, RowOK, OnlyRow
    <2> QED BY <2>1, <2>2
  <1>8. ClaimsOK'
    <2> SUFFICES ASSUME NEW j \in Tasks, NEW u \in Targets, Holds(j, u)'
                 PROVE  /\ <<task[j].plan, u>> \in claimed'
                        /\ \A i \in Tasks : Holds(i, u)' /\ task[i].plan = task[j].plan => i = j
      BY <1>4 DEF ClaimsOK
    <2>1. /\ claimed \subseteq claimed'
          /\ Holds(k, t)' => \/ Holds(k, t)
                             \/ /\ <<task[k].plan, t>> \in claimed'
                                /\ <<task[k].plan, t>> \notin claimed
      BY <1>2, <1>5, MoveOfHolder
    <2>2. \A i \in Tasks : i # k \/ u # t => (Holds(i, u)' <=> Holds(i, u))
      BY <1>2 DEF OnlyRow, Holds
    <2>3. \A i \in Tasks : Holds(i, u) =>
             /\ <<task[i].plan, u>> \in claimed
             /\ \A h \in Tasks : Holds(h, u) /\ task[h].plan = task[i].plan => h = i
      BY DEF ChangeInv, ClaimsOK
    <2>4. <<task[j].plan, u>> \in claimed'
      BY <2>1, <2>2, <2>3
    <2>5. ASSUME NEW i \in Tasks, Holds(i, u)', task[i].plan = task[j].plan PROVE i = j
      BY <2>1, <2>2, <2>3, <2>5
    <2> QED BY <2>4, <2>5
  <1>9. PageOK'
    BY <1>4 DEF ChangeInv, PageOK, PlanIsLatest
  <1> QED BY <1>6, <1>7, <1>8, <1>9 DEF ChangeInv

-----------------------------------------------------------------------------
(* Steps of the page, of preparations and of others.                       *)

\* A step that leaves the work of all operations alone keeps what it knows.
LEMMA WorkKept ==
    ASSUME RowsOK, ClaimsOK, UNCHANGED <<claimed, task, submitted, stage, flight, made>>
    PROVE  RowsOK' /\ ClaimsOK'
  BY DEF RowsOK, RowOK, ClaimsOK, Holds

\* What the page may remember.
Views == [active : BOOLEAN, loading : BOOLEAN, plan : 0..MaxPlans, task : 0..MaxTasks,
          awaits : 0..MaxPlans]

\* One field of it changes.
LEMMA ViewChanges ==
    ASSUME NEW v \in Views, NEW b \in BOOLEAN, NEW p \in 0..MaxPlans, NEW k \in 0..MaxTasks
    PROVE  /\ [v EXCEPT !.active = b] \in Views
           /\ [v EXCEPT !.loading = b] \in Views
           /\ [v EXCEPT !.plan = p] \in Views
           /\ [v EXCEPT !.awaits = p] \in Views
           /\ [v EXCEPT !.task = k] \in Views
  BY DEF Views

\* A step of the page keeps the invariant.
LEMMA PageStep ==
    ASSUME ChangeInv, Page
    PROVE  ChangeInv'
  <1> USE ChangeSetAssumption DEF ChangeInv, pageVars, planVars, taskVars, objectVars, workVars
  <1>0. 0 \in 0..MaxPlans /\ 0 \in 0..MaxTasks
    OBVIOUS
  <1>1. CASE Prepare
    <2>1. ChangeTypeOK'
      <3>1. started' \in 0..MaxPlans /\ started' \in Plans
        BY <1>1 DEF Prepare, ChangeTypeOK, Plans
      <3>2. view \in Views
        BY DEF ChangeTypeOK, Views
      <3>3. view' \in Views
        BY <1>0, <1>1, <3>1, <3>2, ViewChanges, Zenon DEF Prepare
      <3>4. prep' \in [Plans -> {"none", "reading", "planned", "failed", "gone"}]
        BY <1>1, <3>1 DEF Prepare, ChangeTypeOK
      <3> QED BY <1>1, <3>1, <3>3, <3>4 DEF Prepare, ChangeTypeOK, Views
    <2>2. PageOK'
      BY <1>1 DEF Prepare, ChangeTypeOK, PageOK, PlanIsLatest, Plans
    <2> QED BY <1>1, <2>1, <2>2, WorkKept DEF Prepare
  <1>2. ASSUME NEW rows \in SUBSET Targets, Submit(rows)
        PROVE  ChangeInv'
    <2>1. submitted' \in Tasks /\ submitted' = submitted + 1
      BY <1>2 DEF Submit, ChangeTypeOK, Tasks
    <2>2. stage' \in [Tasks -> [Targets -> Stages]]
      BY <1>2, <2>1 DEF Submit, ChangeTypeOK, Stages
    <2>3. ChangeTypeOK'
      <3>1. view \in Views
        BY DEF ChangeTypeOK, Views
      <3>2. view' \in Views
        BY <1>2, <2>1, <3>1 DEF Submit, Views, Tasks
      <3>3. view.plan \in 0..MaxPlans /\ {t \in rows : ~ Fit(view.plan, t)} \in SUBSET Targets
        BY <3>1 DEF Views
      <3>4. task' \in [Tasks -> [plan : 0..MaxPlans, rows : SUBSET Targets, unfit : SUBSET Targets]]
        BY <1>2, <2>1, <3>3 DEF Submit, ChangeTypeOK
      <3>5. submitted' \in 0..MaxTasks
        BY <2>1 DEF Tasks
      <3> QED BY <1>2, <2>2, <3>2, <3>4, <3>5 DEF Submit, ChangeTypeOK, Views
    <2>4. \A j \in Tasks, u \in Targets :
             IF j = submitted' THEN stage[j][u] = "none" /\ stage'[j][u] \in {"none", "pending"}
             ELSE stage'[j][u] = stage[j][u] /\ task'[j] = task[j]
      BY <1>2, <2>1 DEF Submit, ChangeTypeOK, RowsOK, RowOK, Tasks
    <2>5. UNCHANGED <<flight, made, claimed>>
      BY <1>2 DEF Submit
    <2>6. RowsOK'
      <3> SUFFICES ASSUME NEW j \in Tasks, NEW u \in Targets PROVE RowOK(j, u)'
        BY DEF RowsOK
      <3>1. RowOK(j, u)
        BY DEF RowsOK
      <3>2. submitted \in Int /\ j \in Int
        BY DEF ChangeTypeOK, Tasks
      <3>3. CASE j = submitted'
        <4>1. stage[j][u] = "none" /\ stage'[j][u] \in {"none", "pending"}
          BY <2>4, <3>3
        <4>2. made'[j][u] = {} /\ flight'[j][u] = "none"
          BY <2>5, <3>1, <4>1 DEF RowOK, Unwritten
        <4> QED BY <2>1, <3>2, <3>3, <4>1, <4>2 DEF RowOK
      <3>4. CASE j # submitted'
        BY <2>1, <2>4, <2>5, <3>1, <3>2, <3>4 DEF RowOK
      <3> QED BY <3>3, <3>4
    <2>7. \A j \in Tasks, u \in Targets :
             Holds(j, u)' => j # submitted' /\ Holds(j, u)
      BY <2>4, <2>5 DEF RowsOK, RowOK, Unwritten, Holds
    <2>8. ClaimsOK'
      BY <2>4, <2>5, <2>7 DEF ClaimsOK
    <2>9. PageOK'
      BY <1>2 DEF Submit, PageOK, PlanIsLatest, ChangeTypeOK
    <2> QED BY <2>3, <2>6, <2>8, <2>9
  <1>3. CASE CancelRemaining
    <2>1. ChangeTypeOK'
      <3>1. withdrawn' \subseteq Plans
        BY <1>3 DEF CancelRemaining, Withdrawn, ChangeTypeOK, PageOK, Plans
      <3>2. halted' \subseteq Tasks
        BY <1>3 DEF CancelRemaining, ChangeTypeOK, Tasks
      <3>3. view \in Views
        BY DEF ChangeTypeOK, Views
      <3>4. view' \in Views
        BY <1>0, <1>3, <3>3, ViewChanges, Zenon DEF CancelRemaining
      <3> QED BY <1>3, <3>1, <3>2, <3>4 DEF CancelRemaining, ChangeTypeOK, Views
    <2>2. PageOK'
      BY <1>3 DEF CancelRemaining, Withdrawn, ChangeTypeOK, PageOK, PlanIsLatest
    <2> QED BY <1>3, <2>1, <2>2, WorkKept DEF CancelRemaining
  <1>4. CASE Leave
    <2>1. ChangeTypeOK'
      <3>1. withdrawn' \subseteq Plans
        BY <1>4 DEF Leave, Withdrawn, ChangeTypeOK, PageOK, Plans
      <3>3. view \in Views
        BY DEF ChangeTypeOK, Views
      <3>4. view' \in Views
        BY <1>0, <1>4, <3>3, ViewChanges, Zenon DEF Leave
      <3> QED BY <1>4, <3>1, <3>4 DEF Leave, ChangeTypeOK, Views
    <2>2. PageOK'
      BY <1>4 DEF Leave, Withdrawn, ChangeTypeOK, PageOK, PlanIsLatest
    <2> QED BY <1>4, <2>1, <2>2, WorkKept DEF Leave
  <1>5. CASE ComeBack
    BY <1>5, WorkKept DEF ComeBack, ChangeTypeOK, PageOK, PlanIsLatest
  <1>6. CASE DestinationChanges
    BY <1>6, WorkKept DEF DestinationChanges, ChangeTypeOK, PageOK, PlanIsLatest
  <1>7. CASE Draw
    <2>1. ChangeTypeOK'
      <3>1. withdrawn' \subseteq Plans
        BY <1>7 DEF Draw, Withdrawn, ChangeTypeOK, PageOK, Plans
      <3>3. view \in Views
        BY DEF ChangeTypeOK, Views
      <3>4. view' \in Views
        BY <1>0, <1>7, <3>3, ViewChanges, Zenon DEF Draw
      <3> QED BY <1>7, <3>1, <3>4 DEF Draw, ChangeTypeOK, Views
    <2>2. PageOK'
      BY <1>7 DEF Draw, Withdrawn, ChangeTypeOK, PageOK, PlanIsLatest
    <2> QED BY <1>7, <2>1, <2>2, WorkKept DEF Draw
  <1> QED BY <1>1, <1>2, <1>3, <1>4, <1>5, <1>6, <1>7 DEF Page

\* So does a step of a preparation or the end of its time, which the work ignores.
LEMMA PlanStep ==
    ASSUME ChangeInv, NEW p \in Plans,
           Reviewed(p) \/ Install(p) \/ Expire(p) \/ \E t \in Targets : Review(p, t)
    PROVE  ChangeInv'
  <1> USE ChangeSetAssumption DEF ChangeInv, pageVars, planVars, taskVars, objectVars, workVars
  <1>1. CASE Reviewed(p)
    <2>1. prep' \in [Plans -> {"none", "reading", "planned", "failed", "gone"}]
      BY <1>1 DEF Reviewed, ChangeTypeOK
    <2> QED BY <1>1, <2>1, WorkKept DEF Reviewed, ChangeTypeOK, PageOK, PlanIsLatest
  <1>2. CASE Install(p)
    <2>1. ChangeTypeOK'
      BY <1>2 DEF Install, ChangeTypeOK, Plans
    <2>2. PageOK'
      BY <1>2 DEF Install, PageOK, PlanIsLatest, ChangeTypeOK, Plans
    <2> QED BY <1>2, <2>1, <2>2, WorkKept DEF Install
  <1>3. CASE Expire(p)
    BY <1>3, WorkKept DEF Expire, ChangeTypeOK, PageOK, PlanIsLatest
  <1>4. ASSUME NEW t \in Targets, Review(p, t) PROVE ChangeInv'
    <2>1. review' \in [Plans -> [Targets -> Objects]]
      BY <1>4 DEF Review, ChangeTypeOK, Blocked, Objects
    <2> QED BY <1>4, <2>1, WorkKept DEF Review, ChangeTypeOK, PageOK, PlanIsLatest
  <1> QED BY <1>1, <1>2, <1>3, <1>4

\* So do a cancelled operation and other writers.
LEMMA OtherStep ==
    ASSUME ChangeInv, (\E k \in Tasks : Halt(k)) \/ (\E t \in Targets : OthersWrite(t))
    PROVE  ChangeInv'
  <1> USE DEF ChangeInv, pageVars, planVars, taskVars, objectVars, Served
  <1>1. ASSUME NEW k \in Tasks, Halt(k) PROVE ChangeInv'
    BY <1>1, WorkKept DEF Halt, ChangeTypeOK, PageOK, PlanIsLatest
  <1>2. ASSUME NEW t \in Targets, OthersWrite(t) PROVE ChangeInv'
    <2>1. objects' \in [Targets -> Objects]
      <3>1. objects[t] \in Objects /\ objects[t].version + 1 \in Int
        BY DEF ChangeTypeOK, Objects
      <3>2. Written(t, objects[t].uid) \in Objects
        BY <3>1 DEF Written, Objects
      <3>3. [uid |-> 0, version |-> objects[t].version + 1] \in Objects
        BY <3>1 DEF Objects
      <3> QED BY <1>2, <3>2, <3>3 DEF OthersWrite, ChangeTypeOK
    <2> QED BY <1>2, <2>1, WorkKept DEF OthersWrite, ChangeTypeOK, PageOK, PlanIsLatest
  <1> QED BY <1>1, <1>2

\* Nothing happens.
LEMMA ChangeStutter == ChangeInv /\ UNCHANGED changeVars => ChangeInv'
  BY DEF ChangeInv, ChangeTypeOK, RowsOK, RowOK, ClaimsOK, Holds, PageOK, PlanIsLatest,
         changeVars, pageVars, planVars, taskVars, objectVars, workVars

\* Every step keeps the invariant.
LEMMA ChangeInvStep == ChangeInv /\ [ChangeNext]_changeVars => ChangeInv'
  BY RowStep, PageStep, PlanStep, OtherStep, ChangeStutter DEF ChangeNext

-----------------------------------------------------------------------------
(* What the change set promises.                                           *)

\* The strengthened invariant holds for any number of rows, preparations and
\* operations, and whatever others write.
THEOREM ChangeInvariant == ChangeSpec => []ChangeInv
  BY ChangeInvInit, ChangeInvStep, PTL DEF ChangeSpec

\* Every variable keeps its type.
THEOREM ChangeTypeCorrect == ChangeSpec => []ChangeTypeOK
  <1>1. ChangeInv => ChangeTypeOK
    BY DEF ChangeInv
  <1> QED BY <1>1, ChangeInvariant, PTL

\* What a receipt says about a write is true and stays true.
THEOREM ReceiptIsTrueHolds == ChangeSpec => []ReceiptIsTrue
  <1>1. ChangeInv => ReceiptIsTrue
    BY DEF ChangeInv, RowsOK, RowOK, Unwritten, ReceiptIsTrue
  <1> QED BY <1>1, ChangeInvariant, PTL

\* The plan that can be applied is of the latest preparation, not cancelled.
THEOREM PlanIsLatestHolds == ChangeSpec => []PlanIsLatest
  <1>1. ChangeInv => PlanIsLatest
    BY DEF ChangeInv, PageOK
  <1> QED BY <1>1, ChangeInvariant, PTL

\* The server writes a row at most once for a plan, and as it was reviewed.
LEMMA WriteStep ==
    ChangeInv /\ [ChangeNext]_changeVars =>
       [\A k \in Tasks, t \in Targets : made'[k][t] # made[k][t] =>
           /\ AsReviewed(k, t)
           /\ \A j \in Tasks : task[j].plan = task[k].plan => made[j][t] = {}]_changeVars
  <1> SUFFICES ASSUME ChangeInv, ChangeNext, NEW k \in Tasks, NEW t \in Targets,
                      made'[k][t] # made[k][t]
               PROVE  /\ AsReviewed(k, t)
                      /\ \A j \in Tasks : task[j].plan = task[k].plan => made[j][t] = {}
    OBVIOUS
  <1>1. Persist(k, t)
    <2>1. made' # made
      OBVIOUS
    <2>2. PICK i \in Tasks, u \in Targets : Work(i, u) \/ Server(i, u)
      BY <2>1 DEF ChangeNext, Page, Prepare, Submit, CancelRemaining, Leave, ComeBack,
                  DestinationChanges, Draw, Reviewed, Install, Expire, Review, Halt,
                  OthersWrite, workVars, objectVars
    <2>3. Persist(i, u)
      BY <2>1, <2>2 DEF Work, NotStarted, Run, Fail, Claim, Check, SendWrite, StopWaiting,
                        Refused, Accept, Observe, Worked, Server, Reject, Lose, objectVars
    <2>4. OnlyRow(i, u)
      BY <2>3, ServerStep DEF Server, ChangeInv, ChangeTypeOK, RowTypes, Flights
    <2>5. i = k /\ u = t
      BY <2>4 DEF OnlyRow
    <2> QED BY <2>3, <2>5
  <1>2. AsReviewed(k, t) /\ flight[k][t] = "sent"
    BY <1>1 DEF Persist
  <1>3. ASSUME NEW j \in Tasks, task[j].plan = task[k].plan, made[j][t] # {}
        PROVE  FALSE
    <2>1. Holds(k, t) /\ Holds(j, t)
      BY <1>2, <1>3 DEF Holds
    <2>2. j = k
      BY <1>3, <2>1 DEF ChangeInv, ClaimsOK
    <2>3. made[k][t] = {}
      BY <1>2 DEF ChangeInv, RowsOK, RowOK
    <2> QED BY <1>3, <2>2, <2>3
  <1> QED BY <1>2, <1>3

\* However often, in parallel and late a plan is applied, a row is written at most
\* once for it, and only in the state that its dry run was for.
THEOREM AppliedOnceAsReviewedHolds == ChangeSpec => AppliedOnceAsReviewed
  BY ChangeInvariant, WriteStep, PTL DEF ChangeSpec, AppliedOnceAsReviewed
=============================================================================
