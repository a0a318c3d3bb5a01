---------------------------- MODULE GuardedWrite ----------------------------
(***************************************************************************)
(* One target of a guarded operation: restart, scale, delete, cordon,      *)
(* suspend or resume, or the manual trigger of a CronJob (internal/view/   *)
(* operation_runner.go, operation_maintenance.go, operation_cronjob.go),   *)
(* from the worker's first look at its context to the state in the receipt *)
(* (operation_ledger.go).                                                  *)
(*                                                                         *)
(* The API server and the transport are external: other actors change,     *)
(* remove and replace the object; a request may be applied, refused,       *)
(* answered uncertainly or lost, and applied after its client gave up.     *)
(* Errors are what operationResultState tells apart: the end of the        *)
(* context, an uncertain outcome (transport error, status >= 500, worker   *)
(* panic), anything else. The objects written and the answers' texts are   *)
(* left out; "blocked" is the one fact of the object that work looks at:   *)
(* a paused Deployment, a CronJob that is not in the reviewed state.       *)
(***************************************************************************)
EXTENDS Integers

CONSTANTS
    Kinds,       \* the operations explored
    MaxSteps,    \* attempts of retryOperationConflict (4 in the code)
    MaxVersion   \* bound of the model: versions other actors may produce

Operations == {"restart", "scale", "delete", "cordon", "suspend", "trigger"}

ASSUME WriteAssumption ==
    /\ Kinds \subseteq Operations
    /\ MaxSteps \in Nat \ {0}
    /\ MaxVersion \in Nat

VARIABLES
    kind,       \* the operation
    available,  \* the selection was complete (UnavailableReason is empty)
    object,     \* the server's object under the selected name
    over,       \* the task's context was cancelled or its deadline passed
    pc,         \* where the worker is
    steps,      \* attempts answered with a conflict
    seen,       \* the resourceVersion of the last read
    wire,       \* the request in flight, NoRequest if none
    reply,      \* the server's answer on its way back
    attempted,  \* operationProgress.attempted
    accepted,   \* operationProgress.accepted is not empty
    refused,    \* notSubmitted: the work was never called
    err,        \* what the work's error wraps; {} is nil
    verdict,    \* operationOutcome.State
    effects,    \* how many requests the server applied
    touched     \* the identities they were applied to

vars == <<kind, available, object, over, pc, steps, seen, wire, reply,
          attempted, accepted, refused, err, verdict, effects, touched>>

captured == <<kind, available>>
progress == <<attempted, accepted, refused>>
server == <<object, effects, touched>>
network == <<wire, reply>>

\* An object's UID is the version it was created with, 0 is no object.
Selected == 1
NoRequest == [uid |-> 0, version |-> -1]
Requests == [uid : Nat, version : Nat]

ErrorKinds == {"context", "definite", "uncertain"}

Verdicts == {"PENDING", "ACCEPTED", "FAILED", "CANCELED", "NOT SUBMITTED",
             "UNKNOWN"}

GuardedTypeOK ==
    /\ kind \in Kinds
    /\ available \in BOOLEAN
    /\ object \in [uid : Nat, version : Nat, blocked : BOOLEAN]
    /\ over \in BOOLEAN
    /\ pc \in {"start", "check", "attempt", "read", "write", "sent", "return",
               "done"}
    /\ steps \in 0 .. MaxSteps - 1
    /\ seen \in Nat
    /\ wire \in Requests \union {NoRequest}
    /\ reply \in {"none", "ok", "conflict", "rejected", "uncertain"}
    /\ attempted \in BOOLEAN
    /\ accepted \in BOOLEAN
    /\ refused \in BOOLEAN
    /\ err \subseteq ErrorKinds
    /\ verdict \in Verdicts
    /\ effects \in Nat
    /\ touched \subseteq Nat

Init ==
    /\ kind \in Kinds
    /\ available \in BOOLEAN
    /\ object \in [uid : {Selected}, version : {Selected}, blocked : BOOLEAN]
    /\ over = FALSE
    /\ pc = "start"
    /\ steps = 0
    /\ seen = 0
    /\ wire = NoRequest
    /\ reply = "none"
    /\ attempted = FALSE
    /\ accepted = FALSE
    /\ refused = FALSE
    /\ err = {}
    /\ verdict = "PENDING"
    /\ effects = 0
    /\ touched = {}

-----------------------------------------------------------------------------
(* Other actors (external) and the task's context.                         *)

Write(uid, blocked) ==
    object' = [uid |-> uid, version |-> object.version + 1, blocked |-> blocked]

OthersChange ==
    /\ object.version < MaxVersion
    /\ \/ \E b \in BOOLEAN : object.uid # 0 /\ Write(object.uid, b)
       \/ Write(0, FALSE)
       \/ \E b \in BOOLEAN : Write(object.version + 1, b)
    /\ UNCHANGED <<captured, over, pc, steps, seen, network, progress, err,
                   verdict, effects, touched>>

\* Cancel remaining, or the task's deadline.
ContextEnds ==
    /\ ~ over
    /\ over' = TRUE
    /\ UNCHANGED <<captured, pc, steps, seen, network, progress, err, verdict,
                   server>>

-----------------------------------------------------------------------------
(* The worker, up to the write.                                            *)

Return(e) ==
    /\ pc' = "return"
    /\ err' = e

\* operationTask.start: nothing is submitted once the context ended or for an
\* incomplete selection.
Begin ==
    /\ pc = "start"
    /\ refused' = (over \/ ~ available)
    /\ IF over THEN Return({"context"})
       ELSE IF ~ available THEN Return({"definite"})
       ELSE pc' = "check" /\ UNCHANGED err
    /\ UNCHANGED <<captured, over, steps, seen, network, attempted, accepted,
                   verdict, server>>

\* checkOperationTarget and authorize. A CronJob is triggered without retry,
\* every other operation inside retryOperationConflict.
Authorized ==
    /\ pc = "check"
    /\ pc' = IF kind = "trigger" THEN "read" ELSE "attempt"
    /\ UNCHANGED <<captured, over, steps, seen, network, progress, err,
                   verdict, server>>

\* The backoff looks at the context before each attempt.
Attempt ==
    /\ pc = "attempt"
    /\ IF over THEN Return({"context"})
               ELSE pc' = "read" /\ UNCHANGED err
    /\ UNCHANGED <<captured, over, steps, seen, network, progress, verdict,
                   server>>

\* readTarget verifies the identity, restart and suspend look at the spec.
Read ==
    /\ pc = "read"
    /\ object.uid = Selected
    /\ kind \in {"restart", "suspend"} => ~ object.blocked
    /\ seen' = object.version
    /\ pc' = "write"
    /\ UNCHANGED <<captured, over, steps, network, progress, err, verdict,
                   server>>

\* Access denied, identity changed, object gone or in another state; an
\* unanswered read; a panic.
WorkFails ==
    /\ pc \in {"check", "read"}
    /\ \E e \in ErrorKinds : (e = "context" => over) /\ Return({e})
    /\ UNCHANGED <<captured, over, steps, seen, network, progress, verdict,
                   server>>

-----------------------------------------------------------------------------
(* The write.                                                              *)

\* Mutated: the UID is the only precondition.
UidOnly == [uid |-> IF kind = "trigger" THEN 0 ELSE Selected, version |-> 0]

\* Mutated: the request names the object and says nothing of its identity.
NameOnly == [uid |-> 0, version |-> 0]

\* UID and resourceVersion go into the patch, the scale object or the delete
\* preconditions. A Job is created, with the CronJob's UID as its owner.
Request ==
    IF kind = "trigger" THEN [uid |-> 0, version |-> 0]
                        ELSE [uid |-> Selected, version |-> seen]

\* Cordon, suspend and trigger look at the context once more.
ChecksContext == kind \in {"cordon", "suspend", "trigger"}

\* operationBeginWrite, then the request.
Send ==
    /\ pc = "write"
    /\ ~ (over /\ ChecksContext)
    /\ attempted' = TRUE
    /\ wire' = Request
    /\ pc' = "sent"
    /\ UNCHANGED <<captured, over, steps, seen, reply, accepted, refused, err,
                   verdict, server>>

SendRefrained ==
    /\ pc = "write"
    /\ over /\ ChecksContext
    /\ Return({"context"})
    /\ UNCHANGED <<captured, over, steps, seen, network, progress, verdict,
                   server>>

\* The server (external). An absent precondition is 0.
Admits(request) ==
    /\ request.uid \in {0, object.uid}
    /\ request.version \in {0, object.version}

Answer(answers) ==
    /\ wire' = NoRequest
    /\ \E a \in answers : reply' = IF pc = "sent" THEN a ELSE "none"
    /\ UNCHANGED <<captured, over, pc, steps, seen, progress, err, verdict>>

\* What the operation does to the object: a deletion may leave it terminating,
\* a Job is not the object, suspending leaves the state that was reviewed.
Effect ==
    CASE kind = "trigger" -> UNCHANGED object
      [] kind = "delete"  -> Write(0, FALSE) \/ Write(object.uid, object.blocked)
      [] kind = "suspend" -> Write(object.uid, TRUE)
      [] OTHER            -> Write(object.uid, object.blocked)

ServerApplies ==
    /\ wire # NoRequest
    /\ Admits(wire)
    /\ Effect
    /\ effects' = effects + 1
    /\ touched' = touched \union {IF kind = "trigger" THEN Selected
                                                     ELSE object.uid}
    /\ Answer({"ok", "uncertain"})

ServerRefuses ==
    /\ wire # NoRequest
    /\ Answer({"rejected", "uncertain"}
                \union IF Admits(wire) THEN {} ELSE {"conflict"})
    /\ UNCHANGED server

RequestLost ==
    /\ wire # NoRequest
    /\ wire' = NoRequest
    /\ UNCHANGED <<captured, over, pc, steps, seen, reply, progress, err,
                   verdict, server>>

\* Mutated: only an answer or a transport error ends the wait.
GiveUpOnError ==
    /\ pc = "sent"
    /\ reply = "none"
    /\ ~ over
    /\ Return({"uncertain"})
    /\ UNCHANGED <<captured, over, steps, seen, network, progress, verdict,
                   server>>

\* The client stops waiting: transport error, or the context ended.
GiveUp ==
    /\ pc = "sent"
    /\ reply = "none"
    /\ \/ Return({"uncertain"})
       \/ over /\ Return({"context"})
    /\ UNCHANGED <<captured, over, steps, seen, network, progress, verdict,
                   server>>

\* operationAcceptWrite.
Accepted ==
    /\ pc = "sent"
    /\ reply = "ok"
    /\ reply' = "none"
    /\ accepted' = TRUE
    /\ Return({})
    /\ UNCHANGED <<captured, over, steps, seen, wire, attempted, refused,
                   verdict, server>>

Rejected ==
    /\ pc = "sent"
    /\ reply \in {"rejected", "uncertain"}
    /\ reply' = "none"
    /\ Return(IF reply = "rejected" THEN {"definite"} ELSE {"uncertain"})
    /\ UNCHANGED <<captured, over, steps, seen, wire, progress, verdict, server>>

\* Mutated: an uncertain answer is retried like a conflict.
ConflictedOrUncertain ==
    /\ pc = "sent"
    /\ reply \in {"conflict", "uncertain"}
    /\ reply' = "none"
    /\ IF steps + 1 < MaxSteps
         THEN pc' = "attempt" /\ steps' = steps + 1 /\ UNCHANGED err
         ELSE Return({"definite"}) /\ UNCHANGED steps
    /\ UNCHANGED <<captured, over, seen, wire, progress, verdict, server>>

\* retryOperationConflict: only the server's conflict is tried again, after a
\* new read; the last conflict is returned.
Conflicted ==
    /\ pc = "sent"
    /\ reply = "conflict"
    /\ reply' = "none"
    /\ IF steps + 1 < MaxSteps
         THEN pc' = "attempt" /\ steps' = steps + 1 /\ UNCHANGED err
         ELSE Return({"definite"}) /\ UNCHANGED steps
    /\ UNCHANGED <<captured, over, seen, wire, progress, verdict, server>>

-----------------------------------------------------------------------------
(* The receipt: operationResultState.                                      *)

ResultState(e) ==
    IF e = {} THEN "ACCEPTED"
    ELSE IF "context" \in e THEN (IF attempted THEN "UNKNOWN" ELSE "CANCELED")
    ELSE IF refused THEN "NOT SUBMITTED"
    ELSE IF attempted /\ "uncertain" \in e THEN "UNKNOWN"
    ELSE "FAILED"

\* An error reported after the context ended carries the context's error too.
Joined == IF err # {} /\ over THEN err \union {"context"} ELSE err

Settle ==
    /\ pc = "return"
    /\ pc' = "done"
    /\ verdict' = ResultState(Joined)
    /\ UNCHANGED <<captured, over, steps, seen, network, progress, err, server>>

Worker ==
    \/ Begin
    \/ Authorized
    \/ Attempt
    \/ Read
    \/ WorkFails
    \/ Send
    \/ SendRefrained
    \/ GiveUp
    \/ Accepted
    \/ Rejected
    \/ Conflicted
    \/ Settle

Environment ==
    \/ OthersChange
    \/ ContextEnds
    \/ ServerApplies
    \/ ServerRefuses
    \/ RequestLost

Next == Worker \/ Environment

\* The worker runs; its reads and writes honour the context, whose deadline
\* passes. Nothing makes the server answer.
Fairness ==
    /\ WF_vars(Begin \/ Authorized \/ Attempt \/ Send \/ SendRefrained \/ Settle)
    /\ WF_vars(Accepted \/ Rejected \/ Conflicted)
    /\ WF_vars(ContextEnds)
    /\ WF_vars(over /\ WorkFails)
    /\ WF_vars(over /\ GiveUp)

Spec == Init /\ [][Next]_vars /\ Fairness

-----------------------------------------------------------------------------
(* Properties.                                                             *)

\* The server never applies a write of this operation to another identity than
\* the selected one, however the object was removed, recreated or changed
\* between selection, read and write, and however late the request arrives.
OnlySelectedIdentity ==
    touched \subseteq {Selected}

\* What restart and suspend read is still true of the object their write is
\* applied to: a paused Deployment is not restarted, a CronJob that left the
\* reviewed state is not patched, even by a request that was delayed.
AppliesToReviewedState ==
    [][effects' # effects /\ kind \in {"restart", "suspend"}
          => ~ object.blocked]_vars

\* The receipt tells the truth about the server, now and later: at most one
\* write is ever applied, none behind FAILED, CANCELED or NOT SUBMITTED, one
\* behind ACCEPTED; requests in flight when the receipt is written included.
Receipt == INSTANCE WriteContract WITH acknowledged <- accepted

ImplementsWriteContract == Receipt!Spec

\* Every target gets its verdict: with a silent server the deadline ends it,
\* and conflicts are not retried forever.
VerdictArrives == <>(pc = "done")
=============================================================================
