-------------------------- MODULE OperationLedger --------------------------
(***************************************************************************)
(* The session's receipts of guarded operations (internal/view/operation_  *)
(* ledger.go): the registry of operations, the worker goroutine that takes *)
(* an operation through its targets, and the receipt that the UI thread    *)
(* reads meanwhile.                                                        *)
(*                                                                         *)
(* The work done for a target is any number of writes, each made by a      *)
(* writer: one for most operations, one per Pod for a drain, whose         *)
(* evictions kubectl's drain helper (external) runs concurrently and waits *)
(* for. What a single write does to the server is module GuardedWrite.     *)
(* A list of accepted steps only grows at its end, so a copy of it is      *)
(* represented by its length. Output and identities are left out.          *)
(***************************************************************************)
EXTENDS Integers, FiniteSets

CONSTANTS
    MaxActive,    \* operations that may run together (8 in the code)
    MaxHistory,   \* receipts retained (64 in the code)
    MaxSteps,     \* accepted steps listed per target (128 in the code)
    Targets,      \* targets of one operation (at most 100 in the code)
    Writers,      \* writers of one target's work
    MaxTasks      \* bound of the model: how many operations are submitted

ASSUME LedgerAssumption ==
    /\ MaxActive \in Nat
    /\ MaxHistory \in Nat
    /\ MaxActive <= MaxHistory
    /\ MaxSteps \in Nat \ {0}
    /\ Targets \in Nat \ {0}
    /\ MaxTasks \in Nat

Tasks == 1 .. MaxTasks
Positions == 1 .. Targets

Settled == {"ACCEPTED", "OBSERVED", "COMPLETED", "FAILED", "CANCELED",
            "UNKNOWN", "NOT SUBMITTED"}

VARIABLES
    next,       \* operationRegistry.next
    retained,   \* operationRegistry.tasks
    ended,      \* tasks whose end was recorded
    cancelled,  \* operationTask.cancelRequested
    over,       \* tasks whose context was cancelled or expired
    phase,      \* where the worker of a task is
    position,   \* the target it is at
    refused,    \* notSubmitted, for that target
    err,        \* what the work's error wraps; {} is nil
    writer,     \* where each writer of that target is
    copy,       \* the copy of the accepted steps a writer is about to publish
    attempted,  \* operationProgress.attempted, per target
    steps,      \* length of operationProgress.accepted, per target
    outcome,    \* operationOutcome.State, per target
    shown       \* length of operationOutcome.AcceptedSteps, per target

vars == <<next, retained, ended, cancelled, over, phase, position, refused, err,
          writer, copy, attempted, steps, outcome, shown>>

registryVars == <<next, retained, ended>>
cancelVars == <<cancelled, over>>
workVars == <<position, refused, err>>
progressVars == <<writer, copy, attempted, steps>>
receiptVars == <<outcome, shown>>

Unended == (1 .. next) \ ended

LedgerTypeOK ==
    /\ next \in 0 .. MaxTasks
    /\ retained \subseteq 1 .. next
    /\ ended \subseteq 1 .. next
    /\ cancelled \subseteq over
    /\ over \subseteq 1 .. next
    /\ phase \in [Tasks -> {"none", "next", "checked", "working", "returned",
                            "ending", "ended"}]
    /\ position \in [Tasks -> Positions]
    /\ refused \subseteq Tasks
    /\ err \in [Tasks -> SUBSET {"context", "definite", "uncertain"}]
    /\ writer \in [Tasks -> [Writers -> {"idle", "begun", "accepted", "done",
                                         "failed"}]]
    /\ copy \in [Tasks -> [Writers -> 0 .. MaxSteps]]
    /\ attempted \in [Tasks -> [Positions -> BOOLEAN]]
    /\ steps \in [Tasks -> [Positions -> 0 .. MaxSteps]]
    /\ outcome \in [Tasks -> [Positions -> Settled \union {"PENDING", "RUNNING"}]]
    /\ shown \in [Tasks -> [Positions -> 0 .. MaxSteps]]

Init ==
    /\ next = 0
    /\ retained = {}
    /\ ended = {}
    /\ cancelled = {}
    /\ over = {}
    /\ phase = [t \in Tasks |-> "none"]
    /\ position = [t \in Tasks |-> 1]
    /\ refused = {}
    /\ err = [t \in Tasks |-> {}]
    /\ writer = [t \in Tasks |-> [w \in Writers |-> "idle"]]
    /\ copy = [t \in Tasks |-> [w \in Writers |-> 0]]
    /\ attempted = [t \in Tasks |-> [i \in Positions |-> FALSE]]
    /\ steps = [t \in Tasks |-> [i \in Positions |-> 0]]
    /\ outcome = [t \in Tasks |-> [i \in Positions |-> "PENDING"]]
    /\ shown = [t \in Tasks |-> [i \in Positions |-> 0]]

-----------------------------------------------------------------------------
(* The registry and the UI thread.                                         *)

\* One ended receipt, the oldest, makes room when the history is full.
MakeRoom ==
    IF Cardinality(retained) < MaxHistory THEN retained
    ELSE { t \in retained : \/ t \notin ended
                            \/ \E older \in retained \intersect ended : older < t }

\* operationRegistry.add, then the goroutine of start. A refused operation
\* leaves no trace.
Submit ==
    /\ next < MaxTasks
    /\ Cardinality(retained \ ended) < MaxActive
    /\ next' = next + 1
    /\ retained' = MakeRoom \union {next + 1}
    /\ phase' = [phase EXCEPT ![next + 1] = "next"]
    /\ UNCHANGED <<ended, cancelVars, workVars, progressVars, receiptVars>>

\* cancelRemaining, from the receipts' view or from a stopped local session.
Cancel(t) ==
    /\ t \in retained \ (ended \union cancelled)
    /\ cancelled' = cancelled \union {t}
    /\ over' = over \union {t}
    /\ UNCHANGED <<registryVars, phase, workVars, progressVars, receiptVars>>

\* The deadline all targets of an operation share.
Deadline(t) ==
    /\ t \in Unended \ over
    /\ over' = over \union {t}
    /\ UNCHANGED <<registryVars, cancelled, phase, workVars, progressVars,
                   receiptVars>>

-----------------------------------------------------------------------------
(* The worker of a task: operationTask.start.                              *)

GoTo(t, p) == phase' = [phase EXCEPT ![t] = p]

\* Mutated: the context is looked at once, before the first target.
CheckFirst(t) ==
    /\ phase[t] = "next"
    /\ position[t] = 1 => t \notin over
    /\ GoTo(t, "checked")
    /\ UNCHANGED <<registryVars, cancelVars, workVars, progressVars, receiptVars>>

\* Before each target: the context ended, or the selection was incomplete.
Refuse(t) ==
    /\ phase[t] = "next"
    /\ \/ t \in over /\ err' = [err EXCEPT ![t] = {"context"}]
       \/ t \notin over /\ err' = [err EXCEPT ![t] = {"definite"}]
    /\ refused' = refused \union {t}
    /\ GoTo(t, "returned")
    /\ UNCHANGED <<registryVars, cancelVars, position, progressVars, receiptVars>>

Check(t) ==
    /\ phase[t] = "next"
    /\ t \notin over
    /\ GoTo(t, "checked")
    /\ UNCHANGED <<registryVars, cancelVars, workVars, progressVars, receiptVars>>

Start(t) ==
    /\ phase[t] = "checked"
    /\ outcome' = [outcome EXCEPT ![t][position[t]] = "RUNNING"]
    /\ GoTo(t, "working")
    /\ UNCHANGED <<registryVars, cancelVars, workVars, progressVars, shown>>

\* operationBeginWrite.
BeginWrite(t, w) ==
    /\ phase[t] = "working"
    /\ writer[t][w] = "idle"
    /\ writer' = [writer EXCEPT ![t][w] = "begun"]
    /\ attempted' = [attempted EXCEPT ![t][position[t]] = TRUE]
    /\ UNCHANGED <<registryVars, cancelVars, phase, workVars, copy, steps,
                   receiptVars>>

WriteFails(t, w) ==
    /\ writer[t][w] = "begun"
    /\ writer' = [writer EXCEPT ![t][w] = "failed"]
    /\ UNCHANGED <<registryVars, cancelVars, phase, workVars, copy, attempted,
                   steps, receiptVars>>

\* The list is cut at its limit; its last line then says so.
OneMore(n) == IF n < MaxSteps THEN n + 1 ELSE n

\* operationAcceptWrite, under the progress lock: append and copy the list.
AcceptWrite(t, w) ==
    /\ writer[t][w] = "begun"
    /\ writer' = [writer EXCEPT ![t][w] = "accepted"]
    /\ steps' = [steps EXCEPT ![t][position[t]] = OneMore(@)]
    /\ copy' = [copy EXCEPT ![t][w] = OneMore(steps[t][position[t]])]
    /\ UNCHANGED <<registryVars, cancelVars, phase, workVars, attempted,
                   receiptVars>>

\* Then, under the task's lock only: the copy goes into the receipt.
Publish(t, w) ==
    /\ writer[t][w] = "accepted"
    /\ writer' = [writer EXCEPT ![t][w] = "done"]
    /\ shown' = [shown EXCEPT ![t][position[t]] = copy[t][w]]
    /\ UNCHANGED <<registryVars, cancelVars, phase, workVars, copy, attempted,
                   steps, outcome>>

\* Mutated: the work waits for all its writers, whatever the context says.
WorkReturnsDone(t) ==
    /\ phase[t] = "working"
    /\ \A w \in Writers : writer[t][w] \in {"done", "failed"}
    /\ \E e \in SUBSET {"context", "definite", "uncertain"} :
          /\ e = {} => \A w \in Writers : writer[t][w] # "failed"
          /\ "context" \in e => t \in over
          /\ err' = [err EXCEPT ![t] = e]
    /\ GoTo(t, "returned")
    /\ UNCHANGED <<registryVars, cancelVars, position, refused, progressVars,
                   receiptVars>>

\* Mutated: the work returns while writers it started are still under way.
WorkReturnsEarly(t) ==
    /\ phase[t] = "working"
    /\ \E e \in SUBSET {"context", "definite", "uncertain"} :
          /\ e = {} => \A w \in Writers : writer[t][w] # "failed"
          /\ "context" \in e => t \in over
          /\ err' = [err EXCEPT ![t] = e]
    /\ GoTo(t, "returned")
    /\ UNCHANGED <<registryVars, cancelVars, position, refused, progressVars,
                   receiptVars>>

\* callOperationWork returns: all started writers are through. Later steps that
\* write nothing may fail when every write was accepted.
WorkReturns(t) ==
    /\ phase[t] = "working"
    /\ \A w \in Writers : writer[t][w] \in {"idle", "done", "failed"}
    /\ \E e \in SUBSET {"context", "definite", "uncertain"} :
          /\ e = {} => \A w \in Writers : writer[t][w] # "failed"
          /\ "context" \in e => t \in over
          /\ err' = [err EXCEPT ![t] = e]
    /\ GoTo(t, "returned")
    /\ UNCHANGED <<registryVars, cancelVars, position, refused, progressVars,
                   receiptVars>>

\* Mutated: a cancelled wait says CANCELED whatever was attempted.
ResultStateByContext(e, notSubmitted, wasAttempted) ==
    IF e = {} THEN {"ACCEPTED", "COMPLETED", "OBSERVED"}
    ELSE IF "context" \in e THEN {"CANCELED"}
    ELSE IF notSubmitted THEN {"NOT SUBMITTED"}
    ELSE IF wasAttempted /\ "uncertain" \in e THEN {"UNKNOWN"}
    ELSE {"FAILED"}

\* operationResultState, and what local commands and observed writes report
\* instead of acceptance.
ResultState(e, notSubmitted, wasAttempted) ==
    IF e = {} THEN {"ACCEPTED", "COMPLETED", "OBSERVED"}
    ELSE IF "context" \in e
         THEN {IF wasAttempted THEN "UNKNOWN" ELSE "CANCELED"}
    ELSE IF notSubmitted THEN {"NOT SUBMITTED"}
    ELSE IF wasAttempted /\ "uncertain" \in e THEN {"UNKNOWN"}
    ELSE {"FAILED"}

Joined(t) ==
    IF err[t] # {} /\ t \in over THEN err[t] \union {"context"} ELSE err[t]

\* The outcome replaces the target's entry in the receipt; on to the next one.
Settle(t) ==
    LET i == position[t] IN
    /\ phase[t] = "returned"
    /\ \E s \in ResultState(Joined(t), t \in refused, attempted[t][i]) :
          outcome' = [outcome EXCEPT ![t][i] = s]
    /\ shown' = [shown EXCEPT ![t][i] = steps[t][i]]
    /\ IF i < Targets
         THEN /\ position' = [position EXCEPT ![t] = i + 1]
              /\ refused' = refused \ {t}
              /\ err' = [err EXCEPT ![t] = {}]
              /\ writer' = [writer EXCEPT ![t] = [w \in Writers |-> "idle"]]
              /\ GoTo(t, "next")
         ELSE GoTo(t, "ending") /\ UNCHANGED <<workVars, writer>>
    /\ UNCHANGED <<registryVars, cancelVars, copy, attempted, steps>>

\* The end is recorded, the context released.
End(t) ==
    /\ phase[t] = "ending"
    /\ ended' = ended \union {t}
    /\ over' = over \union {t}
    /\ GoTo(t, "ended")
    /\ UNCHANGED <<next, retained, cancelled, workVars, progressVars, receiptVars>>

Task(t) ==
    \/ Cancel(t)
    \/ Deadline(t)
    \/ Refuse(t)
    \/ Check(t)
    \/ Start(t)
    \/ WorkReturns(t)
    \/ Settle(t)
    \/ End(t)
    \/ \E w \in Writers :
          BeginWrite(t, w) \/ WriteFails(t, w) \/ AcceptWrite(t, w) \/ Publish(t, w)

Next ==
    \/ Submit
    \/ \E t \in Tasks : Task(t)

\* Workers run, deadlines pass, and work honours its context. Nothing makes a
\* server answer or a user cancel.
Fairness ==
    \A t \in Tasks :
        /\ WF_vars(Deadline(t))
        /\ WF_vars(Refuse(t) \/ Check(t))
        /\ WF_vars(Start(t))
        /\ WF_vars(t \in over /\ WorkReturns(t))
        /\ WF_vars(Settle(t))
        /\ WF_vars(End(t))
        /\ \A w \in Writers : /\ WF_vars(Publish(t, w))
                              /\ WF_vars(t \in over /\ WriteFails(t, w))

Spec == Init /\ [][Next]_vars /\ Fairness

-----------------------------------------------------------------------------
(* Properties.                                                             *)

\* The limits hold over every order of submissions and ends, and a receipt is
\* only dropped when its operation has ended, so that every running operation
\* can be found and cancelled.
WithinLimits ==
    /\ Unended \subseteq retained
    /\ Cardinality(Unended) <= MaxActive
    /\ Cardinality(retained) <= MaxHistory

\* A settled target lists every step that was accepted for it: no writer's late
\* copy of the list replaces the final one.
ReceiptIsComplete ==
    \A t \in Tasks, i \in Positions :
        outcome[t][i] \in Settled => shown[t][i] = steps[t][i]

\* CANCELED and NOT SUBMITTED mean that no write was attempted for the target,
\* whenever the cancellation came.
CancelIsHonest ==
    \A t \in Tasks, i \in Positions :
        outcome[t][i] \in {"CANCELED", "NOT SUBMITTED"} => ~ attempted[t][i]

\* Outcomes move forward, and a settled one is never written again.
OutcomesMoveForward ==
    [][\A t \in Tasks, i \in Positions :
          outcome'[t][i] # outcome[t][i] =>
             /\ outcome[t][i] \notin Settled
             /\ outcome'[t][i] # "PENDING"]_vars

\* Cancel remaining means what it says, and so does the shared deadline: no
\* write is ever attempted for the targets after the one the worker was at.
CancelStopsRemaining ==
    \A t \in Tasks, i \in Positions :
        [](t \in over /\ i > position[t] => [](~ attempted[t][i]))

\* A step that the receipt showed as accepted stays in the receipt.
AcceptedStepsStay ==
    [][\A t \in Tasks, i \in Positions : shown'[t][i] >= shown[t][i]]_vars

\* Every target of every operation is settled, with a silent server too.
EveryTargetSettles ==
    \A t \in Tasks : [](t \in Unended => <>(t \in ended))
=============================================================================
