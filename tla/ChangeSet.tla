------------------------------ MODULE ChangeSet ------------------------------
(***************************************************************************)
(* A reviewed change set: internal/review/change_set.go, and the page that *)
(* prepares and applies it (internal/view/change_set.go,                   *)
(* change_set_actions.go) through the operation ledger.                    *)
(*                                                                         *)
(* A preparation runs on a goroutine and hands its plan to the UI thread.  *)
(* A plan may be applied several times, by operations that run side by     *)
(* side; each works through its rows one after the other. The API server   *)
(* and everybody else who writes to it are external. An object is known by *)
(* its UID and version; its fields, the ownership graph, the source's      *)
(* fingerprints, permissions and read-only mode are reasons a step may     *)
(* fail. The plan's target is the row of the same number.                  *)
(***************************************************************************)
EXTENDS Integers, FiniteSets

CONSTANTS
    MaxTargets,     \* rows of the change set
    MaxPlans,       \* bound of the model: preparations
    MaxTasks,       \* bound of the model: operations submitted
    MaxAsked,       \* bound of the model: preparations and operations together
    MaxObject       \* bound of the model: versions others may produce

ASSUME ChangeSetAssumption == 
    {MaxTargets, MaxPlans, MaxTasks, MaxAsked, MaxObject} \subseteq Nat

Targets == 1..MaxTargets
Plans == 1..MaxPlans
Tasks == 1..MaxTasks

VARIABLES
    view,       \* changeSetView: active, loading, its plan, the operation it shows,
                \* and the preparation its generation stands for
    current,    \* destinationCurrent
    started,    \* preparations started
    prep,       \* per plan: "none", "reading", "planned", "failed" or "gone"
    withdrawn,  \* preparations whose context was cancelled
    review,   \* per plan and target: the object its dry run was for, if it is eligible
    expired,    \* plans whose five minutes are over
    claimed,    \* the targets of plans that were claimed
    task,       \* per operation: its plan, its rows and those not eligible any more
    submitted,  \* operations submitted
    halted,     \* those whose context ended
    stage,      \* per operation and row: the step its work is at, or its outcome
    flight,       \* its request and the answer to it
    made,       \* the objects the server made of its requests
    objects     \* per target: the server's object, of UID 0 if there is none

pageVars == <<view, current>>
planVars == <<started, prep, withdrawn, review>>
taskVars == <<task, submitted>>
objectVars == <<made, objects>>
workVars == <<claimed, taskVars, halted, stage, flight, objectVars>>
changeVars == <<pageVars, planVars, expired, workVars>>

NoTask == [plan |-> 0, rows |-> {}, unfit |-> {}]
Unread == [uid |-> -1, version |-> 0]
Blocked == [uid |-> -2, version |-> 0]

Outcomes == {"OBSERVED", "UNKNOWN", "FAILED", "CANCELED", "NOT SUBMITTED"}

ChangeInit ==
    /\ view = [active |-> TRUE, loading |-> FALSE, plan |-> 0, task |-> 0, awaits |-> 0]
    /\ current = TRUE
    /\ started = 0 /\ prep = [p \in Plans |-> "none"] /\ withdrawn = {}
    /\ review = [p \in Plans |-> [t \in Targets |-> Unread]]
    /\ expired = {} /\ claimed = {}
    /\ task = [k \in Tasks |-> NoTask] /\ submitted = 0 /\ halted = {}
    /\ stage = [k \in Tasks |-> [t \in Targets |-> "none"]]
    /\ flight = [k \in Tasks |-> [t \in Targets |-> "none"]]
    /\ made = [k \in Tasks |-> [t \in Targets |-> {}]]
    /\ objects \in [Targets -> {[uid |-> 0, version |-> 1], [uid |-> 1, version |-> 1]}]

-----------------------------------------------------------------------------
(* The page.                                                               *)

\* changeSetView.eligible: the page is on top and its destination is the captured one.
Usable == view.active /\ current

\* ChangeSetPlan.Target
Fit(p, t) ==
    /\ review[p][t].uid >= 0
    /\ <<p, t>> \notin claimed
    /\ p \notin expired

Ended(k) == \A t \in task[k].rows : stage[k][t] \in Outcomes

\* stopPreparation: the generation moves on and the context is cancelled.
Withdrawn == withdrawn \union (IF view.loading THEN {view.awaits} ELSE {})

\* confirmPreparation, and prepare when it is confirmed: an operation under way first
\* has to end.
Prepare ==
    /\ started < MaxPlans /\ started + submitted < MaxAsked
    /\ Usable /\ ~ view.loading
    /\ view.task # 0 => Ended(view.task)
    /\ started' = started + 1
    /\ prep' = [prep EXCEPT ![started'] = "reading"]
    /\ view' = [view EXCEPT !.loading = TRUE, !.plan = 0, !.task = 0, !.awaits = started']
    /\ UNCHANGED <<current, withdrawn, review, expired, workVars>>

\* confirmApply for the rows selected, submitPlan when it is confirmed, and
\* operationSession.submit: rows that were eligible when the question was asked and are
\* not any more become unavailable targets of the operation.
Submit(rows) ==
    /\ submitted < MaxTasks /\ started + submitted < MaxAsked
    /\ Usable /\ view.plan # 0 /\ ~ view.loading
    /\ \E t \in rows : review[view.plan][t].uid >= 0
    /\ submitted' = submitted + 1
    /\ task' = [task EXCEPT ![submitted'] =
                   [plan |-> view.plan, rows |-> rows,
                    unfit |-> {t \in rows : ~ Fit(view.plan, t)}]]
    /\ stage' = [stage EXCEPT ![submitted'] =
                    [t \in Targets |-> IF t \in rows THEN "pending" ELSE @[t]]]
    /\ view' = [view EXCEPT !.task = submitted']
    /\ UNCHANGED <<current, planVars, expired, claimed, halted, flight, objectVars>>

\* x: the operation the page shows and the preparation under way.
CancelRemaining ==
    /\ view.active
    /\ halted' = IF view.task # 0 /\ ~ Ended(view.task) THEN halted \union {view.task}
                                                        ELSE halted
    /\ withdrawn' = Withdrawn
    /\ view' = IF view.loading
                 THEN [view EXCEPT !.loading = FALSE, !.plan = 0, !.awaits = 0] ELSE view
    /\ UNCHANGED <<current, started, prep, review, expired, claimed,
                   taskVars, stage, flight, objectVars>>

Leave ==
    /\ view.active
    /\ withdrawn' = Withdrawn
    /\ view' = [view EXCEPT !.active = FALSE, !.loading = FALSE, !.awaits = 0]
    /\ UNCHANGED <<current, started, prep, review, expired, workVars>>

ComeBack ==
    /\ ~ view.active
    /\ view' = [view EXCEPT !.active = TRUE]
    /\ UNCHANGED <<current, planVars, expired, workVars>>

\* Another context, namespace or revision: a revision does not come back.
DestinationChanges ==
    /\ current /\ current' = FALSE
    /\ UNCHANGED <<view, planVars, expired, workVars>>

\* Draw withdraws the preparation for a destination that was left.
Draw ==
    /\ ~ current /\ view.loading
    /\ withdrawn' = Withdrawn
    /\ view' = [view EXCEPT !.loading = FALSE, !.awaits = 0]
    /\ UNCHANGED <<current, started, prep, review, expired, workVars>>

-----------------------------------------------------------------------------
(* The goroutine of a preparation.                                         *)

ReviewNext(p, t) == \A u \in Targets : u < t => review[p][u] # Unread

\* prepareChangeSetTarget: the dry run is for the object that was read, or for its
\* absence; anything else leaves the row blocked.
Review(p, t) ==
    /\ prep[p] = "reading" /\ review[p][t] = Unread /\ ReviewNext(p, t)
    /\ \E r \in {objects[t], Blocked} : review' = [review EXCEPT ![p][t] = r]
    /\ UNCHANGED <<pageVars, started, prep, withdrawn, expired, workVars>>

\* The source changed, the time is over, or there is a plan; a cancelled preparation
\* says nothing. Its context is looked at here, and the callback runs later.
Reviewed(p) ==
    /\ prep[p] = "reading"
    /\ \/ p \in withdrawn /\ prep' = [prep EXCEPT ![p] = "gone"]
       \/ p \notin withdrawn /\ prep' = [prep EXCEPT ![p] = "failed"]
       \/ /\ p \notin withdrawn /\ \A t \in Targets : review[p][t] # Unread
          /\ prep' = [prep EXCEPT ![p] = "planned"]
    /\ UNCHANGED <<pageVars, started, withdrawn, review, expired, workVars>>

\* Mutated: the callback belongs to whatever the page is loading.
InstallAny(p) ==
    /\ prep[p] \in {"planned", "failed"}
    /\ prep' = [prep EXCEPT ![p] = "gone"]
    /\ view' = IF Usable /\ view.loading
                 THEN [view EXCEPT !.loading = FALSE,
                                   !.plan = IF prep[p] = "planned" THEN p ELSE @]
                 ELSE view
    /\ UNCHANGED <<current, started, withdrawn, review, expired, workVars>>

Install(p) ==
    /\ prep[p] \in {"planned", "failed"}
    /\ prep' = [prep EXCEPT ![p] = "gone"]
    /\ view' = IF Usable /\ view.awaits = p
                 THEN [view EXCEPT !.loading = FALSE,
                                   !.plan = IF prep[p] = "planned" THEN p ELSE @]
                 ELSE view
    /\ UNCHANGED <<current, started, withdrawn, review, expired, workVars>>

\* The time of a plan is looked at when it is used.
Expire(p) ==
    /\ p = view.plan \/ \E k \in Tasks : task[k].plan = p
    /\ p \notin expired
    /\ expired' = expired \union {p}
    /\ UNCHANGED <<pageVars, planVars, workVars>>

-----------------------------------------------------------------------------
(* The work of an operation, row by row.                                   *)

\* Its own context, and the one that ends with the plan.
Halted(k) == k \in halted \/ task[k].plan \in expired

At(k, t, s) == stage[k][t] = s

Go(k, t, s) == stage' = [stage EXCEPT ![k][t] = s]

Worked == <<pageVars, planVars, expired, taskVars, halted, objectVars>>

\* cancelRemaining from the operations page, or the deadline.
Halt(k) ==
    /\ k <= submitted /\ ~ Ended(k) /\ k \notin halted
    /\ halted' = halted \union {k}
    /\ UNCHANGED <<pageVars, planVars, expired, claimed, taskVars, stage, flight, objectVars>>

Turn(k, t) ==
    /\ At(k, t, "pending")
    /\ \A u \in task[k].rows : u < t => stage[k][u] \in Outcomes

NotStarted(k, t) ==
    /\ Turn(k, t)
    /\ \/ k \in halted /\ Go(k, t, "CANCELED")
       \/ k \notin halted /\ t \in task[k].unfit /\ Go(k, t, "NOT SUBMITTED")
    /\ UNCHANGED <<Worked, claimed, flight>>

\* Access denied, not eligible any more, a changed source, object, or ownership; errors
\* of an ended context and of a read that took too long are those of a context.
Fail(k, t) ==
    /\ stage[k][t] \in {"running", "claimed", "checked"}
    /\ \/ k \notin halted /\ Go(k, t, "FAILED")
       \/ Go(k, t, "CANCELED")
    /\ UNCHANGED <<Worked, claimed, flight>>

Run(k, t) ==
    /\ Turn(k, t) /\ k \notin halted /\ t \notin task[k].unfit
    /\ Go(k, t, "running")
    /\ UNCHANGED <<Worked, claimed, flight>>

\* Mutated: the claim is marked on the copy that the caller gets.
ClaimCopy(k, t) ==
    /\ At(k, t, "running")
    /\ Fit(task[k].plan, t)
    /\ Go(k, t, "claimed")
    /\ UNCHANGED <<Worked, claimed, flight>>

\* claimChangeSetTarget
Claim(k, t) ==
    /\ At(k, t, "running")
    /\ Fit(task[k].plan, t)
    /\ claimed' = claimed \union {<<task[k].plan, t>>}
    /\ Go(k, t, "claimed")
    /\ UNCHANGED <<Worked, flight>>

Same(o, r) == o.uid = r.uid /\ (r.uid # 0 => o.version = r.version)

AsReviewed(k, t) == Same(objects[t], review[task[k].plan][t])

\* checkChangeSetPreconditions
Check(k, t) ==
    /\ At(k, t, "claimed") /\ AsReviewed(k, t)
    /\ Go(k, t, "checked")
    /\ UNCHANGED <<Worked, claimed, flight>>

\* changeSetWrite: one that ended before it was sent looks like one that was lost.
SendWrite(k, t) ==
    /\ At(k, t, "checked") /\ ~ Halted(k)
    /\ flight' = [flight EXCEPT ![k][t] = "sent"]
    /\ Go(k, t, "sent")
    /\ UNCHANGED <<Worked, claimed>>

StopWaiting(k, t) ==
    /\ At(k, t, "sent") /\ flight[k][t] \in {"none", "sent"}
    /\ Go(k, t, "UNKNOWN")
    /\ UNCHANGED <<Worked, claimed, flight>>

\* Mutated: an error is an error.
RefusedPlainly(k, t) ==
    /\ At(k, t, "sent") /\ flight[k][t] \in {"refused", "uncertain"}
    /\ k \notin halted /\ Go(k, t, "FAILED")
    /\ flight' = [flight EXCEPT ![k][t] = "none"]
    /\ UNCHANGED <<Worked, claimed>>

\* An answer that is an error, with the end of a context or without.
Refused(k, t) ==
    /\ At(k, t, "sent") /\ flight[k][t] \in {"refused", "uncertain"}
    /\ \/ flight[k][t] = "refused" /\ k \notin halted /\ Go(k, t, "FAILED")
       \/ Go(k, t, "UNKNOWN")
    /\ flight' = [flight EXCEPT ![k][t] = "none"]
    /\ UNCHANGED <<Worked, claimed>>

\* observeChangeSetAccepted: the answer may be another object than was admitted.
Accept(k, t) ==
    /\ At(k, t, "sent") /\ flight[k][t] = "ok"
    /\ \/ ~ Halted(k) /\ Go(k, t, "accepted")
       \/ Go(k, t, "UNKNOWN")
    /\ flight' = [flight EXCEPT ![k][t] = "none"]
    /\ UNCHANGED <<Worked, claimed>>

\* The named read after it finds what was accepted, or it fails.
Observe(k, t) ==
    /\ At(k, t, "accepted")
    /\ \/ objects[t] \in made[k][t] /\ Go(k, t, "OBSERVED")
       \/ Go(k, t, "UNKNOWN")
    /\ UNCHANGED <<Worked, claimed, flight>>

-----------------------------------------------------------------------------
(* The API server and other writers (external).                            *)

Served == <<pageVars, planVars, expired, claimed, taskVars, halted, stage>>

Respond(k, t, answers) ==
    \E a \in answers :
        flight' = [flight EXCEPT ![k][t] = IF At(k, t, "sent") THEN a ELSE "none"]

Written(t, uid) ==
    LET version == objects[t].version + 1
    IN  [uid |-> IF uid = 0 THEN version ELSE uid, version |-> version]

\* UID and resourceVersion are in the payload, or the request is a create.
Persist(k, t) ==
    /\ flight[k][t] = "sent" /\ AsReviewed(k, t)
    /\ LET o == Written(t, objects[t].uid)
       IN  /\ objects' = [objects EXCEPT ![t] = o]
           /\ made' = [made EXCEPT ![k][t] = @ \union {o}]
    /\ Respond(k, t, {"ok", "uncertain"})
    /\ UNCHANGED Served

Reject(k, t) ==
    /\ flight[k][t] = "sent"
    /\ Respond(k, t, {"refused", "uncertain"})
    /\ UNCHANGED <<Served, objectVars>>

Lose(k, t) ==
    /\ flight[k][t] = "sent"
    /\ flight' = [flight EXCEPT ![k][t] = "none"]
    /\ UNCHANGED <<Served, objectVars>>

OthersWrite(t) ==
    /\ objects[t].version < MaxObject
    /\ \/ objects' = [objects EXCEPT ![t] = Written(t, @.uid)]
       \/ /\ objects[t].uid # 0
          /\ objects' = [objects EXCEPT ![t] = [uid |-> 0, version |-> @.version + 1]]
    /\ UNCHANGED <<Served, flight, made>>

-----------------------------------------------------------------------------

Page ==
    \/ Prepare
    \/ \E rows \in SUBSET Targets : Submit(rows)
    \/ CancelRemaining
    \/ Leave
    \/ ComeBack
    \/ DestinationChanges
    \/ Draw

Work(k, t) ==
    \/ NotStarted(k, t)
    \/ Run(k, t)
    \/ Fail(k, t)
    \/ Claim(k, t)
    \/ Check(k, t)
    \/ SendWrite(k, t)
    \/ StopWaiting(k, t)
    \/ Refused(k, t)
    \/ Accept(k, t)
    \/ Observe(k, t)

Server(k, t) ==
    \/ Persist(k, t)
    \/ Reject(k, t)
    \/ Lose(k, t)

ChangeNext ==
    \/ Page
    \/ \E p \in Plans : Reviewed(p) \/ Install(p) \/ Expire(p)
    \/ \E p \in Plans, t \in Targets : Review(p, t)
    \/ \E k \in Tasks : Halt(k)
    \/ \E k \in Tasks, t \in Targets : Work(k, t) \/ Server(k, t)
    \/ \E t \in Targets : OthersWrite(t)

ChangeSpec == ChangeInit /\ [][ChangeNext]_changeVars

-----------------------------------------------------------------------------
(* Properties.                                                             *)

Stages == {"none", "pending", "running", "claimed", "checked", "sent", "accepted"} \union Outcomes

Objects == [uid : Int, version : Int]

ChangeTypeOK ==
    /\ view \in [active : BOOLEAN, loading : BOOLEAN, plan : 0..MaxPlans, task : 0..MaxTasks,
                 awaits : 0..MaxPlans]
    /\ current \in BOOLEAN
    /\ started \in 0..MaxPlans
    /\ prep \in [Plans -> {"none", "reading", "planned", "failed", "gone"}]
    /\ withdrawn \subseteq Plans
    /\ review \in [Plans -> [Targets -> Objects]]
    /\ expired \subseteq Plans
    /\ claimed \subseteq (0..MaxPlans) \X Targets
    /\ task \in [Tasks -> [plan : 0..MaxPlans, rows : SUBSET Targets, unfit : SUBSET Targets]]
    /\ submitted \in 0..MaxTasks
    /\ halted \subseteq Tasks
    /\ stage \in [Tasks -> [Targets -> Stages]]
    /\ flight \in [Tasks -> [Targets -> {"none", "sent", "ok", "refused", "uncertain"}]]
    /\ made \in [Tasks -> [Targets -> SUBSET Objects]]
    /\ objects \in [Targets -> Objects]

\* "Each eligible target is claimed once" and "rechecks ... exact live
\* UID/resourceVersion/generation or verified absence" (docs/reviewed-change-sets.md):
\* however often and in parallel a plan is applied, whoever writes in between and
\* however late a request arrives, the server changes the object of a row at most once
\* for a plan, and only the object the dry run was for.
AppliedOnceAsReviewed ==
    [][\A k \in Tasks, t \in Targets : made'[k][t] # made[k][t] =>
          /\ AsReviewed(k, t)
          /\ \A j \in Tasks : task[j].plan = task[k].plan => made[j][t] = {}]_changeVars

\* What the receipt of an operation says stays true: nothing was and nothing will be
\* written behind FAILED, CANCELED and NOT SUBMITTED, and OBSERVED was written.
ReceiptIsTrue ==
    \A k \in Tasks, t \in Targets :
        /\ stage[k][t] \in {"FAILED", "CANCELED", "NOT SUBMITTED"} => made[k][t] = {}
        /\ stage[k][t] = "OBSERVED" => made[k][t] # {}

\* A plan that can be applied is of the latest preparation, which was not cancelled,
\* although callbacks of earlier ones may still be on their way.
PlanIsLatest == view.plan # 0 => view.plan = started /\ view.plan \notin withdrawn
=============================================================================
