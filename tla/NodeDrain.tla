----------------------------- MODULE NodeDrain -----------------------------
(***************************************************************************)
(* The guarded drain of one node (internal/view/operation_maintenance.go,  *)
(* operation_maintenance_review.go, operation_maintenance_context.go):     *)
(* list the node's Pods against the reviewed identities, decide between    *)
(* eviction and delete, authorize, cordon, then let kubectl's helper write *)
(* to each Pod through clients that check the node and pin the Pod's UID.  *)
(*                                                                         *)
(* Pods live at places (namespace and name) and get a new generation (UID) *)
(* when they are recreated. Requests and their answers may be late or      *)
(* lost, the node may be replaced, the server may change what it says of   *)
(* evictions. The helper is a library: one worker for each Pod, which      *)
(* repeats a refused eviction, and waits until the Pod it named is gone.   *)
(* The cordon is one step here and a kind of module GuardedWrite; what     *)
(* the receipt says of the writes is module OperationLedger.               *)
(***************************************************************************)
EXTENDS Integers, FiniteSets

CONSTANTS
    Places,         \* places of the node's Pods
    MaxRecreated    \* bound of the model: generations at a place

ASSUME DrainAssumption == IsFiniteSet(Places) /\ MaxRecreated \in Nat \ {0}

VARIABLES
    pods,       \* generation of the Pod at each place (0: none)
    recreated,  \* the last generation used there
    node,       \* the node: "selected", "replaced"
    evictable,  \* what discovery would answer now
    given,      \* the drain comes from a maintenance review
    reviewed,   \* the generations it captured
    disabled,   \* opts.DisableEviction
    cached,     \* maintenanceDiscovery.resources: "unread", "yes", "no"
    drain,      \* the operation: "list", "discover", "authorize", "cordon", "write", "done"
    method,     \* what the preflight announced: "undecided", "evict", "delete"
    expected,   \* per place, the generation to remove (0: none)
    cordoned,   \* the cordon was accepted
    worker,     \* per place, the helper's worker: "none", "ready", "checked", "sent",
                \* "waiting", "gone", "failed"
    request,    \* per place, the request that the server may still apply
    ended,      \* the operation's context has ended
    returned,   \* what drainReviewed returned: "none", "nil", "error"
    removed     \* what the server removed for this drain (history)

drainVars == <<pods, recreated, node, evictable, given, reviewed, disabled,
               cached, drain, method, expected, cordoned, worker, request, ended,
               returned, removed>>
podVars == <<pods, recreated>>
serverVars == <<node, evictable>>
optionVars == <<given, reviewed, disabled>>
preflightVars == <<cached, method, expected, cordoned>>

NoWrite == [generation |-> 0, how |-> "none"]

DrainInit ==
    /\ pods \in [Places -> {0, 1}] /\ recreated = [p \in Places |-> 1]
    /\ node = "selected" /\ evictable \in BOOLEAN
    /\ given \in BOOLEAN /\ reviewed = pods /\ disabled \in BOOLEAN
    /\ cached = "unread" /\ drain = "list" /\ method = "undecided"
    /\ expected = [p \in Places |-> 0] /\ cordoned = FALSE
    /\ worker = [p \in Places |-> "none"] /\ request = [p \in Places |-> NoWrite]
    /\ ended = FALSE /\ returned = "none" /\ removed = {}

---------------------------------------------------------------------------
(* The cluster, and the end of the operation's context. *)
PodAppears(p) ==
    /\ pods[p] = 0 /\ recreated[p] < MaxRecreated
    /\ recreated' = [recreated EXCEPT ![p] = @ + 1]
    /\ pods' = [pods EXCEPT ![p] = recreated[p] + 1]
    /\ UNCHANGED <<serverVars, optionVars, preflightVars, drain, worker, request,
                   ended, returned, removed>>

PodLeaves(p) ==
    /\ pods[p] # 0 /\ pods' = [pods EXCEPT ![p] = 0]
    /\ UNCHANGED <<recreated, serverVars, optionVars, preflightVars, drain, worker, request,
                   ended, returned, removed>>

ServerChanges ==
    /\ \/ node = "selected" /\ node' = "replaced" /\ UNCHANGED evictable
       \/ evictable' = ~evictable /\ UNCHANGED node
    /\ UNCHANGED <<podVars, optionVars, preflightVars, drain, worker, request, ended,
                   returned, removed>>

OperationEnds ==
    /\ ~ended /\ ended' = TRUE
    /\ UNCHANGED <<podVars, serverVars, optionVars, preflightVars, drain, worker, request,
                   returned, removed>>

---------------------------------------------------------------------------
(* drainReviewed, up to the cordon. *)
GoOn(from, to) ==
    /\ drain = from /\ drain' = to
    /\ UNCHANGED <<podVars, serverVars, optionVars, worker, request, ended, returned, removed>>

\* A read fails, is denied, finds another node or an unreviewed scope.
DrainFails ==
    /\ drain \in {"list", "discover", "authorize", "cordon"}
    /\ drain' = "done" /\ returned' = "error"
    /\ UNCHANGED <<podVars, serverVars, optionVars, preflightVars, worker, request, ended,
                   removed>>

OnNode == {p \in Places : pods[p] # 0}

\* maintenancePods.List refuses Pods that were not reviewed under this UID; of the
\* rest the helper's filters keep those it may remove.
Listed(kept) == [p \in Places |-> IF p \in kept THEN pods[p] ELSE 0]

ListPods(kept) ==
    /\ ~ended /\ node = "selected" /\ kept \subseteq OnNode
    /\ given => \A p \in OnNode : reviewed[p] = pods[p]
    /\ GoOn("list", "discover") /\ expected' = Listed(kept)
    /\ UNCHANGED <<cached, method, cordoned>>

ServerSays == IF evictable THEN "yes" ELSE "no"
MethodOf(answer) == IF answer = "yes" THEN "evict" ELSE "delete"

\* Mutated: every discovery asks the server.
DiscoveredAnew == ServerSays

\* ServerResourcesForGroupVersion answers from the first observation.
Discovered == IF cached = "unread" THEN ServerSays ELSE cached

Discover ==
    /\ ~ended
    /\ GoOn("discover", "authorize")
    /\ IF disabled THEN method' = "delete" /\ UNCHANGED cached
       ELSE cached' = Discovered /\ method' = MethodOf(Discovered)
    /\ UNCHANGED <<expected, cordoned>>

Authorize == GoOn("authorize", "cordon") /\ UNCHANGED preflightVars

Removable == {p \in Places : expected[p] # 0}

\* The cordon carries the node's UID. The helper then discovers once more.
Cordon ==
    /\ drain = "cordon" /\ node = "selected" /\ cordoned' = TRUE /\ drain' = "write"
    /\ worker' = [p \in Places |-> IF p \in Removable THEN "ready" ELSE "none"]
    /\ UNCHANGED <<podVars, serverVars, optionVars, cached, method, expected, request, ended,
                   returned, removed>>

---------------------------------------------------------------------------
(* kubectl's helper, and the clients it writes through. *)
Works(p, from, to) ==
    /\ worker[p] = from /\ worker' = [worker EXCEPT ![p] = to]
    /\ UNCHANGED <<podVars, serverVars, optionVars, preflightVars, drain, ended, returned,
                   removed>>

CheckNode(p) ==
    /\ ~ended /\ node = "selected" /\ Works(p, "ready", "checked") /\ UNCHANGED request

\* The read fails or finds another node; or the helper stops at the failure of another delete.
CheckFails(p) == Works(p, "ready", "failed") /\ UNCHANGED request

How == IF disabled THEN "delete" ELSE MethodOf(Discovered)

\* maintenanceUID: the precondition of the eviction or of the delete.
Pinned(p) == expected[p]

WriteTo(p) ==
    /\ Works(p, "checked", "sent")
    /\ request' = [request EXCEPT ![p] = [generation |-> Pinned(p), how |-> How]]

\* The server removes the Pod that has this UID, which terminates; it may do so late.
Apply(p) ==
    /\ request[p].generation # 0
    /\ \/ /\ pods[p] = request[p].generation
          /\ removed' = removed \cup {[place |-> p, generation |-> pods[p], how |-> request[p].how]}
          /\ worker' = [worker EXCEPT ![p] = IF @ = "sent" THEN "waiting" ELSE @]
       \/ /\ pods[p] = 0 /\ UNCHANGED removed
          /\ worker' = [worker EXCEPT ![p] = IF @ = "sent" THEN "gone" ELSE @]
       \/ /\ pods[p] \notin {0, request[p].generation} /\ UNCHANGED removed
          /\ worker' = [worker EXCEPT ![p] = IF @ = "sent" THEN "failed" ELSE @]
    /\ request' = [request EXCEPT ![p] = NoWrite]
    /\ UNCHANGED <<pods, recreated, serverVars, optionVars, preflightVars, drain, ended, returned>>

\* Too many requests: a disruption budget refuses an eviction, and the helper repeats it.
Refuse(p) ==
    /\ request[p].how = "evict" /\ Works(p, "sent", "ready")
    /\ request' = [request EXCEPT ![p] = NoWrite]

\* The request is denied or lost, or its answer is; the server may still apply it.
RequestFails(p) ==
    /\ Works(p, "sent", "failed")
    /\ \/ UNCHANGED request
       \/ request' = [request EXCEPT ![p] = NoWrite]

SeenGone(p) == pods[p] # expected[p] /\ Works(p, "waiting", "gone") /\ UNCHANGED request
WaitFails(p) == ended /\ Works(p, "waiting", "failed") /\ UNCHANGED request

---------------------------------------------------------------------------
\* Mutated: what the helper reports is not looked at.
DrainReturnsAnyway ==
    /\ drain = "write" /\ drain' = "done"
    /\ \A p \in Removable : worker[p] \in {"gone", "failed"}
    /\ returned' = "nil"
    /\ UNCHANGED <<podVars, serverVars, optionVars, preflightVars, worker, request, ended,
                   removed>>

DrainReturns ==
    /\ drain = "write" /\ drain' = "done"
    /\ \A p \in Removable : worker[p] \in {"gone", "failed"}
    /\ returned' = IF \E p \in Removable : worker[p] = "failed" THEN "error" ELSE "nil"
    /\ UNCHANGED <<podVars, serverVars, optionVars, preflightVars, worker, request, ended,
                   removed>>

DrainNext ==
    \/ \E p \in Places :
          \/ PodAppears(p) \/ PodLeaves(p) \/ CheckNode(p) \/ CheckFails(p) \/ WriteTo(p)
          \/ Apply(p) \/ Refuse(p) \/ RequestFails(p) \/ SeenGone(p) \/ WaitFails(p)
    \/ ServerChanges \/ OperationEnds \/ DrainFails \/ \E kept \in SUBSET Places : ListPods(kept)
    \/ Discover \/ Authorize \/ Cordon \/ DrainReturns

DrainSpec == DrainInit /\ [][DrainNext]_drainVars

(***************************************************************************)
(* Properties.                                                             *)
(***************************************************************************)
\* A drain removes only Pods it listed, under the UID that was reviewed, after its cordon, and bypasses
\* disruption budgets only if it announced deletes: through recreated Pods, repeated evictions, requests
\* that arrive late and a discovery that changes its answer.
OnlyReviewedPods ==
    \A r \in removed :
        /\ r.generation = expected[r.place] /\ r.how = method /\ cordoned
        /\ given => r.generation = reviewed[r.place]

\* A drain that returned nil has removed all it listed: each of these Pods is gone, even if another has
\* taken its name.
DrainedIsEmpty ==
    returned = "nil" => cordoned /\ \A p \in Removable : pods[p] # expected[p]
=============================================================================
