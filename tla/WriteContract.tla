--------------------------- MODULE WriteContract ---------------------------
(***************************************************************************)
(* What the receipt of one guarded write promises about the server, in the *)
(* words of docs/guarded-operations.md: FAILED, CANCELED and NOT SUBMITTED *)
(* mean that nothing was and nothing will be written, ACCEPTED means that  *)
(* the server acknowledged the one write, UNKNOWN leaves both open.        *)
(***************************************************************************)
EXTENDS Integers

VARIABLES
    effects,       \* how many writes of this target the server applied
    acknowledged,  \* the receipt lists an accepted step
    verdict        \* the state in the receipt, "PENDING" until it is known

vars == <<effects, acknowledged, verdict>>

Init ==
    /\ effects = 0
    /\ acknowledged = FALSE
    /\ verdict = "PENDING"

\* A write may still arrive after its receipt says that it is unknown.
Apply ==
    /\ effects = 0
    /\ verdict \in {"PENDING", "UNKNOWN"}
    /\ effects' = 1
    /\ UNCHANGED <<acknowledged, verdict>>

Acknowledge ==
    /\ effects = 1
    /\ verdict = "PENDING"
    /\ acknowledged' = TRUE
    /\ UNCHANGED <<effects, verdict>>

Decide(v) ==
    /\ verdict = "PENDING"
    /\ v = "ACCEPTED" => acknowledged
    /\ v \in {"FAILED", "CANCELED", "NOT SUBMITTED"} => effects = 0
    /\ verdict' = v
    /\ UNCHANGED <<effects, acknowledged>>

Next ==
    \/ Apply
    \/ Acknowledge
    \/ \E v \in {"ACCEPTED", "FAILED", "CANCELED", "NOT SUBMITTED", "UNKNOWN"} :
          Decide(v)

Spec == Init /\ [][Next]_vars
=============================================================================
