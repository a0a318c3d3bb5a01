---------------------------- MODULE MCAppSession ----------------------------
(***************************************************************************)
(* What must not outlive the session of the app, or hang in it: a port     *)
(* forward in OwnedForward, or the reconnections of SessionRefresh. An     *)
(* execution is about one of them; the other one never starts, and nothing *)
(* is fair in it until it does.                                            *)
(***************************************************************************)
EXTENDS OwnedForward, SessionRefresh

VARIABLE part

MCInit == ForwardInit /\ RefreshInit /\ part \in {"forward", "refresh"}

MCNext ==
    \/ part = "forward" /\ ForwardNext /\ UNCHANGED <<refreshVars, part>>
    \/ part = "refresh" /\ RefreshNext /\ UNCHANGED <<allVars, part>>

MCSpec ==
    /\ MCInit /\ [][MCNext]_<<allVars, refreshVars, part>>
    /\ ForwardFairness /\ RefreshFairness
=============================================================================
