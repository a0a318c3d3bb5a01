------------------------------- MODULE MCPages -------------------------------
(***************************************************************************)
(* What a page starts and may leave behind: the forwards of OwnedForward   *)
(* or the table of TableWatch. An execution is about one of them; the      *)
(* other stands still. Liveness is asked of the table alone.               *)
(***************************************************************************)
EXTENDS OwnedForward, TableWatch

VARIABLE part

MCInit == ForwardInit /\ TableInit /\ part \in {"forward", "table"}

MCNext ==
    \/ part = "forward" /\ ForwardNext /\ UNCHANGED <<tableVars, part>>
    \/ part = "table" /\ TableNext /\ UNCHANGED <<allVars, part>>

MCSpec == MCInit /\ [][MCNext]_<<allVars, tableVars, part>> /\ TableFairness
=============================================================================
