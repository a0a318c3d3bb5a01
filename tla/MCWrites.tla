------------------------------ MODULE MCWrites ------------------------------
(***************************************************************************)
(* The writes of an operation: one guarded write of every kind in          *)
(* GuardedWrite, the drain of a node with two places in NodeDrain, or a    *)
(* change set of one row that is prepared twice and applied twice in       *)
(* ChangeSet. An execution is about one of them; the others stand still.   *)
(* Fairness is that of a guarded write, about which alone liveness is      *)
(* asked.                                                                  *)
(***************************************************************************)
EXTENDS GuardedWrite, NodeDrain, ChangeSet

VARIABLE part

\* One of its initial states is enough of what stands still.
WriteStands == kind = "cordon" /\ available /\ ~object.blocked
DrainStands == pods = [p \in Places |-> 0] /\ ~evictable /\ ~given /\ ~disabled
ChangeStands == \A t \in Targets : objects[t].uid = 0

MCInit ==
    /\ Init /\ DrainInit /\ ChangeInit
    /\ \/ part = "write" /\ DrainStands /\ ChangeStands
       \/ part = "drain" /\ WriteStands /\ ChangeStands
       \/ part = "change" /\ WriteStands /\ DrainStands

MCNext ==
    \/ part = "write" /\ Next /\ UNCHANGED <<drainVars, changeVars, part>>
    \/ part = "drain" /\ DrainNext /\ UNCHANGED <<vars, changeVars, part>>
    \/ part = "change" /\ ChangeNext /\ UNCHANGED <<vars, drainVars, part>>

MCSpec == MCInit /\ [][MCNext]_<<vars, drainVars, changeVars, part>> /\ Fairness
=============================================================================
