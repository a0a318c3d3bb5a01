-------------------------- MODULE MCOperationLedger --------------------------
(***************************************************************************)
(* OperationLedger with several operations in the registry and concurrent  *)
(* writers in one of them: a second operation is submitted only while none *)
(* has attempted a write or failed, and from then on none does.            *)
(***************************************************************************)
EXTENDS OperationLedger

\* Bound of the model: what the operations of a registry with several do. No
\* step that is fair is left out.
Quiet ==
    next' > 1 =>
        /\ attempted' = [t \in Tasks |-> [i \in Positions |-> FALSE]]
        /\ \A t \in Tasks :
              /\ err'[t] \subseteq {"context"}
              /\ \A i \in Positions : outcome'[t][i] \notin {"OBSERVED", "COMPLETED"}

MCSpec == Init /\ [][Next /\ Quiet]_vars /\ Fairness
=============================================================================
