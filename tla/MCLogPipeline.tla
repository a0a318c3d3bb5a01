---------------------------- MODULE MCLogPipeline ----------------------------
(***************************************************************************)
(* The way of a line from the container's log to the screen: the reader of *)
(* one source in LogSource with the alphabet of private keys, or LogEngine *)
(* with two sources of which one fits. An execution is about one of them;  *)
(* the other stands still.                                                 *)
(***************************************************************************)
EXTENDS MCLogSource, LogEngine

VARIABLE part

MCInit == Init /\ EngineInit /\ part \in {"source", "engine"}

MCNext ==
    \/ part = "source" /\ Next /\ UNCHANGED <<engineVars, part>>
    \/ part = "engine" /\ EngineNext /\ UNCHANGED <<vars, part>>

MCSpec == MCInit /\ [][MCNext]_<<vars, engineVars, part>>
=============================================================================
