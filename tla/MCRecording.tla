----------------------------- MODULE MCRecording -----------------------------
(***************************************************************************)
(* The three parts of a recording, one at a time: a Recorder with two      *)
(* sources, the LogWriter in front of it, and LogSessions with three       *)
(* processes. An execution is about one of them; the others stand still.   *)
(***************************************************************************)
EXTENDS Recorder, LogWriter, LogSessions, TLC

VARIABLE part

recorderVars == vars

MCInit ==
    /\ Init
    /\ WriterInit
    /\ SessionsInit
    /\ part \in {"recorder", "writer", "sessions"}

MCNext ==
    \/ part = "recorder" /\ Next /\ UNCHANGED <<writerVars, sessionVars, part>>
    \/ part = "writer" /\ WriterNext /\ UNCHANGED <<recorderVars, sessionVars, part>>
    \/ part = "sessions" /\ SessionsNext /\ UNCHANGED <<recorderVars, writerVars, part>>

MCSpec == MCInit /\ [][MCNext]_<<recorderVars, writerVars, sessionVars, part>>

\* What tells processes apart is no part of what they do.
Alike == Permutations(Processes)
=============================================================================
