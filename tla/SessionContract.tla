-------------------------- MODULE SessionContract --------------------------
(***************************************************************************)
(* What the registry of local sessions promises to the rest of the         *)
(* program, without slices, locks, goroutines or history: sessions are     *)
(* launched, ended and stopped, and closing the registry gives a verdict.  *)
(***************************************************************************)
EXTENDS Integers

CONSTANT Ids   \* the sessions

VARIABLES
    phase,     \* of every session: "absent", "active" or "ended"
    stopped,   \* the sessions whose cleanup was invoked
    verdict    \* "open", "closing", "clean" or "deadline"

vars == <<phase, stopped, verdict>>

Init ==
    /\ phase = [h \in Ids |-> "absent"]
    /\ stopped = {}
    /\ verdict = "open"

\* Sessions start only while the registry is open.
Launch(h) ==
    /\ verdict = "open"
    /\ phase[h] = "absent"
    /\ phase' = [phase EXCEPT ![h] = "active"]
    /\ UNCHANGED <<stopped, verdict>>

\* An ended session never comes back.
End(h) ==
    /\ phase[h] = "active"
    /\ phase' = [phase EXCEPT ![h] = "ended"]
    /\ UNCHANGED <<stopped, verdict>>

\* A session is stopped once. It may have ended just before.
Stop(h) ==
    /\ phase[h] # "absent"
    /\ h \notin stopped
    /\ stopped' = stopped \union {h}
    /\ UNCHANGED <<phase, verdict>>

Close ==
    /\ verdict = "open"
    /\ verdict' = "closing"
    /\ UNCHANGED <<phase, stopped>>

\* The clean verdict is about every session that was ever launched.
CloseClean ==
    /\ verdict = "closing"
    /\ \A h \in Ids : phase[h] # "active"
    /\ verdict' = "clean"
    /\ UNCHANGED <<phase, stopped>>

CloseAtDeadline ==
    /\ verdict = "closing"
    /\ verdict' = "deadline"
    /\ UNCHANGED <<phase, stopped>>

Next ==
    \/ \E h \in Ids : Launch(h) \/ End(h) \/ Stop(h)
    \/ Close
    \/ CloseClean
    \/ CloseAtDeadline

Spec == Init /\ [][Next]_vars
=============================================================================
