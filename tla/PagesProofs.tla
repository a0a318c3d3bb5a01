----------------------------- MODULE PagesProofs -----------------------------
(***************************************************************************)
(* Proofs about OwnedForward, for any number of launches and any limits of *)
(* the registry, and about TableWatch, for any namespaces, selectors and   *)
(* bounds.                                                                 *)
(*                                                                         *)
(* What a stream and the factory's map say of each other is not inductive: *)
(* it takes what the worker knows of the answer to its registration, that  *)
(* one callback at a time is between its checks and its effect, and that   *)
(* the mapping is free meanwhile. That a launch whose page was left is     *)
(* never registered takes that the UI thread waits for the cleanup of what *)
(* it cancels before it runs another callback.                             *)
(*                                                                         *)
(* That nothing of an old session comes back takes that a table's rows,    *)
(* what its refresh has read and the callbacks made of it are of the       *)
(* session of the table, and that none of them is of a session later than  *)
(* the page's.                                                             *)
(***************************************************************************)
EXTENDS OwnedForward, TableWatch, TLAPS

(***************************************************************************)
(* Owned forwards.                                                         *)
(***************************************************************************)

Over == {"returning", "done"}
RunSteps == {"none", "setup", "register", "serving", "ended", "deleted"} \cup Over
ObserverSteps == {"none", "waiting", "observed", "ready", "reported", "gone"}

ForwardTypeOK ==
    /\ sequence \in 0..MaxLaunches
    /\ finished \subseteq Ids
    /\ once \in [Ids -> OnceStates]
    /\ running \in BOOLEAN /\ exiting \in BOOLEAN
    /\ top \in {"home", "other"}
    /\ left \subseteq Launched
    /\ run \in [Ids -> RunSteps]
    /\ callback \in [Ids -> {"none", "queued", "approved", "sent"}]
    /\ reply \in [Ids -> {"none", "ok", "refused"}]
    /\ observer \in [Ids -> ObserverSteps]
    /\ cancelled \subseteq Ids /\ expired \subseteq Ids
    /\ stopChan \subseteq Ids /\ bound \subseteq Ids
    /\ mapping \in {0} \cup Ids

\* How far a launch is, and the answer it has.
WorkerInv(f) ==
    /\ run[f] = "none" <=> f \notin Launched
    /\ f \in finished => run[f] \in Over
    /\ run[f] \in {"none", "setup"} => callback[f] = "none"
    /\ callback[f] = "sent" <=> reply[f] # "none"
    /\ run[f] \in {"serving", "ended", "deleted"} => reply[f] = "ok"
    /\ observer[f] # "none" => reply[f] = "ok" /\ run[f] \notin {"none", "setup", "register"}
    /\ callback[f] = "queued" /\ run[f] # "register" => SetupOver(f)

\* What a launch and the map say of each other.
MapInv(f) ==
    /\ reply[f] = "ok" /\ run[f] \in {"register", "serving"} /\ f \notin stopChan => mapping = f
    /\ mapping = f => reply[f] = "ok"
    /\ mapping = f /\ run[f] \in {"deleted"} \cup Over => observer[f] = "none"

\* A callback between its checks and its effect is alone, and the mapping is free.
ApprovedInv(f) ==
    callback[f] = "approved" =>
        /\ mapping = 0 /\ f \notin left
        /\ \A g \in Ids : callback[g] = "approved" => g = f

\* A launch whose page was left is over, or the UI thread is inside its Cancel.
LeftInv(f) ==
    f \in left /\ run[f] \in {"setup", "register"} /\ callback[f] \in {"none", "queued"} =>
        SetupOver(f) \/ f \in uiCancelling

\* Past the callback the lifetime is cancelled, unless there was nothing to cancel.
CancelInv(f) == once[f] \in {"callback", "used"} => f \in cancelled \cup finished

LaunchInv(f) == WorkerInv(f) /\ MapInv(f) /\ ApprovedInv(f) /\ LeftInv(f) /\ CancelInv(f)

ForwardInv == ForwardTypeOK /\ \A f \in Ids : LaunchInv(f)

\* A step of one launch leaves the others alone; it takes its own registration
\* away at most.
Elsewhere(f) ==
    /\ UNCHANGED <<once, left, uiCancelling, exiting>>
    /\ mapping' = mapping \/ (mapping = f /\ mapping' = 0)
    /\ callback'[f] = "approved" => callback[f] = "approved"
    /\ \A g \in Ids \ {f} :
          /\ run'[g] = run[g] /\ callback'[g] = callback[g]
          /\ reply'[g] = reply[g] /\ observer'[g] = observer[g]
          /\ g \in Launched' <=> g \in Launched
          /\ g \in finished' <=> g \in finished
          /\ g \in cancelled' <=> g \in cancelled
          /\ g \in expired' <=> g \in expired
          /\ g \in stopChan' <=> g \in stopChan

\* So the invariant of the others holds after it.
LEMMA OthersKept ==
    ASSUME ForwardInv, NEW f \in Ids, NEW g \in Ids \ {f}, Elsewhere(f)
    PROVE  LaunchInv(g)'
  <1>1. LaunchInv(g) /\ g # 0
    BY DEF ForwardInv, Ids
  <1>2. SetupOver(g)' <=> SetupOver(g)
    BY DEF Elsewhere, SetupOver, LifetimeOver
  <1>3. WorkerInv(g)'
    BY <1>1, <1>2 DEF Elsewhere, LaunchInv, WorkerInv
  <1>4. MapInv(g)'
    BY <1>1 DEF Elsewhere, LaunchInv, MapInv
  <1>5. ApprovedInv(g)'
    BY <1>1 DEF Elsewhere, LaunchInv, ApprovedInv
  <1>6. LeftInv(g)' /\ CancelInv(g)'
    BY <1>1, <1>2 DEF Elsewhere, LaunchInv, LeftInv, CancelInv
  <1> QED BY <1>3, <1>4, <1>5, <1>6 DEF LaunchInv

\* Thus a step is safe if it is for the launch that takes it.
LEMMA StepKeeps ==
    ASSUME ForwardInv, ForwardTypeOK', NEW f \in Ids, Elsewhere(f), LaunchInv(f)'
    PROVE  ForwardInv'
  BY OthersKept DEF ForwardInv

---------------------------------------------------------------------------
(* The contexts, the registry, and what leaves the launches alone. *)

\* Contexts only end, and forwarders are only stopped: nothing else changes.
LEMMA ContextsEnd ==
    ASSUME ForwardInv, ForwardTypeOK',
           UNCHANGED <<sequence, finished, left, uiCancelling, run, callback, reply,
                       observer, mapping>>,
           exiting => exiting', cancelled \subseteq cancelled', expired \subseteq expired',
           stopChan \subseteq stopChan', \A f \in Ids : CancelInv(f)'
    PROVE  ForwardInv'
  <1> SUFFICES ASSUME NEW f \in Ids PROVE LaunchInv(f)'
    BY DEF ForwardInv
  <1>1. LaunchInv(f)
    BY DEF ForwardInv
  <1>2. SetupOver(f) => SetupOver(f)'
    BY DEF SetupOver, LifetimeOver
  <1>3. WorkerInv(f)' /\ LeftInv(f)'
    BY <1>1, <1>2 DEF LaunchInv, WorkerInv, LeftInv, Launched
  <1>4. MapInv(f)' /\ ApprovedInv(f)'
    BY <1>1 DEF LaunchInv, MapInv, ApprovedInv
  <1> QED BY <1>3, <1>4 DEF LaunchInv

\* Nobody's place in Cancel changes.
LEMMA CancelKept ==
    ASSUME ForwardInv, UNCHANGED once, cancelled \subseteq cancelled', finished \subseteq finished'
    PROVE  \A f \in Ids : CancelInv(f)'
  BY DEF ForwardInv, LaunchInv, CancelInv

\* The goroutine that cancels: under the lock, past the callback, or a later one.
LEMMA CancelStep ==
    ASSUME ForwardInv, NEW f \in Ids,
           \/ RegistryOnly(CancelLocked(f)) \/ RegistryOnly(LeaveCallback(f))
           \/ RegistryOnly(CancelAgain(f))
    PROVE  ForwardInv'
  <1> USE DEF RegistryOnly, CancelLocked, LeaveCallback, CancelAgain, forwardVars, shutdownVars
  <1>1. once \in [Ids -> OnceStates]
    BY DEF ForwardInv, ForwardTypeOK
  <1>2. \/ once' = [once EXCEPT ![f] = "used"] /\ (f \in finished \/ once[f] = "callback")
        \/ once' = [once EXCEPT ![f] = "locked"]
        \/ once' = once
    OBVIOUS
  <1>3. /\ once' \in [Ids -> OnceStates]
        /\ \A g \in Ids \ {f} : once'[g] = once[g]
        /\ once'[f] \in {"callback", "used"} =>
              f \in finished \/ once[f] \in {"callback", "used"}
    BY <1>1, <1>2 DEF OnceStates
  <1>4. ForwardTypeOK'
    BY <1>3 DEF ForwardInv, ForwardTypeOK, Launched
  <1>5. \A g \in Ids : CancelInv(g)'
    BY <1>3 DEF ForwardInv, LaunchInv, CancelInv
  <1> QED BY <1>4, <1>5, ContextsEnd

\* The cleanup callback cancels the lifetime it belongs to.
LEMMA CleanupStep ==
    ASSUME ForwardInv, NEW f \in Ids, Cleanup(f)
    PROVE  ForwardInv'
  <1> USE DEF Cleanup, EnterCallback, uiVars, workerVars, shutdownVars
  <1>1. /\ once' \in [Ids -> OnceStates]
        /\ \A g \in Ids \ {f} : once'[g] = once[g]
    BY DEF ForwardInv, ForwardTypeOK, OnceStates
  <1>2. ForwardTypeOK'
    BY <1>1 DEF ForwardInv, ForwardTypeOK, Launched
  <1>3. \A g \in Ids : CancelInv(g)'
    BY <1>1 DEF ForwardInv, LaunchInv, CancelInv
  <1> QED BY <1>2, <1>3, ContextsEnd

\* Shutdown of the registry touches no launch.
LEMMA ShutdownStep ==
    ASSUME ForwardInv, RegistryOnly(Shutdown)
    PROVE  ForwardInv'
  <1>1. UNCHANGED <<sequence, finished, once, forwardVars>>
    BY DEF RegistryOnly, Shutdown, ShutdownBegin, ShutdownAwait, ShutdownClean, ShutdownExpire,
         ShutdownMark, ShutdownExpired, cancelVars
  <1> USE <1>1 DEF forwardVars
  <1>2. ForwardTypeOK'
    BY DEF ForwardInv, ForwardTypeOK, Launched
  <1> QED BY <1>2, CancelKept, ContextsEnd

\* Deadlines, the ends of lifetimes, the app and the list of forwards.
LEMMA ContextStep ==
    ASSUME ForwardInv,
           \/ AppStop \/ ExitRequested \/ KillForward \/ ReturnToPage
           \/ \E f \in Ids : StopAfterLifetime(f) \/ SetupExpires(f) \/ ListenerBinds(f)
    PROVE  ForwardInv'
  <1> USE DEF AppStop, ExitRequested, KillForward, ReturnToPage, StopAfterLifetime, SetupExpires,
              ListenerBinds, vars, uiVars, workerVars, contextVars, cancelVars
  <1>1. /\ UNCHANGED <<sequence, finished, once, left, uiCancelling, run, callback, reply,
                      observer, mapping, cancelled>>
        /\ exiting => exiting'
        /\ expired \subseteq expired' /\ stopChan \subseteq stopChan'
    OBVIOUS
  <1>2. /\ running' \in BOOLEAN /\ exiting' \in BOOLEAN /\ top' \in {"home", "other"}
        /\ expired' \subseteq Ids /\ stopChan' \subseteq Ids /\ bound' \subseteq Ids
    BY DEF ForwardInv, ForwardTypeOK
  <1>3. ForwardTypeOK'
    <2> HIDE DEF AppStop, ExitRequested, KillForward, ReturnToPage, StopAfterLifetime,
                 SetupExpires, ListenerBinds
    <2> QED BY <1>1, <1>2 DEF ForwardInv, ForwardTypeOK, Launched
  <1>4. \A f \in Ids : CancelInv(f)'
    BY <1>1, CancelKept
  <1> QED BY <1>1, <1>3, <1>4, ContextsEnd

---------------------------------------------------------------------------
(* The observer, and the map. *)

\* The observer goes on once it waits; what it marks leaves the launch as it is.
LEMMA ObserverStep ==
    ASSUME ForwardInv, NEW f \in Ids,
           ObserveReady(f) \/ MarkReady(f) \/ ReportRunning(f) \/ ObserverLeaves(f)
    PROVE  ForwardInv'
  <1> USE DEF ObserveReady, MarkReady, ReportRunning, ObserverLeaves, Running,
              vars, uiVars, contextVars, cancelVars
  <1>1. /\ UNCHANGED <<sequence, finished, once, left, top, running, uiCancelling, run, callback,
                      reply, mapping, exiting, cancelled, stopChan, bound>>
        /\ expired' \in {expired, expired \cup {f}}
        /\ observer[f] # "none"
    OBVIOUS
  <1>2. /\ observer' \in [Ids -> ObserverSteps]
        /\ \A g \in Ids \ {f} : observer'[g] = observer[g]
    BY DEF ForwardInv, ForwardTypeOK, ObserverSteps
  <1> HIDE DEF ObserveReady, MarkReady, ReportRunning, ObserverLeaves
  <1>3. ForwardTypeOK'
    BY <1>1, <1>2 DEF ForwardInv, ForwardTypeOK, Launched
  <1>4. ASSUME NEW g \in Ids PROVE LaunchInv(g)'
    <2>1. LaunchInv(g) /\ (observer'[g] # "none" => observer[g] # "none")
      BY <1>1, <1>2 DEF ForwardInv
    <2>2. SetupOver(g) => SetupOver(g)'
      BY <1>1 DEF SetupOver, LifetimeOver
    <2>3. WorkerInv(g)'
      BY <1>1, <2>1, <2>2 DEF LaunchInv, WorkerInv, Launched
    <2>4. MapInv(g)'
      <3>1. mapping = g /\ run[g] \in {"deleted"} \cup Over => observer'[g] = "none"
        BY <1>1, <1>2, <2>1 DEF LaunchInv, MapInv
      <3> QED BY <1>1, <2>1, <3>1 DEF LaunchInv, MapInv
    <2>5. ApprovedInv(g)' /\ LeftInv(g)' /\ CancelInv(g)'
      BY <1>1, <2>1, <2>2 DEF LaunchInv, ApprovedInv, LeftInv, CancelInv
    <2> QED BY <2>3, <2>4, <2>5 DEF LaunchInv
  <1> QED BY <1>3, <1>4 DEF ForwardInv

\* The factory drops a forward whose Pod is gone, and all of them when it ends.
LEMMA DropStep ==
    ASSUME ForwardInv, PodGone \/ Terminate
    PROVE  ForwardInv'
  <1> USE DEF PodGone, Terminate, vars, uiVars, workerVars, cancelVars
  <1>1. ForwardTypeOK'
    BY DEF ForwardInv, ForwardTypeOK, Launched
  <1>2. ASSUME NEW g \in Ids PROVE LaunchInv(g)'
    <2>1. LaunchInv(g) /\ g # 0
      BY DEF ForwardInv, Ids
    <2>2. WorkerInv(g)' /\ LeftInv(g)' /\ CancelInv(g)'
      BY <2>1 DEF LaunchInv, WorkerInv, LeftInv, CancelInv, Launched, SetupOver, LifetimeOver
    <2>3. MapInv(g)' /\ ApprovedInv(g)'
      BY <2>1 DEF LaunchInv, MapInv, ApprovedInv
    <2> QED BY <2>2, <2>3 DEF LaunchInv
  <1> QED BY <1>1, <1>2 DEF ForwardInv

---------------------------------------------------------------------------
(* The registration on the UI thread. *)

\* Whom the UI thread cancelled has been stopped or had finished before.
LEMMA UIIdleCancelled ==
    ASSUME ForwardInv, UIIdle, NEW f \in uiCancelling, f \in Ids
    PROVE  f \in cancelled \cup finished
  BY DEF ForwardInv, LaunchInv, CancelInv, UIIdle

\* A launch whose page was left and that has no answer yet is over.
LEMMA LeftIsOver ==
    ASSUME ForwardInv, UIIdle, NEW f \in Ids, f \in left, callback[f] = "queued"
    PROVE  SetupOver(f)
  <1>1. LaunchInv(f)
    BY DEF ForwardInv
  <1>2. CASE run[f] = "register"
    <2>1. f \notin finished
      BY <1>1, <1>2 DEF LaunchInv, WorkerInv, Over
    <2>2. SetupOver(f) \/ f \in uiCancelling
      BY <1>1, <1>2 DEF LaunchInv, LeftInv
    <2> QED BY <2>1, <2>2, UIIdleCancelled DEF SetupOver, LifetimeOver
  <1>3. CASE run[f] # "register"
    BY <1>1, <1>3 DEF LaunchInv, WorkerInv
  <1> QED BY <1>2, <1>3

\* The callback refuses, or goes on alone while the mapping is free.
LEMMA CallbackCheckStep ==
    ASSUME ForwardInv, NEW f \in Ids, CallbackCheck(f)
    PROVE  ForwardInv'
  <1> USE DEF vars, uiVars, contextVars, cancelVars
  <1>1. UNCHANGED <<sequence, finished, once, uiVars, run, contextVars, bound, observer, mapping>>
        /\ UIIdle /\ callback[f] = "queued"
    BY DEF CallbackCheck
  <1>2. /\ callback' \in [Ids -> {"none", "queued", "approved", "sent"}]
        /\ reply' \in [Ids -> {"none", "ok", "refused"}]
        /\ \A g \in Ids \ {f} : callback'[g] = callback[g] /\ reply'[g] = reply[g]
        /\ \/ /\ callback'[f] = "approved" /\ reply'[f] = reply[f]
              /\ mapping = 0 /\ ~SetupOver(f)
           \/ callback'[f] = "sent" /\ reply'[f] = "refused"
    BY DEF CallbackCheck, ForwardInv, ForwardTypeOK
  <1>3. ForwardTypeOK'
    BY <1>1, <1>2 DEF ForwardInv, ForwardTypeOK, Launched
  <1>4. ASSUME NEW g \in Ids PROVE LaunchInv(g)'
    <2>1. LaunchInv(g) /\ LaunchInv(f)
      BY DEF ForwardInv
    <2>2. reply[f] = "none" /\ run[f] \notin {"none", "setup", "serving", "ended", "deleted"}
      BY <1>1, <2>1 DEF LaunchInv, WorkerInv
    <2>3. SetupOver(g)' <=> SetupOver(g)
      BY <1>1 DEF SetupOver, LifetimeOver
    <2>4. WorkerInv(g)'
      BY <1>1, <1>2, <2>1, <2>2, <2>3 DEF LaunchInv, WorkerInv, Launched
    <2>5. MapInv(g)' /\ LeftInv(g)' /\ CancelInv(g)'
      BY <1>1, <1>2, <2>1, <2>2, <2>3 DEF LaunchInv, MapInv, LeftInv, CancelInv
    <2>6. ApprovedInv(g)'
      <3>1. callback'[f] = "approved" => mapping = 0 /\ f \notin left
        BY <1>1, <1>2, LeftIsOver
      <3>2. \A h \in Ids \ {f} : callback'[h] # "approved"
        BY <1>1, <1>2 DEF UIIdle
      <3> QED BY <1>1, <3>1, <3>2 DEF ApprovedInv
    <2> QED BY <2>4, <2>5, <2>6 DEF LaunchInv
  <1> QED BY <1>3, <1>4 DEF ForwardInv

\* What was approved is registered: the mapping was still free.
LEMMA CallbackAddStep ==
    ASSUME ForwardInv, NEW f \in Ids, CallbackAdd(f)
    PROVE  ForwardInv'
  <1> USE DEF vars, uiVars, contextVars, cancelVars
  <1>1. UNCHANGED <<sequence, finished, once, uiVars, run, contextVars, bound, observer>>
        /\ callback[f] = "approved" /\ mapping' = f
    BY DEF CallbackAdd
  <1>2. /\ callback' \in [Ids -> {"none", "queued", "approved", "sent"}]
        /\ reply' \in [Ids -> {"none", "ok", "refused"}]
        /\ \A g \in Ids \ {f} : callback'[g] = callback[g] /\ reply'[g] = reply[g]
        /\ callback'[f] = "sent" /\ reply'[f] = "ok"
    BY DEF CallbackAdd, ForwardInv, ForwardTypeOK
  <1>3. ForwardTypeOK'
    BY <1>1, <1>2 DEF ForwardInv, ForwardTypeOK, Launched
  <1>4. ASSUME NEW g \in Ids PROVE LaunchInv(g)'
    <2>1. LaunchInv(g) /\ LaunchInv(f) /\ g # 0
      BY DEF ForwardInv, Ids
    <2>2. /\ reply[f] = "none" /\ observer[f] = "none" /\ mapping = 0
          /\ run[f] \notin {"none", "setup", "serving", "ended", "deleted"}
      BY <1>1, <2>1 DEF LaunchInv, WorkerInv, ApprovedInv
    <2>3. SetupOver(g)' <=> SetupOver(g)
      BY <1>1 DEF SetupOver, LifetimeOver
    <2>4. WorkerInv(g)'
      BY <1>1, <1>2, <2>1, <2>2, <2>3 DEF LaunchInv, WorkerInv, Launched
    <2>5. MapInv(g)' /\ LeftInv(g)' /\ CancelInv(g)'
      BY <1>1, <1>2, <2>1, <2>2, <2>3 DEF LaunchInv, MapInv, LeftInv, CancelInv
    <2>6. ApprovedInv(g)'
      BY <1>1, <1>2, <2>1 DEF ForwardInv, LaunchInv, ApprovedInv
    <2> QED BY <2>4, <2>5, <2>6 DEF LaunchInv
  <1> QED BY <1>3, <1>4 DEF ForwardInv

---------------------------------------------------------------------------
(* The worker. *)

\* A stream is there, and its registration is queued.
LEMMA SetupSucceedsStep ==
    ASSUME ForwardInv, NEW f \in Ids, SetupSucceeds(f)
    PROVE  ForwardInv'
  <1> USE DEF SetupSucceeds, vars, uiVars, contextVars, cancelVars, shutdownVars
  <1>1. LaunchInv(f) /\ f # 0
    BY DEF ForwardInv, Ids
  <1>2. ForwardTypeOK'
    BY DEF ForwardInv, ForwardTypeOK, RunSteps, Over, ObserverSteps, Launched
  <1>3. Elsewhere(f)
    BY DEF ForwardInv, ForwardTypeOK, Elsewhere, Launched
  <1>4. /\ run[f] = "setup" /\ run'[f] = "register" /\ callback'[f] \in {"queued", "none"}
    BY DEF ForwardInv, ForwardTypeOK, Over
  <1>5. WorkerInv(f)'
    BY <1>1, <1>4 DEF LaunchInv, WorkerInv, Launched, SetupOver, LifetimeOver, Over
  <1>6. MapInv(f)' /\ ApprovedInv(f)'
    BY <1>1, <1>3, <1>4 DEF LaunchInv, WorkerInv, MapInv, ApprovedInv, Elsewhere, Over
  <1>7. LeftInv(f)' /\ CancelInv(f)'
    BY <1>1, <1>4 DEF LaunchInv, LeftInv, WorkerInv, CancelInv, SetupOver, LifetimeOver, Over
  <1> QED BY <1>2, <1>3, <1>5, <1>6, <1>7, StepKeeps DEF LaunchInv

\* The setup fails, or its context is over.
LEMMA SetupFailsStep ==
    ASSUME ForwardInv, NEW f \in Ids, SetupFails(f)
    PROVE  ForwardInv'
  <1> USE DEF SetupFails, FinishSetup, Finish, vars, uiVars, contextVars, cancelVars, shutdownVars
  <1>1. LaunchInv(f) /\ f # 0
    BY DEF ForwardInv, Ids
  <1>2. ForwardTypeOK'
    BY DEF ForwardInv, ForwardTypeOK, RunSteps, Over, ObserverSteps, Launched
  <1>3. Elsewhere(f)
    BY DEF ForwardInv, ForwardTypeOK, Elsewhere, Launched
  <1>4. run[f] = "setup" /\ run'[f] = "returning"
    BY DEF ForwardInv, ForwardTypeOK, Over
  <1>5. WorkerInv(f)'
    BY <1>1, <1>4 DEF LaunchInv, WorkerInv, Launched, SetupOver, LifetimeOver, Over
  <1>6. MapInv(f)' /\ ApprovedInv(f)'
    BY <1>1, <1>3, <1>4 DEF LaunchInv, WorkerInv, MapInv, ApprovedInv, Elsewhere, Over
  <1>7. LeftInv(f)' /\ CancelInv(f)'
    BY <1>1, <1>4 DEF LaunchInv, LeftInv, WorkerInv, CancelInv, SetupOver, LifetimeOver, Over
  <1> QED BY <1>2, <1>3, <1>5, <1>6, <1>7, StepKeeps DEF LaunchInv

\* The worker receives that it is registered, and serves.
LEMMA RegisteredStep ==
    ASSUME ForwardInv, NEW f \in Ids, Registered(f)
    PROVE  ForwardInv'
  <1> USE DEF Registered, vars, uiVars, contextVars, cancelVars, shutdownVars
  <1>1. LaunchInv(f) /\ f # 0
    BY DEF ForwardInv, Ids
  <1>2. ForwardTypeOK'
    BY DEF ForwardInv, ForwardTypeOK, RunSteps, Over, ObserverSteps, Launched
  <1>3. Elsewhere(f)
    BY DEF ForwardInv, ForwardTypeOK, Elsewhere, Launched
  <1>4. /\ run[f] = "register" /\ run'[f] = "serving"
        /\ reply[f] = "ok" /\ observer'[f] = "waiting"
    BY DEF ForwardInv, ForwardTypeOK, Over
  <1>5. WorkerInv(f)'
    BY <1>1, <1>4 DEF LaunchInv, WorkerInv, Launched, SetupOver, LifetimeOver, Over
  <1>6. MapInv(f)' /\ ApprovedInv(f)'
    BY <1>1, <1>3, <1>4 DEF LaunchInv, WorkerInv, MapInv, ApprovedInv, Elsewhere, Over
  <1>7. LeftInv(f)' /\ CancelInv(f)'
    BY <1>1, <1>4 DEF LaunchInv, LeftInv, WorkerInv, CancelInv, SetupOver, LifetimeOver, Over
  <1> QED BY <1>2, <1>3, <1>5, <1>6, <1>7, StepKeeps DEF LaunchInv

\* The worker is refused, or does not wait for the answer any longer.
LEMMA NotRegisteredStep ==
    ASSUME ForwardInv, NEW f \in Ids, NotRegistered(f)
    PROVE  ForwardInv'
  <1> USE DEF NotRegistered, FinishSetup, Finish, vars, uiVars, contextVars, cancelVars, shutdownVars
  <1>1. LaunchInv(f) /\ f # 0
    BY DEF ForwardInv, Ids
  <1>2. ForwardTypeOK'
    BY DEF ForwardInv, ForwardTypeOK, RunSteps, Over, ObserverSteps, Launched
  <1>3. Elsewhere(f)
    BY DEF ForwardInv, ForwardTypeOK, Elsewhere, Launched
  <1>4. /\ run[f] = "register" /\ run'[f] = "returning"
        /\ reply[f] = "refused" \/ SetupOver(f)
    BY DEF ForwardInv, ForwardTypeOK, Over
  <1>5. WorkerInv(f)'
    BY <1>1, <1>4 DEF LaunchInv, WorkerInv, Launched, SetupOver, LifetimeOver, Over
  <1>6. MapInv(f)' /\ ApprovedInv(f)'
    BY <1>1, <1>3, <1>4 DEF LaunchInv, WorkerInv, MapInv, ApprovedInv, Elsewhere, Over
  <1>7. LeftInv(f)' /\ CancelInv(f)'
    BY <1>1, <1>4 DEF LaunchInv, LeftInv, WorkerInv, CancelInv, SetupOver, LifetimeOver, Over
  <1> QED BY <1>2, <1>3, <1>5, <1>6, <1>7, StepKeeps DEF LaunchInv

\* The stream ends.
LEMMA StreamEndsStep ==
    ASSUME ForwardInv, NEW f \in Ids, StreamEnds(f)
    PROVE  ForwardInv'
  <1> USE DEF StreamEnds, vars, uiVars, contextVars, cancelVars, shutdownVars
  <1>1. LaunchInv(f) /\ f # 0
    BY DEF ForwardInv, Ids
  <1>2. ForwardTypeOK'
    BY DEF ForwardInv, ForwardTypeOK, RunSteps, Over, ObserverSteps, Launched
  <1>3. Elsewhere(f)
    BY DEF ForwardInv, ForwardTypeOK, Elsewhere, Launched
  <1>4. run[f] = "serving" /\ run'[f] = "ended"
    BY DEF ForwardInv, ForwardTypeOK, Over
  <1>5. WorkerInv(f)'
    BY <1>1, <1>4 DEF LaunchInv, WorkerInv, Launched, SetupOver, LifetimeOver, Over
  <1>6. MapInv(f)' /\ ApprovedInv(f)'
    BY <1>1, <1>3, <1>4 DEF LaunchInv, WorkerInv, MapInv, ApprovedInv, Elsewhere, Over
  <1>7. LeftInv(f)' /\ CancelInv(f)'
    BY <1>1, <1>4 DEF LaunchInv, LeftInv, WorkerInv, CancelInv, SetupOver, LifetimeOver, Over
  <1> QED BY <1>2, <1>3, <1>5, <1>6, <1>7, StepKeeps DEF LaunchInv

\* The worker takes its own registration away, if it is still there.
LEMMA DeleteOwnedStep ==
    ASSUME ForwardInv, NEW f \in Ids, DeleteOwned(f)
    PROVE  ForwardInv'
  <1> USE DEF DeleteOwned, vars, uiVars, contextVars, cancelVars, shutdownVars
  <1>1. LaunchInv(f) /\ f # 0
    BY DEF ForwardInv, Ids
  <1>2. ForwardTypeOK'
    BY DEF ForwardInv, ForwardTypeOK, RunSteps, Over, ObserverSteps, Launched
  <1>3. Elsewhere(f)
    BY DEF ForwardInv, ForwardTypeOK, Elsewhere, Launched
  <1>4. run[f] = "ended" /\ run'[f] = "deleted" /\ mapping' # f
    BY <1>1 DEF ForwardInv, ForwardTypeOK, Over
  <1>5. WorkerInv(f)'
    BY <1>1, <1>4 DEF LaunchInv, WorkerInv, Launched, SetupOver, LifetimeOver, Over
  <1>6. MapInv(f)' /\ ApprovedInv(f)'
    BY <1>1, <1>3, <1>4 DEF LaunchInv, WorkerInv, MapInv, ApprovedInv, Elsewhere, Over
  <1>7. LeftInv(f)' /\ CancelInv(f)'
    BY <1>1, <1>4 DEF LaunchInv, LeftInv, WorkerInv, CancelInv, SetupOver, LifetimeOver, Over
  <1> QED BY <1>2, <1>3, <1>5, <1>6, <1>7, StepKeeps DEF LaunchInv

\* The session of a stream that ended is finished.
LEMMA FinishServingStep ==
    ASSUME ForwardInv, NEW f \in Ids, FinishServing(f)
    PROVE  ForwardInv'
  <1> USE DEF FinishServing, Finish, vars, uiVars, contextVars, cancelVars, shutdownVars
  <1>1. LaunchInv(f) /\ f # 0
    BY DEF ForwardInv, Ids
  <1>2. ForwardTypeOK'
    BY DEF ForwardInv, ForwardTypeOK, RunSteps, Over, ObserverSteps, Launched
  <1>3. Elsewhere(f)
    BY DEF ForwardInv, ForwardTypeOK, Elsewhere, Launched
  <1>4. run[f] = "deleted" /\ run'[f] = "returning"
    BY DEF ForwardInv, ForwardTypeOK, Over
  <1>5. WorkerInv(f)'
    BY <1>1, <1>4 DEF LaunchInv, WorkerInv, Launched, SetupOver, LifetimeOver, Over
  <1>6. MapInv(f)' /\ ApprovedInv(f)'
    BY <1>1, <1>3, <1>4 DEF LaunchInv, WorkerInv, MapInv, ApprovedInv, Elsewhere, Over
  <1>7. LeftInv(f)' /\ CancelInv(f)'
    BY <1>1, <1>4 DEF LaunchInv, LeftInv, WorkerInv, CancelInv, SetupOver, LifetimeOver, Over
  <1> QED BY <1>2, <1>3, <1>5, <1>6, <1>7, StepKeeps DEF LaunchInv

\* The worker returns and ends both contexts.
LEMMA ReturnStep ==
    ASSUME ForwardInv, NEW f \in Ids, Return(f)
    PROVE  ForwardInv'
  <1> USE DEF Return, vars, uiVars, contextVars, cancelVars, shutdownVars
  <1>1. LaunchInv(f) /\ f # 0
    BY DEF ForwardInv, Ids
  <1>2. ForwardTypeOK'
    BY DEF ForwardInv, ForwardTypeOK, RunSteps, Over, ObserverSteps, Launched
  <1>3. Elsewhere(f)
    BY DEF ForwardInv, ForwardTypeOK, Elsewhere, Launched
  <1>4. run[f] = "returning" /\ run'[f] = "done"
    BY DEF ForwardInv, ForwardTypeOK, Over
  <1>5. WorkerInv(f)'
    BY <1>1, <1>4 DEF LaunchInv, WorkerInv, Launched, SetupOver, LifetimeOver, Over
  <1>6. MapInv(f)' /\ ApprovedInv(f)'
    BY <1>1, <1>3, <1>4 DEF LaunchInv, WorkerInv, MapInv, ApprovedInv, Elsewhere, Over
  <1>7. LeftInv(f)' /\ CancelInv(f)'
    BY <1>1, <1>4 DEF LaunchInv, LeftInv, WorkerInv, CancelInv, SetupOver, LifetimeOver, Over
  <1> QED BY <1>2, <1>3, <1>5, <1>6, <1>7, StepKeeps DEF LaunchInv

---------------------------------------------------------------------------
(* The user. *)

\* A launch begins with nothing behind it.
LEMMA LaunchStep ==
    ASSUME ForwardInv, Launch
    PROVE  ForwardInv'
  <1> USE DEF Launch, Add, vars, uiVars, contextVars, cancelVars, shutdownVars
  <1> PICK f \in Ids : f = sequence + 1
    BY ConstantsAssumption DEF ForwardInv, ForwardTypeOK, Ids
  <1>1. /\ f \notin Launched /\ f # 0 /\ Launched' = Launched \cup {f}
        /\ sequence' \in 0..MaxLaunches
    BY ConstantsAssumption DEF ForwardInv, ForwardTypeOK, Ids, Launched
  <1>2. LaunchInv(f) /\ run[f] = "none" /\ f \notin left
    BY <1>1 DEF ForwardInv, ForwardTypeOK, LaunchInv, WorkerInv
  <1>3. /\ run' \in [Ids -> RunSteps] /\ run'[f] = "setup"
        /\ \A g \in Ids \ {f} : run'[g] = run[g]
    BY <1>1 DEF ForwardInv, ForwardTypeOK, RunSteps
  <1>4. UNCHANGED <<finished, once, left, uiCancelling, top, running, callback, reply, observer,
                    mapping, exiting, cancelled, expired, stopChan, bound>>
    OBVIOUS
  <1> HIDE DEF Launch, Add
  <1>5. ForwardTypeOK'
    BY <1>1, <1>3, <1>4 DEF ForwardInv, ForwardTypeOK
  <1>6. Elsewhere(f)
    BY <1>1, <1>3, <1>4 DEF Elsewhere
  <1>7. WorkerInv(f)'
    BY <1>1, <1>2, <1>3, <1>4 DEF LaunchInv, WorkerInv, Over
  <1>8. MapInv(f)' /\ ApprovedInv(f)'
    BY <1>1, <1>2, <1>3, <1>4 DEF LaunchInv, WorkerInv, MapInv, ApprovedInv, Over
  <1>9. LeftInv(f)' /\ CancelInv(f)'
    BY <1>1, <1>2, <1>3, <1>4 DEF LaunchInv, LeftInv, CancelInv
  <1> QED BY <1>1, <1>5, <1>6, <1>7, <1>8, <1>9, StepKeeps DEF LaunchInv

\* Whom the user cancels takes the place of those whose Cancel has returned.
LEMMA UserCancels ==
    ASSUME ForwardInv, ForwardTypeOK', UIIdle,
           UNCHANGED <<sequence, finished, once, run, callback, reply, observer, mapping,
                       exiting, cancelled, expired, stopChan>>,
           left \subseteq left',
           \A f \in left' \ left : f \in uiCancelling' \/ Ready(f) \/ f \in finished
    PROVE  ForwardInv'
  <1> SUFFICES ASSUME NEW f \in Ids PROVE LaunchInv(f)'
    BY DEF ForwardInv
  <1>1. LaunchInv(f)
    BY DEF ForwardInv
  <1>2. SetupOver(f)' <=> SetupOver(f)
    BY DEF SetupOver, LifetimeOver
  <1>3. WorkerInv(f)' /\ MapInv(f)' /\ CancelInv(f)'
    BY <1>1, <1>2 DEF LaunchInv, WorkerInv, MapInv, CancelInv, Launched
  <1>4. ApprovedInv(f)'
    BY DEF ApprovedInv, UIIdle
  <1>5. LeftInv(f)'
    <2>1. SUFFICES ASSUME f \in left', run[f] \in {"setup", "register"},
                          callback[f] \in {"none", "queued"}
                   PROVE  SetupOver(f) \/ f \in uiCancelling'
      BY <1>2 DEF LeftInv
    <2>2. f \notin finished /\ observer[f] = "none"
      BY <1>1, <2>1 DEF LaunchInv, WorkerInv, Over
    <2>3. CASE f \in left
      <3>1. SetupOver(f) \/ f \in uiCancelling
        BY <1>1, <2>1, <2>3 DEF LaunchInv, LeftInv
      <3> QED BY <2>2, <3>1, UIIdleCancelled DEF SetupOver, LifetimeOver
    <2>4. CASE f \notin left
      BY <2>1, <2>2, <2>4 DEF Ready
    <2> QED BY <2>3, <2>4
  <1> QED BY <1>3, <1>4, <1>5 DEF LaunchInv

\* The page is left: its launches that are not ready are cancelled.
LEMMA LeavePageStep ==
    ASSUME ForwardInv, LeavePage
    PROVE  ForwardInv'
  <1> USE DEF LeavePage, shutdownVars, workerVars, contextVars
  <1>1. ForwardTypeOK'
    BY DEF ForwardInv, ForwardTypeOK, Launched
  <1>2. \A f \in left' \ left : f \in uiCancelling' \/ Ready(f) \/ f \in finished
    BY DEF Pending, Active
  <1> QED BY <1>1, <1>2, UserCancels

\* A session is stopped from the overview.
LEMMA StopSessionStep ==
    ASSUME ForwardInv, NEW f \in Ids, StopSession(f)
    PROVE  ForwardInv'
  <1> USE DEF StopSession, RequestCancel, shutdownVars, workerVars, contextVars
  <1>1. ForwardTypeOK'
    BY DEF ForwardInv, ForwardTypeOK, Launched
  <1> QED BY <1>1, UserCancels

---------------------------------------------------------------------------
(* The theorems. *)

\* The invariant holds before anything was launched.
LEMMA ForwardStart == ForwardInit => ForwardInv
  <1> SUFFICES ASSUME ForwardInit PROVE ForwardInv
    OBVIOUS
  <1> USE DEF ForwardInit, Init
  <1>1. Launched = {}
    BY DEF Launched
  <1>2. ForwardTypeOK
    <2>1. sequence \in 0..MaxLaunches
      BY ConstantsAssumption
    <2>2. once \in [Ids -> OnceStates] /\ run \in [Ids -> RunSteps]
      BY DEF OnceStates, RunSteps
    <2>3. /\ callback \in [Ids -> {"none", "queued", "approved", "sent"}]
          /\ reply \in [Ids -> {"none", "ok", "refused"}]
          /\ observer \in [Ids -> ObserverSteps]
      BY DEF ObserverSteps
    <2> QED BY <1>1, <2>1, <2>2, <2>3 DEF ForwardTypeOK
  <1>3. ASSUME NEW f \in Ids PROVE LaunchInv(f)
    <2>1. f # 0
      BY DEF Ids
    <2>2. WorkerInv(f)
      BY <1>1 DEF WorkerInv
    <2>3. MapInv(f) /\ ApprovedInv(f) /\ LeftInv(f) /\ CancelInv(f)
      BY <2>1 DEF MapInv, ApprovedInv, LeftInv, CancelInv
    <2> QED BY <2>2, <2>3 DEF LaunchInv
  <1> QED BY <1>2, <1>3 DEF ForwardInv

\* Nothing happens.
LEMMA ForwardStutter == ForwardInv /\ UNCHANGED allVars => ForwardInv'
  <1> SUFFICES ASSUME ForwardInv, UNCHANGED allVars PROVE ForwardInv'
    OBVIOUS
  <1> USE DEF allVars, vars, forwardVars
  <1>1. ForwardTypeOK'
    BY DEF ForwardInv, ForwardTypeOK, Launched
  <1> QED BY <1>1, CancelKept, ContextsEnd

\* Every step keeps the invariant.
LEMMA ForwardStep == ForwardInv /\ [ForwardNext]_allVars => ForwardInv'
  <1> SUFFICES ASSUME ForwardInv, [ForwardNext]_allVars PROVE ForwardInv'
    OBVIOUS
  <1>1. ASSUME NEW f \in Ids, Forward(f) PROVE ForwardInv'
    <2>1. CASE StopSession(f) \/ CallbackCheck(f) \/ CallbackAdd(f) \/ Cleanup(f)
      BY <2>1, StopSessionStep, CallbackCheckStep, CallbackAddStep, CleanupStep
    <2>2. CASE StopAfterLifetime(f) \/ SetupExpires(f) \/ ListenerBinds(f)
      BY <2>2, ContextStep
    <2>3. CASE SetupSucceeds(f) \/ SetupFails(f) \/ Registered(f) \/ NotRegistered(f)
      BY <2>3, SetupSucceedsStep, SetupFailsStep, RegisteredStep, NotRegisteredStep
    <2>4. CASE StreamEnds(f) \/ DeleteOwned(f) \/ FinishServing(f) \/ Return(f)
      BY <2>4, StreamEndsStep, DeleteOwnedStep, FinishServingStep, ReturnStep
    <2>5. CASE ObserveReady(f) \/ MarkReady(f) \/ ReportRunning(f) \/ ObserverLeaves(f)
      BY <2>5, ObserverStep
    <2>6. CASE \/ RegistryOnly(CancelLocked(f)) \/ RegistryOnly(LeaveCallback(f))
               \/ RegistryOnly(CancelAgain(f))
      BY <2>6, CancelStep
    <2> QED BY <1>1, <2>1, <2>2, <2>3, <2>4, <2>5, <2>6 DEF Forward
  <1>2. CASE AppStop \/ ExitRequested \/ KillForward \/ ReturnToPage
    BY <1>2, ContextStep
  <1>3. CASE Launch \/ LeavePage \/ PodGone \/ Terminate \/ RegistryOnly(Shutdown)
    BY <1>3, LaunchStep, LeavePageStep, DropStep, ShutdownStep
  <1> QED BY <1>1, <1>2, <1>3, ForwardStutter DEF ForwardNext

\* The strengthened invariant holds for any number of launches and any limits.
THEOREM ForwardInvariant == ForwardSpec => []ForwardInv
  BY ForwardStart, ForwardStep, PTL DEF ForwardSpec

\* Every variable keeps its type.
THEOREM ForwardTypeCorrect == ForwardSpec => []ForwardTypeOK
  <1>1. ForwardInv => ForwardTypeOK
    BY DEF ForwardInv
  <1> QED BY <1>1, ForwardInvariant, PTL

\* A forward that serves is the registered one until it is told to stop, and a
\* session that ended leaves no registration behind once its worker had it.
THEOREM RegistrationFollowsStreamHolds == ForwardSpec => []RegistrationFollowsStream
  <1>1. ForwardInv => RegistrationFollowsStream
    <2> SUFFICES ASSUME ForwardInv, NEW f \in Ids
                 PROVE  /\ run[f] = "serving" /\ f \notin stopChan => mapping = f
                        /\ mapping = f /\ f \in finished => observer[f] = "none"
      BY DEF RegistrationFollowsStream
    <2>1. WorkerInv(f) /\ MapInv(f)
      BY DEF ForwardInv, LaunchInv
    <2> QED BY <2>1 DEF WorkerInv, MapInv
  <1> QED BY <1>1, ForwardInvariant, PTL

\* Only the callback of an approved registration fills the map.
LEMMA RegisteredByCallback ==
    ASSUME ForwardInv, ForwardNext, NEW f \in Ids, mapping' = f, mapping # f
    PROVE  CallbackAdd(f)
  <1>1. f # 0
    BY DEF Ids
  <1> USE <1>1
  <1>2. CASE Launch \/ LeavePage \/ ReturnToPage \/ AppStop \/ ExitRequested \/ KillForward
    BY <1>2 DEF Launch, LeavePage, ReturnToPage, AppStop, ExitRequested, KillForward
  <1>3. CASE PodGone \/ Terminate \/ RegistryOnly(Shutdown)
    BY <1>3 DEF PodGone, Terminate, RegistryOnly, forwardVars
  <1>4. ASSUME NEW g \in Ids, Forward(g) PROVE CallbackAdd(f)
    <2>1. CASE CallbackAdd(g)
      BY <2>1 DEF CallbackAdd
    <2>2. CASE StopSession(g) \/ CallbackCheck(g) \/ Cleanup(g) \/ StopAfterLifetime(g)
               \/ SetupExpires(g) \/ SetupSucceeds(g) \/ SetupFails(g) \/ Registered(g)
               \/ NotRegistered(g) \/ ListenerBinds(g) \/ StreamEnds(g)
      BY <2>2 DEF StopSession, CallbackCheck, Cleanup, StopAfterLifetime, SetupExpires,
           SetupSucceeds, SetupFails, Registered, NotRegistered, ListenerBinds, StreamEnds
    <2>3. CASE DeleteOwned(g) \/ FinishServing(g) \/ Return(g) \/ ObserveReady(g)
               \/ MarkReady(g) \/ ReportRunning(g) \/ ObserverLeaves(g)
      BY <2>3 DEF DeleteOwned, FinishServing, Return, ObserveReady, MarkReady, ReportRunning,
           ObserverLeaves
    <2>4. CASE \/ RegistryOnly(CancelLocked(g)) \/ RegistryOnly(LeaveCallback(g))
               \/ RegistryOnly(CancelAgain(g))
      BY <2>4 DEF RegistryOnly, forwardVars
    <2> QED BY <1>4, <2>1, <2>2, <2>3, <2>4 DEF Forward
  <1> QED BY <1>2, <1>3, <1>4 DEF ForwardNext

\* A launch whose page was left while it prepared is never registered.
THEOREM LeftLaunchNeverRegistersHolds == ForwardSpec => LeftLaunchNeverRegisters
  <1>1. ForwardInv /\ [ForwardNext]_allVars =>
          [\A f \in Ids : mapping' = f /\ mapping # f => f \notin left]_allVars
    <2> SUFFICES ASSUME ForwardInv, ForwardNext, NEW f \in Ids, mapping' = f, mapping # f
                 PROVE  f \notin left
      OBVIOUS
    <2>1. callback[f] = "approved"
      BY RegisteredByCallback DEF CallbackAdd
    <2> QED BY <2>1 DEF ForwardInv, LaunchInv, ApprovedInv
  <1> QED BY <1>1, ForwardInvariant, PTL DEF ForwardSpec, LeftLaunchNeverRegisters

(***************************************************************************)
(* The table of a page.                                                    *)
(***************************************************************************)

RowSets == {Cleared} \union [session : Sessions, ns : Namespaces, sel : Selectors]
Steps == {"idle", "begun", "listed", "rendered", "titled", "peeked", "telling"}
Updates == [by : 0..MaxGenerations, step : Steps, got : RowSets,
            header : Namespaces \union {Everything}, to : SUBSET Generations]
CallbackSet == [from : 0..MaxGenerations, of : Sessions, rows : RowSets]

TableTypeOK ==
    /\ page \in [started : BOOLEAN, generation : 0..MaxGenerations, session : Sessions]
    /\ choices \in 0..MaxChoices /\ failures \in 0..MaxFailures
    /\ ns \in [Sessions -> Namespaces] /\ sel \in [Sessions -> Selectors]
    /\ rows \in [Sessions -> RowSets]
    /\ listeners \in [Sessions -> SUBSET Generations]
    /\ update \in [Sessions -> Updates]
    /\ updater \in [Generations -> {"none", "waiting", "refreshing", "gone"}]
    /\ sub \in [Generations -> Sessions]
    /\ ui \in {"idle", "watching", "accepting", "accepted"}
    /\ queue \subseteq CallbackSet
    /\ shown \in RowSets

\* Rows of a table come from its own session.
OfSession(r, s) == r # Cleared => r.session = s

\* A table's rows, and what its refresh read, are of its session; a refresh that runs,
\* and the tables that are watched, are of the present session or an earlier one.
TablesOK ==
    /\ \A s \in Sessions :
          /\ OfSession(rows[s], s) /\ OfSession(update[s].got, s)
          /\ update[s].step = "rendered" => update[s].header \in Namespaces
          /\ update[s] # Idle => s <= page.session
    /\ \A g \in Generations : sub[g] <= page.session

\* So are the callbacks on their way and what is on the screen.
ScreenOK ==
    /\ \A c \in queue : c.of <= page.session /\ OfSession(c.rows, c.of)
    /\ shown.session <= page.session

TableInv == TableTypeOK /\ TablesOK /\ ScreenOK

---------------------------------------------------------------------------
(* The values of a refresh.                                                *)

\* A refresh that is over, and one that begins, have read nothing.
LEMMA BegunFields ==
    /\ Idle \in Updates /\ Idle.got = Cleared /\ Idle.step = "idle"
    /\ \A by \in 0..MaxGenerations :
          Begun(by) \in Updates /\ Begun(by).got = Cleared /\ Begun(by).step = "begun"
  <1>1. Idle \in Updates /\ Idle.got = Cleared /\ Idle.step = "idle"
    BY TableAssumption DEF Idle, Updates, RowSets, Steps
  <1>2. ASSUME NEW by \in 0..MaxGenerations
        PROVE  Begun(by) \in Updates /\ Begun(by).got = Cleared /\ Begun(by).step = "begun"
    BY <1>1 DEF Begun, Idle, Updates, Steps
  <1> QED BY <1>1, <1>2

\* A refresh at a step, with what it read, the namespace of the header or the listeners.
WithGot(u, x, r) == [u EXCEPT !.step = x, !.got = r]
WithHeader(u, x, n) == [u EXCEPT !.step = x, !.header = n]
WithTo(u, x, l) == [u EXCEPT !.step = x, !.to = l]

\* A refresh has read rows.
LEMMA GotField ==
    ASSUME NEW u \in Updates, NEW r \in RowSets, NEW x \in Steps
    PROVE  /\ WithGot(u, x, r) \in Updates
           /\ WithGot(u, x, r).got = r
           /\ WithGot(u, x, r).step = x
  BY Zenon DEF Updates, WithGot

\* A refresh has read the namespace of the header.
LEMMA HeaderField ==
    ASSUME NEW u \in Updates, NEW n \in Namespaces, NEW x \in Steps
    PROVE  /\ WithHeader(u, x, n) \in Updates
           /\ WithHeader(u, x, n).got = u.got
           /\ WithHeader(u, x, n).step = x
           /\ WithHeader(u, x, n).header = n
  BY Zenon DEF Updates, WithHeader

\* A refresh goes on to its next step.
LEMMA StepField ==
    ASSUME NEW u \in Updates, NEW x \in Steps
    PROVE  /\ [u EXCEPT !.step = x] \in Updates
           /\ [u EXCEPT !.step = x].got = u.got
           /\ [u EXCEPT !.step = x].step = x
  BY Zenon DEF Updates

\* A refresh has copied the listeners.
LEMMA ToField ==
    ASSUME NEW u \in Updates, NEW l \in SUBSET Generations, NEW x \in Steps
    PROVE  /\ WithTo(u, x, l) \in Updates
           /\ WithTo(u, x, l).got = u.got
           /\ WithTo(u, x, l).step = x
  BY Zenon DEF Updates, WithTo

\* Sessions and generations are numbers.
LEMMA Numbers ==
    /\ \A s \in Sessions : s \in Nat /\ s # 0
    /\ \A g \in Generations : g \in Nat /\ g # 0 /\ g \in 0..MaxGenerations
    /\ Cleared.session = 0
  BY TableAssumption DEF Sessions, Generations, Cleared

\* What can be read of a table that has rows is of its session.
LEMMA RowsOfSession ==
    ASSUME NEW r \in RowSets, NEW s \in Sessions, OfSession(r, s)
    PROVE  r.session <= s /\ (r = Cleared \/ r.session = s)
  BY Numbers DEF OfSession

---------------------------------------------------------------------------
(* Table.refresh.                                                          *)

\* A refresh of the present session or an earlier one takes a step.
LEMMA UpdateStep ==
    ASSUME TableInv, NEW s \in Sessions, NEW u \in Updates,
           s <= page.session, OfSession(u.got, s),
           u.step = "rendered" => u.header \in Namespaces,
           update' = [update EXCEPT ![s] = u],
           UNCHANGED <<page, choices, sel, listeners, sub, shown>>,
           failures' \in 0..MaxFailures,
           ns' \in [Sessions -> Namespaces], rows' \in [Sessions -> RowSets],
           \A t \in Sessions : OfSession(rows'[t], t),
           updater' \in [Generations -> {"none", "waiting", "refreshing", "gone"}],
           ui' \in {"idle", "watching", "accepting", "accepted"},
           queue' \subseteq CallbackSet,
           \A c \in queue' : c.of <= page.session /\ OfSession(c.rows, c.of)
    PROVE  TableInv'
  <1>1. /\ update' \in [Sessions -> Updates] /\ update'[s] = u
        /\ \A t \in Sessions \ {s} : update'[t] = update[t]
    BY DEF TableInv, TableTypeOK
  <1>2. TableTypeOK'
    BY <1>1 DEF TableInv, TableTypeOK
  <1>3. TablesOK'
    <2>1. ASSUME NEW t \in Sessions
          PROVE  /\ OfSession(rows'[t], t) /\ OfSession(update'[t].got, t)
                 /\ update'[t].step = "rendered" => update'[t].header \in Namespaces
                 /\ update'[t] # Idle => t <= page.session
      BY <1>1 DEF TableInv, TablesOK
    <2> QED BY <2>1 DEF TableInv, TablesOK, OfSession
  <1>4. ScreenOK'
    BY DEF TableInv, ScreenOK, OfSession
  <1> QED BY <1>2, <1>3, <1>4 DEF TableInv

\* An updater begins a refresh.
LEMMA TickStep ==
    ASSUME TableInv, NEW g \in Generations, Tick(g)
    PROVE  TableInv'
  <1> USE DEF Tick, pageVars, dataVars
  <1> DEFINE s == sub[g]
  <1>1. s \in Sessions /\ s <= page.session
    BY DEF TableInv, TableTypeOK, TablesOK
  <1>2. Begun(g) \in Updates /\ OfSession(Begun(g).got, s) /\ Begun(g).step # "rendered"
    BY <1>1, BegunFields, Numbers DEF OfSession, TableInv, TableTypeOK
  <1>3. /\ failures' \in 0..MaxFailures
        /\ ns' \in [Sessions -> Namespaces] /\ rows' \in [Sessions -> RowSets]
        /\ \A t \in Sessions : OfSession(rows'[t], t)
        /\ ui' \in {"idle", "watching", "accepting", "accepted"}
        /\ queue' \subseteq CallbackSet
        /\ \A c \in queue' : c.of <= page.session /\ OfSession(c.rows, c.of)
    BY DEF TableInv, TableTypeOK, TablesOK, ScreenOK
  <1>4. updater' \in [Generations -> {"none", "waiting", "refreshing", "gone"}]
    BY DEF TableInv, TableTypeOK
  <1>5. update' = [update EXCEPT ![s] = Begun(g)]
        /\ UNCHANGED <<page, choices, sel, listeners, sub, shown>>
    OBVIOUS
  <1> HIDE DEF s
  <1> QED BY <1>1, <1>2, <1>3, <1>4, <1>5, UpdateStep

\* A step of a refresh that runs, without its end.
LEMMA RefreshingStep ==
    ASSUME TableInv, NEW s \in Sessions,
           List(s) \/ Render(s) \/ SetHeader(s) \/ Peek(s) \/ CopyListeners(s)
    PROVE  TableInv'
  <1> USE DEF pageVars, dataVars
  <1>1. /\ update[s] \in Updates /\ rows[s] \in RowSets /\ ns[s] \in Namespaces
        /\ sel[s] \in Selectors /\ listeners[s] \in SUBSET Generations
        /\ update[s].got \in RowSets
        /\ OfSession(update[s].got, s) /\ OfSession(rows[s], s)
    BY DEF TableInv, TableTypeOK, TablesOK, Updates
  <1>2. s <= page.session
    <2>1. update[s].step # "idle"
      BY DEF List, Render, SetHeader, Peek, CopyListeners
    <2>2. update[s] # Idle
      BY <2>1 DEF Idle
    <2> QED BY <2>2 DEF TableInv, TablesOK
  <1>3. /\ failures' \in 0..MaxFailures
        /\ updater' \in [Generations -> {"none", "waiting", "refreshing", "gone"}]
        /\ ui' \in {"idle", "watching", "accepting", "accepted"}
        /\ queue' \subseteq CallbackSet
        /\ \A c \in queue' : c.of <= page.session /\ OfSession(c.rows, c.of)
        /\ UNCHANGED <<page, choices, sel, listeners, sub, shown>>
    BY DEF TableInv, TableTypeOK, ScreenOK, List, Render, SetHeader, Peek, CopyListeners
  <1>4. CASE ~Render(s) /\ ~SetHeader(s)
    <2>1. /\ ns' \in [Sessions -> Namespaces] /\ rows' \in [Sessions -> RowSets]
          /\ \A t \in Sessions : OfSession(rows'[t], t)
      BY <1>4 DEF TableInv, TableTypeOK, TablesOK, List, Peek, CopyListeners
    <2>2. CASE List(s)
      <3> DEFINE r == [session |-> s, ns |-> ns[s], sel |-> sel[s]]
                 u == WithGot(update[s], "listed", r)
      <3>1. r \in RowSets /\ OfSession(r, s) /\ "listed" \in Steps
        BY <1>1 DEF RowSets, OfSession, Steps
      <3>2. update' = [update EXCEPT ![s] = u]
        BY <2>2 DEF List, WithGot
      <3> HIDE DEF r
      <3>3. u \in Updates /\ u.got = r /\ u.step = "listed"
        <4>1. update[s] \in Updates
          BY <1>1
        <4> QED BY <3>1, <4>1, GotField
      <3> HIDE DEF u
      <3> QED BY <1>2, <1>3, <2>1, <3>1, <3>2, <3>3, UpdateStep
    <2>3. CASE Peek(s)
      <3> DEFINE u == WithGot(update[s], "peeked", rows[s])
      <3>1. "peeked" \in Steps
        BY DEF Steps
      <3>2. update' = [update EXCEPT ![s] = u]
        BY <2>3 DEF Peek, WithGot
      <3>3. u \in Updates /\ u.got = rows[s] /\ u.step = "peeked"
        <4>1. update[s] \in Updates /\ rows[s] \in RowSets
          BY <1>1
        <4> QED BY <3>1, <4>1, GotField
      <3> HIDE DEF u
      <3> QED BY <1>1, <1>2, <1>3, <2>1, <3>2, <3>3, UpdateStep
    <2>4. CASE CopyListeners(s)
      <3> DEFINE u == WithTo(update[s], "telling", listeners[s])
      <3>1. "telling" \in Steps
        BY DEF Steps
      <3>2. update' = [update EXCEPT ![s] = u]
        BY <2>4 DEF CopyListeners, WithTo
      <3>3. u \in Updates /\ u.got = update[s].got /\ u.step = "telling"
        <4>1. update[s] \in Updates /\ listeners[s] \in SUBSET Generations
          BY <1>1
        <4> QED BY <3>1, <4>1, ToField
      <3> HIDE DEF u
      <3> QED BY <1>1, <1>2, <1>3, <2>1, <3>2, <3>3, UpdateStep
    <2> QED BY <1>4, <2>2, <2>3, <2>4
  <1>5. CASE Render(s)
    <2> DEFINE u == WithHeader(update[s], "rendered", ns[s])
    <2>1. "rendered" \in Steps
      BY DEF Steps
    <2>2. update' = [update EXCEPT ![s] = u] /\ rows' = [rows EXCEPT ![s] = update[s].got]
          /\ ns' = ns
      BY <1>5 DEF Render, WithHeader
    <2>3. u \in Updates /\ u.got = update[s].got /\ u.step = "rendered" /\ u.header = ns[s]
      <3>1. update[s] \in Updates /\ ns[s] \in Namespaces
        BY <1>1
      <3> QED BY <2>1, <3>1, HeaderField
    <2>4. /\ ns' \in [Sessions -> Namespaces] /\ rows' \in [Sessions -> RowSets]
          /\ \A t \in Sessions : OfSession(rows'[t], t)
      BY <1>1, <2>2 DEF TableInv, TableTypeOK, TablesOK
    <2> HIDE DEF u
    <2> QED BY <1>1, <1>2, <1>3, <2>2, <2>3, <2>4, UpdateStep
  <1>6. CASE SetHeader(s)
    <2> DEFINE u == [update[s] EXCEPT !.step = "titled"]
    <2>1. "titled" \in Steps
      BY DEF Steps
    <2>2. /\ update' = [update EXCEPT ![s] = u] /\ ns' = [ns EXCEPT ![s] = update[s].header]
          /\ rows' = rows /\ update[s].step = "rendered"
      BY <1>6 DEF SetHeader
    <2>3. u \in Updates /\ u.got = update[s].got /\ u.step = "titled"
      BY <1>1, <2>1, StepField
    <2>4. /\ ns' \in [Sessions -> Namespaces] /\ rows' \in [Sessions -> RowSets]
          /\ \A t \in Sessions : OfSession(rows'[t], t)
      BY <1>1, <2>2 DEF TableInv, TableTypeOK, TablesOK
    <2> HIDE DEF u
    <2> QED BY <1>1, <1>2, <1>3, <2>2, <2>3, <2>4, UpdateStep
  <1> QED BY <1>4, <1>5, <1>6

\* A refresh ends: the listeners are told, or the list failed.
LEMMA EndStep ==
    ASSUME TableInv, NEW s \in Sessions, Tell(s) \/ ListFails(s)
    PROVE  TableInv'
  <1> USE DEF pageVars, dataVars
  <1>1. update[s] \in Updates /\ update[s].got \in RowSets /\ OfSession(update[s].got, s)
        /\ update[s].to \in SUBSET Generations
    BY DEF TableInv, TableTypeOK, TablesOK, Updates
  <1>2. s <= page.session
    <2>1. update[s].step # "idle"
      BY DEF Tell, ListFails
    <2>2. update[s] # Idle
      BY <2>1 DEF Idle
    <2> QED BY <2>2 DEF TableInv, TablesOK
  <1>3. PICK then \in {"waiting", "gone"} : Release(s, then)
    BY DEF Tell, ListFails
  <1>4. /\ update' = [update EXCEPT ![s] = Idle]
        /\ updater' \in [Generations -> {"none", "waiting", "refreshing", "gone"}]
        /\ ui' \in {"idle", "watching", "accepting", "accepted"}
    BY <1>3 DEF Release, TableInv, TableTypeOK
  <1>5. Idle \in Updates /\ OfSession(Idle.got, s) /\ Idle.step # "rendered"
    BY <1>1, BegunFields DEF OfSession
  <1>6. /\ failures' \in 0..MaxFailures
        /\ UNCHANGED <<page, choices, ns, sel, rows, listeners, sub, shown>>
        /\ queue' \subseteq queue \union Callbacks(s)
    BY TableAssumption DEF TableInv, TableTypeOK, Tell, ListFails
  <1>7. ASSUME NEW c \in Callbacks(s)
        PROVE  c \in CallbackSet /\ c.of = s /\ c.rows = update[s].got
    BY <1>1, Numbers DEF Callbacks, CallbackSet
  <1>8. queue' \subseteq CallbackSet
    BY <1>6, <1>7 DEF TableInv, TableTypeOK
  <1>9. ASSUME NEW c \in queue' PROVE c.of <= page.session /\ OfSession(c.rows, c.of)
    BY <1>1, <1>2, <1>6, <1>7 DEF TableInv, ScreenOK
  <1>10. /\ ns' \in [Sessions -> Namespaces] /\ rows' \in [Sessions -> RowSets]
         /\ \A t \in Sessions : OfSession(rows'[t], t)
    BY <1>6 DEF TableInv, TableTypeOK, TablesOK
  <1> QED BY <1>2, <1>4, <1>5, <1>6, <1>8, <1>9, <1>10, UpdateStep

---------------------------------------------------------------------------
(* The UI thread.                                                          *)

\* The page starts with a table that is at least as new as the one it had.
LEMMA SubscribeStep ==
    ASSUME TableInv, NEW s \in Sessions, page.session <= s, Subscribe(s),
           choices' \in 0..MaxChoices, failures' = failures,
           ns' \in [Sessions -> Namespaces], sel' \in [Sessions -> Selectors],
           rows' \in [Sessions -> RowSets], \A t \in Sessions : OfSession(rows'[t], t),
           queue' \subseteq CallbackSet, shown' = shown,
           \A c \in queue' : c.of <= page.session /\ OfSession(c.rows, c.of)
    PROVE  TableInv'
  <1> DEFINE g == page.generation + 1
  <1>1. /\ g \in Generations /\ s \in Nat /\ page.session \in Sessions
        /\ page.session \in Nat /\ g \in 0..MaxGenerations
    BY Numbers DEF Subscribe, TableInv, TableTypeOK
  <1>2. /\ page' = [started |-> TRUE, generation |-> g, session |-> s]
        /\ listeners' = [listeners EXCEPT ![Table] = {}, ![s] = {g}]
        /\ sub' = [sub EXCEPT ![g] = s]
        /\ \/ /\ update' = [update EXCEPT ![s] = Begun(0)]
              /\ ui' = "watching" /\ UNCHANGED updater
           \/ /\ updater' = [updater EXCEPT ![g] = "waiting"]
              /\ ui' = "idle" /\ UNCHANGED update
    BY DEF Subscribe
  <1> HIDE DEF g
  <1>3. /\ page' \in [started : BOOLEAN, generation : 0..MaxGenerations, session : Sessions]
        /\ page'.session = s
    BY <1>1, <1>2
  <1>4. /\ sub' \in [Generations -> Sessions]
        /\ \A h \in Generations : sub'[h] = s \/ sub'[h] = sub[h]
    BY <1>1, <1>2 DEF TableInv, TableTypeOK
  <1>5. 0 \in 0..MaxGenerations
    BY TableAssumption
  <1>20. Begun(0) \in Updates /\ Begun(0).got = Cleared /\ Begun(0).step = "begun"
    BY <1>5, BegunFields
  <1>6. /\ update' \in [Sessions -> Updates]
        /\ \A t \in Sessions : update'[t] = update[t] \/ (t = s /\ update'[t] = Begun(0))
    BY <1>2, <1>20 DEF TableInv, TableTypeOK
  <1>7. listeners' \in [Sessions -> SUBSET Generations]
    BY <1>1, <1>2 DEF TableInv, TableTypeOK
  <1>8. /\ updater' \in [Generations -> {"none", "waiting", "refreshing", "gone"}]
        /\ ui' \in {"idle", "watching", "accepting", "accepted"}
    BY <1>2 DEF TableInv, TableTypeOK
  <1>9. TableTypeOK'
    BY <1>3, <1>4, <1>6, <1>7, <1>8 DEF TableInv, TableTypeOK
  <1>10. TablesOK'
    <2>1. ASSUME NEW t \in Sessions
          PROVE  /\ OfSession(rows'[t], t) /\ OfSession(update'[t].got, t)
                 /\ update'[t].step = "rendered" => update'[t].header \in Namespaces
                 /\ update'[t] # Idle => t <= page'.session
      <3>1. CASE update'[t] = update[t]
        <4>1. update[t] # Idle => t <= page.session
          BY DEF TableInv, TablesOK
        <4>2. t \in Nat
          BY Numbers
        <4> QED BY <1>1, <1>3, <3>1, <4>1, <4>2 DEF TableInv, TablesOK
      <3>2. CASE t = s /\ update'[t] = Begun(0)
        BY <1>1, <1>3, <1>20, <3>2 DEF OfSession
      <3> QED BY <1>6, <3>1, <3>2
    <2>2. ASSUME NEW h \in Generations PROVE sub'[h] <= page'.session
      <3>1. sub[h] <= page.session /\ sub[h] \in Nat
        BY Numbers DEF TableInv, TablesOK, TableTypeOK
      <3> QED BY <1>1, <1>3, <1>4, <3>1
    <2> QED BY <2>1, <2>2 DEF TablesOK, OfSession
  <1>11. ScreenOK'
    <2>1. ASSUME NEW c \in queue' PROVE c.of <= page'.session /\ OfSession(c.rows, c.of)
      <3>1. c.of \in Nat
        BY Numbers DEF CallbackSet
      <3> QED BY <1>1, <1>3, <3>1
    <2>2. shown.session <= page'.session
      <3>1. shown.session \in Nat
        BY Numbers DEF TableInv, TableTypeOK, RowSets
      <3>2. shown.session <= page.session
        BY DEF TableInv, ScreenOK
      <3> QED BY <1>1, <1>3, <3>1, <3>2
    <2> QED BY <2>1, <2>2 DEF ScreenOK, OfSession
  <1> QED BY <1>9, <1>10, <1>11 DEF TableInv

\* The page starts, another namespace is chosen, or a filter starts it again.
LEMMA StartSteps ==
    ASSUME TableInv,
           \/ Start \/ RestartFiltered
           \/ \E n \in Namespaces : SwitchNamespace(n)
    PROVE  TableInv'
  <1> USE DEF pageVars, dataVars
  <1>1. /\ Table \in Sessions /\ page.session <= Table /\ Table = page.session
        /\ choices \in 0..MaxChoices /\ queue \subseteq CallbackSet
        /\ ns \in [Sessions -> Namespaces] /\ sel \in [Sessions -> Selectors]
        /\ rows \in [Sessions -> RowSets] /\ \A t \in Sessions : OfSession(rows[t], t)
        /\ \A c \in queue : c.of <= page.session /\ OfSession(c.rows, c.of)
    BY Numbers DEF TableInv, TableTypeOK, TablesOK, ScreenOK, Table
  <1>2. CASE Start
    BY <1>1, <1>2, SubscribeStep DEF Start
  <1>3. CASE RestartFiltered
    <2> DEFINE c == [from |-> 0, of |-> Table, rows |-> rows[Table]]
    <2>1. c \in CallbackSet /\ c.of <= page.session /\ OfSession(c.rows, c.of)
      BY <1>1, Numbers, TableAssumption DEF CallbackSet
    <2>2. queue' = queue \union {c}
      BY <1>3 DEF RestartFiltered, Accepted
    <2> HIDE DEF c
    <2>3. queue' \subseteq CallbackSet
          /\ \A d \in queue' : d.of <= page.session /\ OfSession(d.rows, d.of)
      BY <1>1, <2>1, <2>2
    <2>4. Subscribe(Table) /\ UNCHANGED <<choices, failures, ns, sel, rows, shown>>
      BY <1>3 DEF RestartFiltered
    <2> QED BY <1>1, <2>3, <2>4, SubscribeStep
  <1>4. ASSUME NEW n \in Namespaces, SwitchNamespace(n) PROVE TableInv'
    <2>1. /\ ns' = [ns EXCEPT ![Table] = n] /\ rows' = [rows EXCEPT ![Table] = Cleared]
          /\ choices < MaxChoices /\ choices' = choices + 1
          /\ Subscribe(Table) /\ UNCHANGED <<failures, sel, queue, shown>>
      BY <1>4 DEF SwitchNamespace
    <2>2. choices' \in 0..MaxChoices
      BY <1>1, <2>1, TableAssumption
    <2>3. Cleared \in RowSets /\ OfSession(Cleared, Table)
      BY DEF RowSets, OfSession
    <2>4. /\ ns' \in [Sessions -> Namespaces] /\ rows' \in [Sessions -> RowSets]
          /\ \A t \in Sessions : OfSession(rows'[t], t)
      BY <1>1, <2>1, <2>3
    <2> QED BY <1>1, <2>1, <2>2, <2>4, SubscribeStep
  <1> QED BY <1>2, <1>3, <1>4

\* An updater leaves, or the page stops.
LEMMA LeaveSteps ==
    ASSUME TableInv, Stop \/ \E g \in Generations : UpdaterLeaves(g)
    PROVE  TableInv'
  <1> USE DEF pageVars, dataVars
  <1>1. CASE Stop
    <2>1. /\ page' = [page EXCEPT !.started = FALSE, !.generation = @ + 1]
          /\ page.generation < MaxGenerations
          /\ listeners' = [listeners EXCEPT ![Table] = {}]
          /\ UNCHANGED <<choices, failures, ns, sel, rows, update, updater, sub, ui, queue, shown>>
      BY <1>1 DEF Stop
    <2>2. /\ page' \in [started : BOOLEAN, generation : 0..MaxGenerations, session : Sessions]
          /\ page'.session = page.session
      <3>1. page.generation + 1 \in 0..MaxGenerations
        BY <2>1, TableAssumption DEF TableInv, TableTypeOK
      <3>2. ASSUME NEW n \in 0..MaxGenerations
            PROVE  /\ [page EXCEPT !.started = FALSE, !.generation = n]
                         \in [started : BOOLEAN, generation : 0..MaxGenerations, session : Sessions]
                   /\ [page EXCEPT !.started = FALSE, !.generation = n].session = page.session
        BY Zenon DEF TableInv, TableTypeOK
      <3> QED BY <2>1, <3>1, <3>2
    <2>3. TableTypeOK'
      BY <2>1, <2>2 DEF TableInv, TableTypeOK
    <2>4. TablesOK' /\ ScreenOK'
      BY <2>1, <2>2 DEF TableInv, TablesOK, ScreenOK, OfSession
    <2> QED BY <2>3, <2>4 DEF TableInv
  <1>2. ASSUME NEW g \in Generations, UpdaterLeaves(g) PROVE TableInv'
    BY <1>2 DEF UpdaterLeaves, TableInv, TableTypeOK, TablesOK, ScreenOK, OfSession
  <1> QED BY <1>1, <1>2

\* A filter is accepted: the table refreshes, unless it does already.
LEMMA FilterStep ==
    ASSUME TableInv, NEW x \in Selectors, AcceptFilter(x)
    PROVE  TableInv'
  <1>1. /\ choices < MaxChoices /\ choices' = choices + 1
        /\ sel' = [sel EXCEPT ![Table] = x]
        /\ \/ update' = [update EXCEPT ![Table] = Begun(0)] /\ ui' = "accepting"
           \/ ui' = "accepted" /\ UNCHANGED update
        /\ UNCHANGED <<page, failures, ns, rows, listeners, updater, sub, queue, shown>>
    BY DEF AcceptFilter
  <1>2. /\ Table \in Sessions /\ Table = page.session /\ Table \in Nat
        /\ 0 \in 0..MaxGenerations /\ choices' \in 0..MaxChoices
    BY <1>1, Numbers, TableAssumption DEF TableInv, TableTypeOK, Table
  <1>20. Begun(0) \in Updates /\ Begun(0).got = Cleared /\ Begun(0).step = "begun"
    BY <1>2, BegunFields
  <1>3. /\ update' \in [Sessions -> Updates]
        /\ \A t \in Sessions : update'[t] = update[t] \/ (t = Table /\ update'[t] = Begun(0))
    BY <1>1, <1>2, <1>20 DEF TableInv, TableTypeOK
  <1>4. sel' \in [Sessions -> Selectors] /\ ui' \in {"idle", "watching", "accepting", "accepted"}
    BY <1>1 DEF TableInv, TableTypeOK
  <1>5. TableTypeOK'
    BY <1>1, <1>2, <1>3, <1>4 DEF TableInv, TableTypeOK
  <1>6. TablesOK'
    <2>1. ASSUME NEW t \in Sessions
          PROVE  /\ OfSession(rows[t], t) /\ OfSession(update'[t].got, t)
                 /\ update'[t].step = "rendered" => update'[t].header \in Namespaces
                 /\ update'[t] # Idle => t <= page.session
      <3>1. CASE update'[t] = update[t]
        BY <3>1 DEF TableInv, TablesOK
      <3>2. CASE t = Table /\ update'[t] = Begun(0)
        <4>1. OfSession(rows[t], t)
          BY DEF TableInv, TablesOK
        <4> QED BY <1>2, <1>20, <3>2, <4>1 DEF OfSession
      <3> QED BY <1>3, <3>1, <3>2
    <2> QED BY <1>1, <2>1 DEF TableInv, TablesOK, OfSession
  <1>7. ScreenOK'
    BY <1>1 DEF TableInv, ScreenOK, OfSession
  <1> QED BY <1>5, <1>6, <1>7 DEF TableInv

\* The page draws what its table holds, or what a callback brings.
LEMMA DrawStep ==
    ASSUME TableInv, RedrawUnfiltered \/ \E c \in queue : Draw(c)
    PROVE  TableInv'
  <1> USE DEF pageVars, dataVars
  <1>1. /\ Table \in Sessions /\ Table = page.session /\ rows[Table] \in RowSets
        /\ OfSession(rows[Table], Table)
    BY DEF TableInv, TableTypeOK, TablesOK, Table
  <1>2. UNCHANGED <<page, choices, failures, ns, sel, rows, listeners, update, updater, sub>>
    BY DEF RedrawUnfiltered, Draw
  <1>3. ui' \in {"idle", "watching", "accepting", "accepted"}
    BY DEF RedrawUnfiltered, Draw, TableInv, TableTypeOK
  <1>4. /\ queue' \subseteq CallbackSet
        /\ \A c \in queue' : c.of <= page.session /\ OfSession(c.rows, c.of)
    <2>1. CASE RedrawUnfiltered
      <3> DEFINE c == [from |-> 0, of |-> Table, rows |-> rows[Table]]
      <3>1. c \in CallbackSet /\ c.of <= page.session /\ OfSession(c.rows, c.of)
        BY <1>1, Numbers, TableAssumption DEF CallbackSet
      <3>2. queue' = queue \union {c}
        BY <2>1 DEF RedrawUnfiltered, Accepted
      <3> HIDE DEF c
      <3> QED BY <3>1, <3>2 DEF TableInv, TableTypeOK, ScreenOK
    <2>2. CASE \E c \in queue : Draw(c)
      BY <2>2 DEF Draw, TableInv, TableTypeOK, ScreenOK
    <2> QED BY <2>1, <2>2
  <1>5. shown' \in RowSets /\ shown'.session <= page.session
    <2>1. CASE RedrawUnfiltered
      <3>1. shown' = shown \/ shown' = rows[Table]
        BY <2>1 DEF RedrawUnfiltered
      <3> QED BY <1>1, <3>1, RowsOfSession DEF TableInv, TableTypeOK, ScreenOK
    <2>2. ASSUME NEW c \in queue, Draw(c) PROVE shown' \in RowSets /\ shown'.session <= page.session
      <3>1. shown' = shown \/ shown' = c.rows
        BY <2>2 DEF Draw
      <3>2. c.rows \in RowSets /\ c.of \in Sessions /\ OfSession(c.rows, c.of)
            /\ c.of <= page.session
        BY DEF TableInv, TableTypeOK, ScreenOK, CallbackSet
      <3>3. c.rows.session <= c.of /\ c.rows.session \in Nat /\ c.of \in Nat
            /\ page.session \in Nat
        BY <1>1, <3>2, RowsOfSession, Numbers DEF RowSets
      <3> QED BY <3>1, <3>2, <3>3 DEF TableInv, TableTypeOK, ScreenOK
    <2> QED BY <2>1, <2>2
  <1>6. TableTypeOK'
    BY <1>2, <1>3, <1>4, <1>5 DEF TableInv, TableTypeOK
  <1>7. TablesOK'
    BY <1>2 DEF TableInv, TablesOK, OfSession
  <1>8. ScreenOK'
    BY <1>2, <1>4, <1>5 DEF ScreenOK, OfSession
  <1> QED BY <1>6, <1>7, <1>8 DEF TableInv

\* The page is given a fresh table that asks the same.
LEMMA RebindStep ==
    ASSUME TableInv, Rebind
    PROVE  TableInv'
  <1> USE DEF pageVars, dataVars
  <1>1. PICK s \in Sessions : s = page.session + 1
    BY TableAssumption DEF Rebind, TableInv, TableTypeOK, Sessions
  <1>2. page.session \in Sessions /\ page.session \in Nat /\ page.session <= s /\ Table = page.session
    <2>1. page.session \in Sessions /\ Table = page.session
      BY DEF TableInv, TableTypeOK, Table
    <2>2. page.session \in Nat
      BY <2>1, Numbers
    <2> QED BY <1>1, <2>1, <2>2
  <1>3. /\ ns' \in [Sessions -> Namespaces] /\ sel' \in [Sessions -> Selectors]
        /\ rows' \in [Sessions -> RowSets] /\ \A t \in Sessions : OfSession(rows'[t], t)
        /\ queue' \subseteq CallbackSet /\ shown' = shown
        /\ \A c \in queue' : c.of <= page.session /\ OfSession(c.rows, c.of)
        /\ choices' \in 0..MaxChoices /\ failures' = failures
    BY <1>2 DEF Rebind, TableInv, TableTypeOK, TablesOK, ScreenOK
  <1>4. CASE Subscribe(s)
    BY <1>2, <1>3, <1>4, SubscribeStep
  <1>5. CASE /\ page' = [page EXCEPT !.session = s]
             /\ UNCHANGED <<listeners, update, updater, sub, ui>>
    <2>1. /\ page' \in [started : BOOLEAN, generation : 0..MaxGenerations, session : Sessions]
          /\ page'.session = s
      BY <1>5 DEF TableInv, TableTypeOK
    <2>2. TableTypeOK'
      BY <1>3, <1>5, <2>1 DEF TableInv, TableTypeOK
    <2>3. TablesOK'
      <3>1. ASSUME NEW t \in Sessions
            PROVE  update[t] # Idle => t <= s
        BY <1>1, <1>2, Numbers DEF TableInv, TablesOK
      <3>2. ASSUME NEW g \in Generations PROVE sub[g] <= s
        <4>1. sub[g] \in Nat /\ sub[g] <= page.session
          BY Numbers DEF TableInv, TableTypeOK, TablesOK
        <4> QED BY <1>1, <1>2, <4>1
      <3> QED BY <1>3, <1>5, <2>1, <3>1, <3>2 DEF TableInv, TablesOK, OfSession
    <2>4. ScreenOK'
      <3>1. ASSUME NEW c \in queue' PROVE c.of <= s /\ OfSession(c.rows, c.of)
        <4>1. c.of \in Nat /\ c.of <= page.session
          BY <1>3, Numbers DEF CallbackSet
        <4> QED BY <1>1, <1>2, <1>3, <4>1
      <3>2. shown.session <= s
        <4>1. shown.session \in Nat /\ shown.session <= page.session
          BY Numbers DEF TableInv, TableTypeOK, RowSets, ScreenOK
        <4> QED BY <1>1, <1>2, <4>1
      <3> QED BY <1>3, <2>1, <3>1, <3>2 DEF ScreenOK, OfSession
    <2> QED BY <2>2, <2>3, <2>4 DEF TableInv
  <1> QED BY <1>1, <1>4, <1>5 DEF Rebind

---------------------------------------------------------------------------
(* The theorems.                                                           *)

\* The invariant holds before the page was started.
LEMMA TableStart == TableInit => TableInv
  <1> SUFFICES ASSUME TableInit PROVE TableInv
    OBVIOUS
  <1> USE DEF TableInit
  <1>1. (CHOOSE n \in Namespaces : TRUE) \in Namespaces
    BY TableAssumption
  <1>2. Idle \in Updates
    BY TableAssumption DEF Idle, Updates, RowSets, Steps
  <1>3. 1 \in Sessions /\ Cleared \in RowSets /\ 0 \in 0..MaxGenerations
        /\ 0 \in 0..MaxChoices /\ 0 \in 0..MaxFailures
    BY TableAssumption DEF Sessions, RowSets
  <1>4. /\ page \in [started : BOOLEAN, generation : 0..MaxGenerations, session : Sessions]
        /\ page.session = 1
    BY <1>3
  <1>5. /\ ns \in [Sessions -> Namespaces] /\ sel \in [Sessions -> Selectors]
        /\ rows \in [Sessions -> RowSets] /\ update \in [Sessions -> Updates]
        /\ listeners \in [Sessions -> SUBSET Generations]
        /\ updater \in [Generations -> {"none", "waiting", "refreshing", "gone"}]
        /\ sub \in [Generations -> Sessions]
    BY <1>1, <1>2, <1>3, TableAssumption
  <1>6. choices \in 0..MaxChoices /\ failures \in 0..MaxFailures /\ queue \subseteq CallbackSet
        /\ ui \in {"idle", "watching", "accepting", "accepted"} /\ shown \in RowSets
    BY <1>3
  <1>7. TablesOK
    BY <1>4 DEF TablesOK, OfSession, Idle
  <1>8. ScreenOK
    BY <1>4 DEF ScreenOK, Cleared
  <1> HIDE DEF TableInit
  <1> QED BY <1>4, <1>5, <1>6, <1>7, <1>8 DEF TableInv, TableTypeOK

\* Every step keeps the invariant.
LEMMA TableStep == TableInv /\ [TableNext]_tableVars => TableInv'
  <1> SUFFICES ASSUME TableInv, [TableNext]_tableVars PROVE TableInv'
    OBVIOUS
  <1>1. CASE UNCHANGED tableVars
    BY <1>1 DEF tableVars, pageVars, TableInv, TableTypeOK, TablesOK, ScreenOK, OfSession
  <1>2. CASE \E g \in Generations : Tick(g) \/ UpdaterLeaves(g)
    BY <1>2, TickStep, LeaveSteps
  <1>3. CASE \E s \in Sessions : Refreshing(s) \/ ListFails(s)
    BY <1>3, RefreshingStep, EndStep DEF Refreshing
  <1>4. CASE \E x \in Selectors : AcceptFilter(x)
    BY <1>4, FilterStep
  <1>5. CASE Start \/ Stop \/ RestartFiltered \/ (\E n \in Namespaces : SwitchNamespace(n))
    BY <1>5, StartSteps, LeaveSteps
  <1>6. CASE RedrawUnfiltered \/ Rebind \/ (\E c \in queue : Draw(c))
    BY <1>6, DrawStep, RebindStep
  <1> QED BY <1>1, <1>2, <1>3, <1>4, <1>5, <1>6 DEF TableNext

\* The strengthened invariant holds for every value of the constants.
THEOREM TableInvariant == TableSpec => []TableInv
  BY TableStart, TableStep, PTL DEF TableSpec

\* Every variable of the page and its tables keeps its type.
THEOREM TableTypeCorrect == TableSpec => []TableTypeOK
  <1>1. TableInv => TableTypeOK
    BY DEF TableInv
  <1> QED BY <1>1, TableInvariant, PTL

\* Only the callback of an accepted filter brings rows of an earlier session back.
LEMMA RowsComeForward ==
    ASSUME TableInv, TableNext, shown'.session < shown.session
    PROVE  shown' = Cleared \/ \E c \in queue \ queue' : c.from = 0
  <1> USE DEF pageVars, dataVars
  <1>1. /\ Table \in Sessions /\ Table = page.session /\ rows[Table] \in RowSets
        /\ OfSession(rows[Table], Table) /\ Table \in Nat
        /\ shown.session <= page.session /\ shown.session \in Nat
    BY Numbers DEF TableInv, TableTypeOK, TablesOK, Table, ScreenOK, RowSets
  <1>2. shown' # shown
    BY <1>1
  <1>3. CASE RedrawUnfiltered
    <2>1. shown' = rows[Table]
      BY <1>2, <1>3 DEF RedrawUnfiltered
    <2> QED BY <1>1, <2>1 DEF OfSession
  <1>4. ASSUME NEW c \in queue, Draw(c)
        PROVE  shown' = Cleared \/ \E d \in queue \ queue' : d.from = 0
    <2>1. /\ c.rows \in RowSets /\ c.of \in Sessions /\ OfSession(c.rows, c.of)
      BY DEF TableInv, TableTypeOK, ScreenOK, CallbackSet
    <2>2. shown' = c.rows /\ Current(c) /\ c \in queue \ queue'
      BY <1>2, <1>4 DEF Draw
    <2>3. CASE c.from = 0
      BY <2>2, <2>3
    <2>4. CASE c.of = page.session
      BY <1>1, <2>1, <2>2, <2>4 DEF OfSession
    <2> QED BY <2>2, <2>3, <2>4 DEF Current
  <1>5. CASE UNCHANGED shown
    BY <1>2, <1>5
  <1> QED BY <1>3, <1>4, <1>5 DEF TableNext, Tick, UpdaterLeaves, Refreshing, List, Render,
        SetHeader, Peek, CopyListeners, Tell, ListFails, Start, Stop, SwitchNamespace,
        AcceptFilter, RestartFiltered, Rebind

\* Once rows of a reconnected session were on the screen, no refresh of a table brings
\* those of an earlier session back.
THEOREM OldSessionStaysAwayHolds == TableSpec => OldSessionStaysAway
  <1>1. TableInv /\ [TableNext]_tableVars =>
            [shown'.session < shown.session =>
                shown' = Cleared \/ \E c \in queue \ queue' : c.from = 0]_tableVars
    BY RowsComeForward
  <1> QED BY <1>1, TableInvariant, PTL DEF TableSpec, OldSessionStaysAway
=============================================================================
