---------------------------- MODULE OwnedForward ----------------------------
(***************************************************************************)
(* Port forwards owned by this process (internal/view/local_session_       *)
(* forward.go and local_session_capture.go) on top of the session registry *)
(* and of the forward map of internal/watch/factory.go.                    *)
(*                                                                         *)
(* Every launch is for the same Pod and port mapping, so the factory's map *)
(* holds one entry. A launch has a worker goroutine (run), a readiness     *)
(* observer, a callback queued to the UI thread, a lifetime context and a  *)
(* setup context with a deadline. The UI thread does one thing at a time:  *)
(* it navigates, stops sessions and runs queued callbacks.                 *)
(*                                                                         *)
(* Left out: a destination that changes under the launch (the worker tests *)
(* it where it tests the page), the Active flag and the endpoint checks of *)
(* internal/dao, which make the setup succeed or fail.                     *)
(***************************************************************************)
EXTENDS SessionRegistry

CONSTANT
    MaxEnding     \* bound of the model: launches of an app that ends

ASSUME ForwardAssumption == MaxEnding \in Nat

VARIABLES
    running,      \* App.IsRunning
    top,          \* the page on top: "home", which launches, or "other"
    left,         \* launches whose page was left before they were ready
    run,          \* program counter of ownedForward.run
    callback,     \* the queued registration: none, queued, approved, sent
    reply,        \* content of the channel registered
    exiting,      \* the session context, parent of every lifetime, ended
    cancelled,    \* launches whose own lifetime context was cancelled
    expired,      \* launches whose setup context ended on its own
    stopChan,     \* forwarders whose Stop was called
    bound,        \* forwarders whose local listener is bound (Ready)
    observer,     \* program counter of observeReady
    mapping,      \* Factory.forwarders: the launch registered, 0 if none
    uiCancelling  \* handles the UI thread is inside Cancel for

forwardVars == <<running, top, left, run, callback, reply, exiting,
                 cancelled, expired, stopChan, bound, observer, mapping,
                 uiCancelling>>

allVars == <<vars, forwardVars>>

uiVars == <<running, top, left, uiCancelling>>
workerVars == <<run, reply, callback, observer>>
contextVars == <<exiting, cancelled, expired, stopChan>>

\* A setup context ends with its deadline or with the lifetime it derives from.
LifetimeOver(f) == exiting \/ f \in cancelled

SetupOver(f) == f \in expired \/ LifetimeOver(f)

\* launch.ready, set by the observer before it reports.
Ready(f) == observer[f] \in {"ready", "reported"}

ForwardInit ==
    /\ Init
    /\ running = TRUE
    /\ top = "home"
    /\ left = {}
    /\ run = [f \in Ids |-> "none"]
    /\ callback = [f \in Ids |-> "none"]
    /\ reply = [f \in Ids |-> "none"]
    /\ exiting = FALSE
    /\ cancelled = {}
    /\ expired = {}
    /\ stopChan = {}
    /\ bound = {}
    /\ observer = [f \in Ids |-> "none"]
    /\ mapping = 0
    /\ uiCancelling = {}

-----------------------------------------------------------------------------
(* The UI thread.                                                          *)

\* It is inside a callback between the callback's checks and its effect, and
\* inside Cancel until the cleanup callback it runs there returned.
UIIdle ==
    /\ running
    /\ \A f \in Ids : callback[f] # "approved"
    /\ \A f \in uiCancelling : once[f] = "used" /\ f \notin cancelling

\* forwardDestination.start: only from the page that asked, and not while the
\* mapping is registered.
Launch ==
    /\ UIIdle
    /\ top = "home"
    /\ mapping = 0
    /\ exiting => sequence < MaxEnding
    /\ Add
    /\ run' = [run EXCEPT ![sequence + 1] = "setup"]
    /\ UNCHANGED <<uiVars, callback, reply, contextVars, bound, observer,
                   mapping>>

\* Launches that are not ready belong to the page that launched them. An ended
\* one leaves the book a little later; cancelling it meanwhile has no effect.
Pending == { f \in Active : ~ Ready(f) }

\* Mutated: leaving a page cancels nothing.
LeavePageOnly ==
    /\ UIIdle
    /\ top = "home"
    /\ top' = "other"
    /\ left' = left \union { f \in Launched : ~ Ready(f) }
    /\ UNCHANGED <<vars, running, workerVars, contextVars, bound, mapping,
                   uiCancelling>>

\* localLaunchBook.StackPushed and StackPopped: the pending launches of the
\* page that is left are cancelled on the UI thread.
LeavePage ==
    /\ UIIdle
    /\ top = "home"
    /\ top' = "other"
    /\ left' = left \union { f \in Launched : ~ Ready(f) }
    /\ cancelling' = cancelling \union Pending
    /\ uiCancelling' = Pending
    /\ UNCHANGED <<sequence, closed, retained, state, finished, once, invoked,
                   shutdownVars, running, workerVars, contextVars, bound,
                   mapping>>

ReturnToPage ==
    /\ UIIdle
    /\ top = "other"
    /\ top' = "home"
    /\ UNCHANGED <<vars, running, left, workerVars, contextVars, bound, mapping,
                   uiCancelling>>

\* localSessions.key: stop the selected session from the overview.
StopSession(f) ==
    /\ UIIdle
    /\ top = "other"
    /\ f \notin finished
    /\ RequestCancel(f)
    /\ uiCancelling' = {f}
    /\ UNCHANGED <<running, top, left, workerVars, contextVars, bound, mapping>>

\* The queued registration: its checks. The worker may stop waiting for it at
\* any time afterwards.
CallbackCheck(f) ==
    /\ UIIdle
    /\ callback[f] = "queued"
    /\ IF top = "home" /\ ~ SetupOver(f) /\ mapping = 0
         THEN /\ callback' = [callback EXCEPT ![f] = "approved"]
              /\ UNCHANGED reply
         ELSE /\ callback' = [callback EXCEPT ![f] = "sent"]
              /\ reply' = [reply EXCEPT ![f] = "refused"]
    /\ UNCHANGED <<vars, uiVars, run, contextVars, bound, observer, mapping>>

\* Factory.AddForwarder and the answer to the worker.
CallbackAdd(f) ==
    /\ callback[f] = "approved"
    /\ mapping' = f
    /\ callback' = [callback EXCEPT ![f] = "sent"]
    /\ reply' = [reply EXCEPT ![f] = "ok"]
    /\ UNCHANGED <<vars, uiVars, run, contextVars, bound, observer>>

\* App.Shutdown ends the session context and clears the flag when the event loop
\* has ended; sessions and factory are closed after that.
AppStop ==
    /\ sequence <= MaxEnding
    /\ UIIdle
    /\ running' = FALSE
    /\ exiting' = TRUE
    /\ UNCHANGED <<vars, top, left, workerVars, cancelled, expired, stopChan,
                   bound, mapping, uiCancelling>>

\* requestExit on a signal: the session context ends while the UI still runs.
ExitRequested ==
    /\ sequence <= MaxEnding
    /\ ~ exiting
    /\ exiting' = TRUE
    /\ UNCHANGED <<vars, uiVars, workerVars, cancelled, expired, stopChan, bound,
                   mapping>>

-----------------------------------------------------------------------------
(* The session's cleanup callback and the contexts.                        *)

\* The callback given to Add cancels the lifetime and stops the forwarder.
Cleanup(f) ==
    /\ EnterCallback(f)
    /\ cancelled' = cancelled \union {f}
    /\ stopChan' = stopChan \union {f}
    /\ UNCHANGED <<uiVars, workerVars, exiting, expired, bound, mapping>>

\* context.AfterFunc: the end of a lifetime stops the forwarder.
StopAfterLifetime(f) ==
    /\ run[f] \notin {"none", "done"}
    /\ LifetimeOver(f)
    /\ f \notin stopChan
    /\ stopChan' = stopChan \union {f}
    /\ UNCHANGED <<vars, uiVars, workerVars, exiting, cancelled, expired, bound,
                   mapping>>

SetupExpires(f) ==
    /\ run[f] \in {"setup", "register", "serving"}
    /\ ~ SetupOver(f)
    /\ expired' = expired \union {f}
    /\ UNCHANGED <<vars, uiVars, workerVars, exiting, cancelled, stopChan,
                   bound, mapping>>

-----------------------------------------------------------------------------
(* The worker: ownedForward.run.                                           *)

\* StartCaptured gave a stream: queue the registration unless the app stopped.
SetupSucceeds(f) ==
    /\ run[f] = "setup"
    /\ ~ SetupOver(f)
    /\ run' = [run EXCEPT ![f] = "register"]
    /\ callback' = [callback EXCEPT ![f] = IF running THEN "queued" ELSE "none"]
    /\ UNCHANGED <<vars, uiVars, reply, contextVars, bound, observer, mapping>>

\* finishSetup tells a cancelled launch from a failed one.
FinishSetup(f) ==
    /\ Finish(f, IF LifetimeOver(f) THEN "stopped" ELSE "failed")
    /\ run' = [run EXCEPT ![f] = "returning"]

\* The binding is taken, the endpoint refuses, or the setup context ended.
SetupFails(f) ==
    /\ run[f] = "setup"
    /\ FinishSetup(f)
    /\ UNCHANGED <<uiVars, callback, reply, contextVars, bound, observer, mapping>>

Registered(f) ==
    /\ run[f] = "register"
    /\ reply[f] = "ok"
    /\ run' = [run EXCEPT ![f] = "serving"]
    /\ observer' = [observer EXCEPT ![f] = "waiting"]
    /\ UNCHANGED <<vars, uiVars, callback, reply, contextVars, bound, mapping>>

\* Mutated: only the answer is awaited.
RefusedOnly(f) ==
    /\ run[f] = "register"
    /\ reply[f] = "refused"
    /\ FinishSetup(f)
    /\ stopChan' = stopChan \union {f}
    /\ UNCHANGED <<uiVars, callback, reply, exiting, cancelled, expired, bound,
                   observer, mapping>>

\* The registration was refused, or the setup context ended: the select takes
\* either branch when both are ready.
NotRegistered(f) ==
    /\ run[f] = "register"
    /\ reply[f] = "refused" \/ SetupOver(f)
    /\ FinishSetup(f)
    /\ stopChan' = stopChan \union {f}
    /\ UNCHANGED <<uiVars, callback, reply, exiting, cancelled, expired, bound,
                   observer, mapping>>

\* ForwardPorts (external): binds the listener, and returns when it is stopped,
\* when the stream breaks or when the setup ended before it was ready.
ListenerBinds(f) ==
    /\ run[f] = "serving"
    /\ f \notin stopChan \union bound
    /\ bound' = bound \union {f}
    /\ UNCHANGED <<vars, uiVars, workerVars, contextVars, mapping>>

StreamEnds(f) ==
    /\ run[f] = "serving"
    /\ run' = [run EXCEPT ![f] = "ended"]
    /\ UNCHANGED <<vars, uiVars, callback, reply, observer, contextVars, bound,
                   mapping>>

\* Mutated: whatever is registered under the mapping is removed.
DeleteRegistered(f) ==
    /\ run[f] = "ended"
    /\ mapping' = 0
    /\ stopChan' = stopChan \union {f}
    /\ run' = [run EXCEPT ![f] = "deleted"]
    /\ UNCHANGED <<vars, uiVars, callback, reply, observer, exiting, cancelled,
                   expired, bound>>

\* Factory.DeleteOwnedForwarder: only this very forwarder is removed.
DeleteOwned(f) ==
    /\ run[f] = "ended"
    /\ IF mapping = f
         THEN mapping' = 0 /\ stopChan' = stopChan \union {f}
         ELSE UNCHANGED <<mapping, stopChan>>
    /\ run' = [run EXCEPT ![f] = "deleted"]
    /\ UNCHANGED <<vars, uiVars, callback, reply, observer, exiting, cancelled,
                   expired, bound>>

FinishServing(f) ==
    /\ run[f] = "deleted"
    /\ \E reported \in IF LifetimeOver(f) THEN {"stopped"}
                                            ELSE {"stopped", "failed"} :
          Finish(f, reported)
    /\ run' = [run EXCEPT ![f] = "returning"]
    /\ UNCHANGED <<uiVars, callback, reply, observer, contextVars, bound, mapping>>

\* The deferred calls: both contexts end.
Return(f) ==
    /\ run[f] = "returning"
    /\ run' = [run EXCEPT ![f] = "done"]
    /\ cancelled' = cancelled \union {f}
    /\ UNCHANGED <<vars, uiVars, callback, reply, observer, exiting, expired,
                   stopChan, bound, mapping>>

-----------------------------------------------------------------------------
(* The observer: observeReady. It may run after the worker finished.       *)

ObserveReady(f) ==
    /\ observer[f] = "waiting"
    /\ f \in bound
    /\ observer' = [observer EXCEPT ![f] = "observed"]
    /\ expired' = expired \union {f}
    /\ UNCHANGED <<vars, uiVars, run, reply, callback, exiting, cancelled,
                   stopChan, bound, mapping>>

\* localLaunch.running marks the launch ready before it reports.
MarkReady(f) ==
    /\ observer[f] = "observed"
    /\ observer' = [observer EXCEPT ![f] = "ready"]
    /\ UNCHANGED <<vars, uiVars, run, reply, callback, contextVars, bound,
                   mapping>>

ReportRunning(f) ==
    /\ observer[f] = "ready"
    /\ observer' = [observer EXCEPT ![f] = "reported"]
    /\ IF f \notin finished /\ state[f] = "starting"
         THEN Running(f)
         ELSE UNCHANGED vars
    /\ UNCHANGED <<uiVars, run, reply, callback, contextVars, bound, mapping>>

ObserverLeaves(f) ==
    /\ observer[f] = "waiting"
    /\ LifetimeOver(f) \/ run[f] \in {"ended", "deleted", "returning", "done"}
    /\ observer' = [observer EXCEPT ![f] = "gone"]
    /\ UNCHANGED <<vars, uiVars, run, reply, callback, contextVars, bound,
                   mapping>>

-----------------------------------------------------------------------------
(* The factory.                                                            *)

\* Deleting the forward from its list kills it in a copy of the map: it is
\* stopped, and its own worker removes the entry.
KillForward ==
    /\ mapping # 0
    /\ mapping \notin stopChan
    /\ stopChan' = stopChan \union {mapping}
    /\ UNCHANGED <<vars, uiVars, workerVars, exiting, cancelled, expired,
                   bound, mapping>>

\* ValidatePortForwards found the Pod gone or younger than the forward, or its
\* deletion was accepted (Factory.DeleteForwarder).
PodGone ==
    /\ mapping # 0
    /\ stopChan' = stopChan \union {mapping}
    /\ mapping' = 0
    /\ UNCHANGED <<vars, uiVars, workerVars, exiting, cancelled, expired, bound>>

\* Factory.Terminate, one of the jobs of App.Shutdown.
Terminate ==
    /\ ~ running
    /\ mapping # 0
    /\ stopChan' = stopChan \union {mapping}
    /\ mapping' = 0
    /\ UNCHANGED <<vars, uiVars, workerVars, exiting, cancelled, expired, bound>>

-----------------------------------------------------------------------------
(* Registry steps that change nothing of a forward.                        *)

RegistryOnly(A) == A /\ UNCHANGED forwardVars

Forward(f) ==
    \/ StopSession(f)
    \/ CallbackCheck(f)
    \/ CallbackAdd(f)
    \/ Cleanup(f)
    \/ StopAfterLifetime(f)
    \/ SetupExpires(f)
    \/ SetupSucceeds(f)
    \/ SetupFails(f)
    \/ Registered(f)
    \/ NotRegistered(f)
    \/ ListenerBinds(f)
    \/ StreamEnds(f)
    \/ DeleteOwned(f)
    \/ FinishServing(f)
    \/ Return(f)
    \/ ObserveReady(f)
    \/ MarkReady(f)
    \/ ReportRunning(f)
    \/ ObserverLeaves(f)
    \/ RegistryOnly(CancelLocked(f))
    \/ RegistryOnly(LeaveCallback(f))
    \/ RegistryOnly(CancelAgain(f))

ForwardNext ==
    \/ Launch
    \/ LeavePage
    \/ ReturnToPage
    \/ AppStop
    \/ ExitRequested
    \/ KillForward
    \/ PodGone
    \/ Terminate
    \/ \E f \in Ids : Forward(f)
    \/ ~ running /\ RegistryOnly(Shutdown)

\* Goroutines run and deadlines pass. ForwardPorts returns once it is stopped
\* or when its setup ended before readiness. The event loop runs callbacks
\* while the app runs. Nothing makes a healthy stream end, the user act or the
\* app stop.
ForwardFairness ==
    /\ \A f \in Ids :
        /\ WF_allVars(RegistryOnly(CancelLocked(f)))
        /\ WF_allVars(Cleanup(f))
        /\ WF_allVars(RegistryOnly(LeaveCallback(f)))
        /\ WF_allVars(RegistryOnly(CancelAgain(f)))
        /\ WF_allVars(CallbackAdd(f))
        /\ WF_allVars(SetupExpires(f))
        /\ WF_allVars(SetupOver(f) /\ SetupFails(f))
        /\ WF_allVars(Registered(f))
        /\ WF_allVars(NotRegistered(f))
        /\ WF_allVars(/\ f \in stopChan \/ (f \notin bound /\ SetupOver(f))
                      /\ StreamEnds(f))
        /\ WF_allVars(DeleteOwned(f))
        /\ WF_allVars(FinishServing(f))
        /\ WF_allVars(Return(f))
        /\ WF_allVars(ObserveReady(f))
        /\ WF_allVars(MarkReady(f))
        /\ WF_allVars(StopAfterLifetime(f))
        /\ WF_allVars(ReportRunning(f))
    /\ WF_allVars(Terminate)
    /\ WF_allVars(~ running /\ RegistryOnly(Shutdown))

ForwardSpec == ForwardInit /\ [][ForwardNext]_allVars /\ ForwardFairness

-----------------------------------------------------------------------------
(* Properties.                                                             *)

\* A forward that serves and was not told to stop is the registered one, so
\* the forward list shows it and a second launch of the mapping is refused; one
\* that ended leaves no registration behind. The delayed end of one stream never
\* takes another's registration away.
RegistrationFollowsStream ==
    \A f \in Ids :
        /\ run[f] = "serving" /\ f \notin stopChan => mapping = f
        /\ mapping = f /\ f \in finished => observer[f] = "none"

\* Launches still preparing belong to their page: once it was left they are
\* never registered, even if the user came back before the worker was done.
LeftLaunchNeverRegisters ==
    [][\A f \in Ids : mapping' = f /\ mapping # f => f \notin left]_allVars

\* The registration refers to a session that has not ended.
MappingIsOwned ==
    mapping # 0 => mapping \notin finished

\* A launch does not stay in preparation: it becomes ready or it ends, with a
\* busy or stopped UI thread, a silent endpoint or a lost stream. A stop request,
\* whoever made it, however late and whatever the worker was doing, leads to the
\* end of the session; stopping the app ends every session it launched.
ForwardsSettle ==
    /\ \A f \in Ids :
          /\ [](f \in Launched => <>(Ready(f) \/ f \in finished))
          /\ [](state[f] = "stopping" => <>(f \in finished))
    /\ [](~ running => <>(Active = {}))
=============================================================================
