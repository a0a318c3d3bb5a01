-------------------------- MODULE SessionRegistry --------------------------
(***************************************************************************)
(* The registry of local sessions (internal/session/registry.go): port     *)
(* forwards, shells, debug pods and plugins launched by this process.      *)
(*                                                                         *)
(* Handles are numbered in launch order, so the order of the slice         *)
(* r.handles is the order of the numbers and the slice itself is a set.    *)
(* Every action is one section of code that runs under r.mx, or one step   *)
(* that runs outside it; launchers, session workers, the goroutines that   *)
(* cancel and the goroutine that shuts the registry down interleave        *)
(* between them.                                                           *)
(*                                                                         *)
(* The lifecycle notes (Record.Events), the binding and the captured       *)
(* destination are data no property here depends on and are left out.      *)
(***************************************************************************)
EXTENDS Integers, FiniteSets

CONSTANTS
    MaxActive,    \* sessions that may be unfinished together (64 in the code)
    MaxHistory,   \* finished sessions that are retained (128 in the code)
    MaxLaunches,  \* bound of the model: how often Add succeeds
    Reports       \* the states a worker may pass to Finish

ASSUME ConstantsAssumption ==
    /\ MaxActive \in Nat
    /\ MaxHistory \in Nat
    /\ MaxLaunches \in Nat
    /\ Reports \subseteq STRING

Ids == 1 .. MaxLaunches

\* Final states a worker may report; anything else is recorded as Unknown.
FinalStates == {"stopped", "completed", "failed", "unknown"}

States == {"none", "starting", "running", "stopping"} \union FinalStates

VARIABLES
    sequence,   \* Registry.sequence: how many sessions were ever added
    closed,     \* Registry.closed
    retained,   \* Registry.handles
    state,      \* Handle.record.State, "none" before the launch
    finished,   \* handles whose Finish took effect: finished set, done closed
    once,       \* Handle.cancelOnce, see OnceStates
    cancelling, \* handles some goroutine is about to call Cancel on
    invoked,    \* how often the owner's cleanup callback was entered
    shutdown,   \* where Shutdown stands
    snapshot,   \* the handles Shutdown cloned under the lock
    waiting,    \* those whose done channel Shutdown has not passed yet
    marking     \* those Shutdown still has to mark after its deadline

vars == <<sequence, closed, retained, state, finished, once, cancelling,
          invoked, shutdown, snapshot, waiting, marking>>

shutdownVars == <<shutdown, snapshot, waiting, marking>>
cancelVars == <<once, cancelling, invoked>>

Launched == 1 .. sequence
Active == Launched \ finished

\* Unused; past the locked section; inside the callback; spent.
OnceStates == {"unused", "locked", "callback", "used"}

ShutdownStates == {"idle", "waiting", "marking", "clean", "deadline"}

TypeOK ==
    /\ sequence \in 0 .. MaxLaunches
    /\ closed \in BOOLEAN
    /\ retained \subseteq Ids
    /\ state \in [Ids -> States]
    /\ finished \subseteq Ids
    /\ \A h \in finished : state[h] \in FinalStates
    /\ once \in [Ids -> OnceStates]
    /\ cancelling \subseteq Ids
    /\ invoked \in [Ids -> Nat]
    /\ shutdown \in ShutdownStates
    /\ snapshot \subseteq Ids
    /\ waiting \subseteq Ids
    /\ marking \subseteq Ids

Init ==
    /\ sequence = 0
    /\ closed = FALSE
    /\ retained = {}
    /\ state = [h \in Ids |-> "none"]
    /\ finished = {}
    /\ once = [h \in Ids |-> "unused"]
    /\ cancelling = {}
    /\ invoked = [h \in Ids |-> 0]
    /\ shutdown = "idle"
    /\ snapshot = {}
    /\ waiting = {}
    /\ marking = {}

-----------------------------------------------------------------------------
(* The registry.                                                           *)

\* Mutated: the history bound drops the oldest handles, finished or not.
TrimOldest(handles, done) ==
    { h \in handles : Cardinality({ g \in handles : g > h }) <= MaxHistory }

\* trimHistoryLocked: the oldest finished handles go until MaxHistory of them
\* are left, that is those with at least MaxHistory finished successors.
Trim(handles, done) ==
    { h \in handles : \/ h \notin done
                      \/ Cardinality({ g \in handles \intersect done : g > h })
                           < MaxHistory }

\* Only retained handles are counted.
ActiveCount == Cardinality(retained \ finished)

\* Add registers a session before its worker starts. A closed registry and a
\* full one reject the launch and leave no trace of it.
Add ==
    /\ sequence < MaxLaunches
    /\ ~ closed
    /\ ActiveCount < MaxActive
    /\ sequence' = sequence + 1
    /\ state' = [state EXCEPT ![sequence + 1] = "starting"]
    /\ retained' = Trim(retained \union {sequence + 1}, finished)
    /\ UNCHANGED <<closed, finished, cancelVars, shutdownVars>>

\* Registry.Cancel looks the handle up under the lock and cancels it after
\* the unlock, when it may have finished or left the history.
RequestCancel(h) ==
    /\ h \in retained
    /\ cancelling' = cancelling \union {h}
    /\ UNCHANGED <<sequence, closed, retained, state, finished, once, invoked,
                   shutdownVars>>

-----------------------------------------------------------------------------
(* A handle: its worker reports Running and Finish, any goroutine cancels. *)

Running(h) ==
    /\ h \in Launched \ finished
    /\ state[h] = "starting"
    /\ state' = [state EXCEPT ![h] = "running"]
    /\ UNCHANGED <<sequence, closed, retained, finished, cancelVars,
                   shutdownVars>>

\* The first Finish wins; a state that is not final is recorded as unknown.
Finish(h, reported) ==
    /\ h \in Launched \ finished
    /\ state' = [state EXCEPT ![h] = IF reported \in FinalStates
                                       THEN reported ELSE "unknown"]
    /\ finished' = finished \union {h}
    /\ retained' = Trim(retained, finished')
    /\ UNCHANGED <<sequence, closed, cancelVars, shutdownVars>>

\* Handle.Cancel, the first caller: the section under the lock. A finished
\* session is left alone; an unknown one keeps its state but is still stopped.
CancelLocked(h) ==
    /\ h \in cancelling
    /\ once[h] = "unused"
    /\ IF h \in finished
         THEN /\ once' = [once EXCEPT ![h] = "used"]
              /\ UNCHANGED state
         ELSE /\ once' = [once EXCEPT ![h] = "locked"]
              /\ state' = [state EXCEPT ![h] = IF @ = "unknown"
                                                 THEN @ ELSE "stopping"]
    /\ cancelling' = cancelling \ {h}
    /\ UNCHANGED <<sequence, closed, retained, finished, invoked,
                   shutdownVars>>

\* Outside the lock the callback is entered; it may never return.
EnterCallback(h) ==
    /\ once[h] = "locked"
    /\ once' = [once EXCEPT ![h] = "callback"]
    /\ invoked' = [invoked EXCEPT ![h] = @ + 1]
    /\ UNCHANGED <<sequence, closed, retained, state, finished, cancelling,
                   shutdownVars>>

LeaveCallback(h) ==
    /\ once[h] = "callback"
    /\ once' = [once EXCEPT ![h] = "used"]
    /\ UNCHANGED <<sequence, closed, retained, state, finished, cancelling,
                   invoked, shutdownVars>>

\* Every other caller waits for the first one and then does nothing.
CancelAgain(h) ==
    /\ h \in cancelling
    /\ once[h] = "used"
    /\ cancelling' = cancelling \ {h}
    /\ UNCHANGED <<sequence, closed, retained, state, finished, once, invoked,
                   shutdownVars>>

-----------------------------------------------------------------------------
(* Shutdown.                                                               *)

\* Close the registry, clone its handles under the lock and start one
\* goroutine per handle that cancels it.
ShutdownBegin ==
    /\ shutdown = "idle"
    /\ shutdown' = "waiting"
    /\ closed' = TRUE
    /\ snapshot' = retained
    /\ waiting' = retained
    /\ cancelling' = cancelling \union retained
    /\ UNCHANGED <<sequence, retained, state, finished, once, invoked, marking>>

\* The handles are awaited in launch order.
FirstOf(handles) == CHOOSE h \in handles : \A g \in handles : h <= g

\* Mutated: a handle whose cancellation was started counts as done.
ShutdownAwaitCancelled ==
    /\ shutdown = "waiting"
    /\ waiting # {}
    /\ \/ FirstOf(waiting) \in finished
       \/ once[FirstOf(waiting)] = "used"
    /\ waiting' = waiting \ {FirstOf(waiting)}
    /\ UNCHANGED <<sequence, closed, retained, state, finished, cancelVars,
                   shutdown, snapshot, marking>>

ShutdownAwait ==
    /\ shutdown = "waiting"
    /\ waiting # {}
    /\ FirstOf(waiting) \in finished
    /\ waiting' = waiting \ {FirstOf(waiting)}
    /\ UNCHANGED <<sequence, closed, retained, state, finished, cancelVars,
                   shutdown, snapshot, marking>>

ShutdownClean ==
    /\ shutdown = "waiting"
    /\ waiting = {}
    /\ shutdown' = "clean"
    /\ UNCHANGED <<sequence, closed, retained, state, finished, cancelVars,
                   snapshot, waiting, marking>>

\* Mutated: the handles are cancelled one after the other on Shutdown's own
\* goroutine, so its context is looked at only after the callbacks returned.
ShutdownExpireInline ==
    /\ shutdown = "waiting"
    /\ waiting # {}
    /\ \A h \in snapshot : once[h] = "used"
    /\ shutdown' = "marking"
    /\ marking' = snapshot
    /\ UNCHANGED <<sequence, closed, retained, state, finished, cancelVars,
                   snapshot, waiting>>

\* The caller's context ends while a handle is awaited. Go's select may take
\* this branch even when the handle is done as well.
ShutdownExpire ==
    /\ shutdown = "waiting"
    /\ waiting # {}
    /\ shutdown' = "marking"
    /\ marking' = snapshot
    /\ UNCHANGED <<sequence, closed, retained, state, finished, cancelVars,
                   snapshot, waiting>>

\* markCleanupUnknown takes the lock once per handle.
ShutdownMark ==
    /\ shutdown = "marking"
    /\ marking # {}
    /\ LET h == FirstOf(marking)
       IN  /\ state' = [state EXCEPT ![h] = IF h \in finished
                                              THEN @ ELSE "unknown"]
           /\ marking' = marking \ {h}
    /\ UNCHANGED <<sequence, closed, retained, finished, cancelVars, shutdown,
                   snapshot, waiting>>

ShutdownExpired ==
    /\ shutdown = "marking"
    /\ marking = {}
    /\ shutdown' = "deadline"
    /\ UNCHANGED <<sequence, closed, retained, state, finished, cancelVars,
                   snapshot, waiting, marking>>

-----------------------------------------------------------------------------
Handle(h) ==
    \/ RequestCancel(h)
    \/ Running(h)
    \/ \E reported \in Reports : Finish(h, reported)
    \/ CancelLocked(h)
    \/ EnterCallback(h)
    \/ LeaveCallback(h)
    \/ CancelAgain(h)

Shutdown ==
    \/ ShutdownBegin
    \/ ShutdownAwait
    \/ ShutdownClean
    \/ ShutdownExpire
    \/ ShutdownMark
    \/ ShutdownExpired

Next ==
    \/ Add
    \/ \E h \in Ids : Handle(h)
    \/ Shutdown

\* Goroutines that were started run: a cancelling goroutine gets its turn and
\* enters the callback, Shutdown steps, and its context ends in the end.
\* Nothing makes a worker finish, a callback return or the app shut down.
Fairness ==
    /\ \A h \in Ids : /\ WF_vars(CancelLocked(h))
                      /\ WF_vars(EnterCallback(h))
                      /\ WF_vars(CancelAgain(h))
    /\ WF_vars(ShutdownAwait)
    /\ WF_vars(ShutdownClean)
    /\ WF_vars(ShutdownExpire)
    /\ WF_vars(ShutdownMark)
    /\ WF_vars(ShutdownExpired)

Spec == Init /\ [][Next]_vars /\ Fairness

-----------------------------------------------------------------------------
(* Properties.                                                             *)

\* A session that has not finished is never forgotten: no history trimming
\* drops it, and once the registry is closed every such session is one that
\* Shutdown took on, so none is launched behind its back.
OwnedUntilFinished ==
    /\ Active \subseteq retained
    /\ closed => Active \subseteq snapshot

\* The limits hold over every interleaving of launches and endings:
\* unfinished sessions and retained history are counted separately.
WithinLimits ==
    /\ Cardinality(Active) <= MaxActive
    /\ Cardinality(retained \intersect finished) <= MaxHistory

\* When Shutdown returns its deadline error no session is left claiming to be
\* starting, running or stopping: it finished, or its cleanup is unknown, and
\* a cancellation or readiness report that arrives later does not change that.
DeadlineIsExplicit ==
    shutdown = "deadline" => \A h \in Active : state[h] = "unknown"

\* The cleanup callback of a session runs at most once however many
\* goroutines cancel it, and never for a session that nobody cancelled.
CallbackAtMostOnce ==
    \A h \in Ids : /\ invoked[h] <= 1
                   /\ invoked[h] = 1 => once[h] # "unused"

\* How far a session is along its lifecycle. An unknown cleanup comes after a
\* stop request, and only an end comes after it.
Progress(h) ==
    IF h \in finished THEN 5
    ELSE CASE state[h] = "none"     -> 0
           [] state[h] = "starting" -> 1
           [] state[h] = "running"  -> 2
           [] state[h] = "stopping" -> 3
           [] OTHER                 -> 4

\* The record of a session only moves forward: a late readiness report does
\* not undo a stop request or an unknown cleanup, a late stop request does not
\* hide an unknown cleanup, and a finished record never changes again.
LifecycleForward ==
    [][\A h \in Ids : state'[h] # state[h] =>
          /\ h \notin finished
          /\ \/ Progress(h)' > Progress(h)
             \/ h \in finished']_vars

\* What the registry promises, read as SessionContract. A session counts as
\* ended once its Finish took effect, as stopped once its callback was entered.
PhaseOf(h) ==
    IF h \notin Launched THEN "absent"
    ELSE IF h \in finished THEN "ended"
    ELSE "active"

Verdict ==
    IF shutdown = "idle" THEN "open"
    ELSE IF shutdown \in {"waiting", "marking"} THEN "closing"
    ELSE shutdown

Contract == INSTANCE SessionContract WITH
    phase <- [h \in Ids |-> PhaseOf(h)],
    stopped <- { h \in Ids : invoked[h] > 0 },
    verdict <- Verdict

\* The registry with its slices, locks and goroutines implements the contract:
\* no launch after closing, a clean verdict only when nothing is active.
ImplementsContract == Contract!Spec

\* A faulty callback cannot hold Shutdown: once begun it returns, cleanly or
\* with its deadline, even when callbacks hang and workers never finish; and every
\* session it owns has finished or gets its callback entered, whatever the
\* callbacks of the other sessions do.
ShutdownSettles ==
    /\ [](shutdown = "waiting" => <>(shutdown \in {"clean", "deadline"}))
    /\ \A h \in Ids :
          [](h \in snapshot => <>(h \in finished \/ invoked[h] = 1))
=============================================================================
