------------------------------- MODULE LogPage -------------------------------
(***************************************************************************)
(* The log page and its streams: internal/view/log.go (runModel, Start,    *)
(* Stop), the model it drives (internal/model/log.go: load, Restart, Stop, *)
(* updateLogs, Append) and what becomes of the page when the session is    *)
(* reconnected (internal/view/session_refresh.go).                         *)
(*                                                                         *)
(* A key or the page itself asks for streams on the UI thread; a goroutine *)
(* per request waits for the mutex and carries it out, the opening of the  *)
(* streams included, which takes as long as the cluster does. Requests are *)
(* numbered by lifecycleSeq. A request opens one stream, which stands for  *)
(* all its containers; lines are known by the request they came for.       *)
(***************************************************************************)
EXTENDS Integers, FiniteSets

CONSTANT MaxRequests    \* bound of the model: requests of a page

ASSUME PageAssumption == MaxRequests \in Nat

Requests == 1..MaxRequests

VARIABLES
    open,       \* Log.started
    stale,      \* Log.sessionStale
    latest,     \* Log.lifecycleSeq
    asked,      \* per request: "none", "start", "restart" or "stop"
    goroutine,  \* what became of it: "none", "queued", "opening" or "done"
    current,    \* Log.cancelFn: the request whose context it ends, 0 if none
    expired,    \* requests whose context has ended
    mutex,      \* the request that holds lifecycleMu, 0 if none
    modelHeld,  \* model.Log.cancelFn: the request whose stream it ends, 0 if none
    streamEnded,\* streams whose own context was ended
    reader,     \* updateLogs: "none", "reading", "holding" a line it will append, "gone"
    overdue,    \* lines a stream appended after its end
    lines       \* the requests whose lines the model retains

logPageVars == <<open, stale, latest, asked, goroutine, current, expired, mutex,
                 modelHeld, streamEnded, reader, overdue, lines>>

viewVars == <<open, stale, latest, asked, current, expired>>
streamVars == <<mutex, modelHeld, streamEnded, reader, overdue, lines>>

LogPageInit ==
    /\ open = FALSE /\ stale = FALSE /\ latest = 0
    /\ asked = [r \in Requests |-> "none"] /\ goroutine = [r \in Requests |-> "none"]
    /\ current = 0 /\ expired = {} /\ mutex = 0 /\ modelHeld = 0 /\ streamEnded = {}
    /\ reader = [r \in Requests |-> "none"]
    /\ overdue = [r \in Requests |-> 0] /\ lines = {}

\* A stream's context derives from its request's.
Over(r) == r \in expired \union streamEnded

-----------------------------------------------------------------------------
(* The UI thread.                                                          *)

CancelCurrent == expired' = expired \union ({current} \ {0})

\* Mutated: the context of the request before goes on.
RunModelBeside(what) ==
    /\ latest < MaxRequests
    /\ latest' = latest + 1
    /\ UNCHANGED expired
    /\ current' = latest'
    /\ asked' = [asked EXCEPT ![latest'] = what]
    /\ goroutine' = [goroutine EXCEPT ![latest'] = "queued"]

\* runModel: the previous context is cancelled, the request numbered and queued.
RunModel(what) ==
    /\ latest < MaxRequests
    /\ latest' = latest + 1
    /\ CancelCurrent
    /\ current' = latest'
    /\ asked' = [asked EXCEPT ![latest'] = what]
    /\ goroutine' = [goroutine EXCEPT ![latest'] = "queued"]

StartPage ==
    /\ ~ open /\ ~ stale
    /\ open' = TRUE
    /\ RunModel("start")
    /\ UNCHANGED <<stale, streamVars>>

\* The page of a session that was replaced shows what was retained.
StartStale ==
    /\ ~ open /\ stale
    /\ open' = TRUE
    /\ UNCHANGED <<stale, latest, asked, goroutine, current, expired, streamVars>>

\* Tail, head, since, a jump in time, other containers: the same with Restart.
RestartStreams ==
    /\ open /\ ~ stale
    /\ RunModel("restart")
    /\ UNCHANGED <<open, stale, streamVars>>

\* Log.Stop: the context ends at once, the model is stopped by a request of its own.
StopNow ==
    /\ latest < MaxRequests
    /\ open' = FALSE
    /\ CancelCurrent
    /\ current' = 0
    /\ latest' = latest + 1
    /\ asked' = [asked EXCEPT ![latest'] = "stop"]
    /\ goroutine' = [goroutine EXCEPT ![latest'] = "queued"]

StopPage == open /\ StopNow /\ UNCHANGED <<stale, streamVars>>

\* replaceSession stops the page, marks it stale, and starts it if it is on top.
SessionReplaced ==
    /\ ~ stale
    /\ stale' = TRUE
    /\ IF open THEN StopNow
               ELSE UNCHANGED <<open, latest, asked, goroutine, current, expired>>
    /\ UNCHANGED streamVars

-----------------------------------------------------------------------------
(* The goroutine of a request.                                             *)

\* An obsolete request returns.
Obsolete(r) == r # latest \/ r \in expired

ModelCancelled == streamEnded \union ({modelHeld} \ {0})

Skip(r) ==
    /\ goroutine[r] = "queued" /\ mutex = 0 /\ Obsolete(r)
    /\ goroutine' = [goroutine EXCEPT ![r] = "done"]
    /\ UNCHANGED <<viewVars, streamVars>>

StopModel(r) ==
    /\ goroutine[r] = "queued" /\ mutex = 0 /\ ~ Obsolete(r) /\ asked[r] = "stop"
    /\ streamEnded' = ModelCancelled /\ modelHeld' = 0
    /\ goroutine' = [goroutine EXCEPT ![r] = "done"]
    /\ UNCHANGED <<viewVars, mutex, reader, overdue, lines>>

\* Restart stops the stream and clears the lines; load stops it too, makes the context
\* of the new one and asks the cluster for it.
Load(r) ==
    /\ goroutine[r] = "queued" /\ mutex = 0 /\ ~ Obsolete(r) /\ asked[r] # "stop"
    /\ mutex' = r
    /\ streamEnded' = ModelCancelled /\ modelHeld' = r
    /\ lines' = IF asked[r] = "restart" THEN {} ELSE lines
    /\ goroutine' = [goroutine EXCEPT ![r] = "opening"]
    /\ UNCHANGED <<viewVars, reader, overdue>>

Opened(r) ==
    /\ goroutine[r] = "opening"
    /\ reader' = [reader EXCEPT ![r] = "reading"]
    /\ goroutine' = [goroutine EXCEPT ![r] = "done"] /\ mutex' = 0
    /\ UNCHANGED <<viewVars, modelHeld, streamEnded, overdue, lines>>

\* Mutated: the mutex is released at the end of a request that succeeds.
NotOpenedLocked(r) ==
    /\ goroutine[r] = "opening"
    /\ streamEnded' = ModelCancelled /\ modelHeld' = 0
    /\ goroutine' = [goroutine EXCEPT ![r] = "done"]
    /\ UNCHANGED <<viewVars, mutex, reader, overdue, lines>>

\* TailLogs failed, with the end of its context or without.
NotOpened(r) ==
    /\ goroutine[r] = "opening"
    /\ streamEnded' = ModelCancelled /\ modelHeld' = 0
    /\ goroutine' = [goroutine EXCEPT ![r] = "done"] /\ mutex' = 0
    /\ UNCHANGED <<viewVars, reader, overdue, lines>>

-----------------------------------------------------------------------------
(* updateLogs.                                                             *)

\* A line arrived: the context is looked at before the line is taken.
Receive(r) ==
    /\ reader[r] = "reading" /\ ~ Over(r)
    /\ reader' = [reader EXCEPT ![r] = "holding"]
    /\ UNCHANGED <<viewVars, goroutine, mutex, modelHeld, streamEnded, overdue, lines>>

AppendLine(r) ==
    /\ reader[r] = "holding"
    /\ lines' = lines \union {r}
    /\ overdue' = [overdue EXCEPT ![r] = IF Over(r) THEN @ + 1 ELSE @]
    /\ reader' = [reader EXCEPT ![r] = "reading"]
    /\ UNCHANGED <<viewVars, goroutine, mutex, modelHeld, streamEnded>>

\* The context ended, or the streams did.
ReaderEnds(r) ==
    /\ reader[r] = "reading"
    /\ reader' = [reader EXCEPT ![r] = "gone"]
    /\ UNCHANGED <<viewVars, goroutine, mutex, modelHeld, streamEnded, overdue, lines>>

-----------------------------------------------------------------------------

Carry(r) ==
    \/ Skip(r)
    \/ StopModel(r)
    \/ Load(r)
    \/ Opened(r)
    \/ NotOpened(r)

LogPageNext ==
    \/ StartPage
    \/ StartStale
    \/ RestartStreams
    \/ StopPage
    \/ SessionReplaced
    \/ \E r \in Requests : Carry(r) \/ Receive(r) \/ AppendLine(r) \/ ReaderEnds(r)

\* Goroutines run, the mutex goes from one to the next, TailLogs returns, and a reader
\* whose context has ended leaves its loop.
LogPageFairness ==
    /\ WF_logPageVars(\E r \in Requests : Carry(r))
    /\ WF_logPageVars(\E r \in Requests : AppendLine(r) \/ (Over(r) /\ ReaderEnds(r)))

LogPageSpec == LogPageInit /\ [][LogPageNext]_logPageVars /\ LogPageFairness

-----------------------------------------------------------------------------
(* Properties.                                                             *)

\* "A newer request cancels its predecessor and obsolete queued requests cannot
\* resurrect streams" (log.go:317): a stream that may still read belongs to the latest
\* request, of a page that is open and whose session was not replaced. An earlier one
\* adds at most the line it already had in its hands, and of what it added before,
\* nothing is retained once the buffer was cleared for a restart.
OnlyLatestStreams ==
    /\ \A r \in Requests :
          /\ (goroutine[r] = "opening" \/ reader[r] \in {"reading", "holding"}) /\ ~ Over(r)
                => r = latest /\ open /\ ~ stale
          /\ overdue[r] <= 1
    /\ modelHeld # 0 /\ asked[modelHeld] = "restart" =>
          \A r \in lines : r # modelHeld => overdue[r] = 1

\* However many requests were made meanwhile, the latest one is carried out, and no
\* stream goes on reading for a page that was left.
LogPageSettles ==
    []<>(/\ latest > 0 => goroutine[latest] = "done"
         /\ ~ open => \A r \in Requests : reader[r] \in {"none", "gone"})
=============================================================================
