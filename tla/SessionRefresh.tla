--------------------------- MODULE SessionRefresh ---------------------------
(***************************************************************************)
(* Reconnecting a running session from the connection page (internal/view/ *)
(* session_refresh.go, connection_health.go; config/session.go): a         *)
(* goroutine prepares a connection, a second one waits for it until the    *)
(* deadline, a callback on the UI thread installs it in place of the one   *)
(* in use.                                                                 *)
(*                                                                         *)
(* The user leaves the page and returns, reconnects and checks again, or   *)
(* chooses another destination; the watcher of the configuration files     *)
(* reloads another destination on a goroutine of its own; the process is   *)
(* told to end at any moment. There is one destination beside the one the  *)
(* page was opened for, enough for a round trip. The UI thread installs in *)
(* steps, because the watcher may come between them. Left out: what is     *)
(* read from the cluster, and rebinding the pages.                         *)
(***************************************************************************)
EXTENDS Integers, FiniteSets

CONSTANTS
    MaxAttempts,    \* bound of the model: reconnections started
    MaxVisits,      \* bound of the model: generations of the page
    MaxChoices      \* bound of the model: changes of the destination

ASSUME RefreshAssumption == {MaxAttempts, MaxVisits, MaxChoices} \subseteq Nat

Attempts == 1..MaxAttempts

VARIABLES
    page,       \* connectionHealthDetails: started, generation, the revision of its
                \* request, held: the attempt d.cancel cancels (0: none), seen: a
                \* snapshot was accepted, checking: a check of this generation is under way
    here,       \* the active context and namespace are those of the page's request
    revision,   \* Config.destinationRevision
    choices,    \* changes of the destination so far
    attempted,  \* reconnections started
    asked,      \* per attempt: the captured generation
    ctx,        \* its context: "none", "live", "canceled", "expired"
    maker,      \* the goroutine inside prepare: "none", "reading", "offering",
                \* "done"
    waiter,     \* the goroutine of refreshSession: "none", "waiting", "returned",
                \* "queued", "done"
    carried,    \* the attempts whose result in the waiter's hands has a connection
    conn,       \* per attempt, and 0 for the first session: "none", "open", "closed"
    installed,  \* the attempt whose connection the application uses
    accepting,  \* the attempt the UI thread is installing (0: none)
    step,       \* what it does next: "compare", "replace", "adopt", or "idle"
    app,        \* "running", "ending": told to end, "ended": the event loop is over,
                \* "closed": the cleanup job closed the connection
    wish        \* the attempt nothing the user did since has replaced (0: none)

refreshVars == <<page, here, revision, choices, attempted, asked, ctx, maker, waiter, carried,
                 conn, installed, accepting, step, app, wish>>
destinationVars == <<here, revision, choices>>
attemptVars == <<attempted, asked, ctx, maker, waiter, carried, conn>>
useVars == <<installed, accepting, step, app>>

RefreshInit ==
    /\ page = [started |-> FALSE, generation |-> 0, request |-> 0, held |-> 0,
               seen |-> FALSE, checking |-> FALSE]
    /\ here = TRUE /\ revision = 0 /\ choices = 0 /\ attempted = 0
    /\ asked = [a \in Attempts |-> 0] /\ ctx = [a \in Attempts |-> "none"]
    /\ maker = [a \in Attempts |-> "none"] /\ waiter = [a \in Attempts |-> "none"]
    /\ carried = {}
    /\ conn = [a \in {0} \cup Attempts |-> IF a = 0 THEN "open" ELSE "none"]
    /\ installed = 0 /\ accepting = 0 /\ step = "idle"
    /\ app = "running" /\ wish = 0

\* The event loop takes one callback or key at a time, and none once it is over.
UIFree == step = "idle" /\ app \in {"running", "ending"}

Over(a) == ctx[a] \in {"canceled", "expired"}
Cancelled(a) == IF a # 0 /\ ctx[a] = "live" THEN [ctx EXCEPT ![a] = "canceled"] ELSE ctx

SameDestination == here /\ page.request = revision

\* Mutated: the generation is not compared.
CurrentPage(generation) == page.started /\ SameDestination

Current(generation) == page.started /\ page.generation = generation /\ SameDestination

---------------------------------------------------------------------------
(* The user, on the UI thread. *)
\* refreshConnectionHealth, on a key or for a page without a snapshot.
CheckAgain(opened) ==
    IF SameDestination
    THEN /\ page' = [opened EXCEPT !.generation = @ + 1, !.held = 0, !.checking = TRUE]
         /\ ctx' = Cancelled(page.held)
    ELSE page' = opened /\ UNCHANGED ctx

Recheck ==
    /\ UIFree /\ page.started /\ page.generation < MaxVisits
    /\ CheckAgain(page) /\ wish' = 0
    /\ UNCHANGED <<destinationVars, attempted, asked, maker, waiter, carried, conn, useVars>>

Start ==
    /\ UIFree /\ ~page.started /\ page.generation < MaxVisits
    /\ LET opened == [page EXCEPT !.started = TRUE]
       IN  IF page.seen THEN page' = opened /\ UNCHANGED ctx ELSE CheckAgain(opened)
    /\ UNCHANGED <<destinationVars, attempted, asked, maker, waiter, carried, conn, useVars, wish>>

Stop ==
    /\ UIFree /\ page.started /\ page.generation < MaxVisits
    /\ page' = [page EXCEPT !.started = FALSE, !.generation = @ + 1, !.held = 0,
                          !.checking = FALSE]
    /\ ctx' = Cancelled(page.held) /\ wish' = 0
    /\ UNCHANGED <<destinationVars, attempted, asked, maker, waiter, carried, conn, useVars>>

\* The contexts derive from the session's, which is over once the app is to end.
RefreshSession ==
    /\ UIFree /\ Current(page.generation)
    /\ attempted < MaxAttempts /\ page.generation < MaxVisits
    /\ LET a == attempted + 1
       IN  /\ attempted' = a /\ wish' = a
           /\ page' = [page EXCEPT !.generation = @ + 1, !.held = a, !.checking = FALSE]
           /\ asked' = [asked EXCEPT ![a] = page.generation + 1]
           /\ ctx' = [Cancelled(page.held) EXCEPT
                        ![a] = IF app = "running" THEN "live" ELSE "canceled"]
           /\ maker' = [maker EXCEPT ![a] = "reading"]
           /\ waiter' = [waiter EXCEPT ![a] = "waiting"]
    /\ UNCHANGED <<destinationVars, carried, conn, useVars>>

\* Another context or namespace, chosen by the user or read by the file watcher.
DestinationChanges ==
    /\ choices < MaxChoices /\ choices' = choices + 1
    /\ here' = ~here /\ revision' = revision + 1
    /\ UNCHANGED <<page, attemptVars, useVars>>

Choose == UIFree /\ DestinationChanges /\ wish' = 0

Reload == DestinationChanges /\ UNCHANGED wish

\* The callback of a check; one of an earlier generation does nothing.
HealthAccepted ==
    /\ UIFree /\ page.checking /\ Current(page.generation)
    /\ page' = [page EXCEPT !.checking = FALSE, !.seen = TRUE]
    /\ UNCHANGED <<destinationVars, attemptVars, useVars, wish>>

---------------------------------------------------------------------------
(* prepareSessionRefresh. The connection it reads with is closed on every path. *)
Prepare(a, from, to) ==
    /\ maker[a] = from /\ maker' = [maker EXCEPT ![a] = to]
    /\ UNCHANGED <<page, destinationVars, attempted, asked, ctx, waiter, carried, useVars, wish>>

\* The last look at the context is before the connection is built: it may be over since.
PrepareFails(a) == Prepare(a, "reading", "offering") /\ UNCHANGED conn
Build(a) == Prepare(a, "reading", "offering") /\ conn' = [conn EXCEPT ![a] = "open"]

(* boundedSessionRefresh: a rendezvous between the two goroutines. *)
Closed(a) == IF conn[a] = "open" THEN [conn EXCEPT ![a] = "closed"] ELSE conn

\* Mutated: the connection nobody waits for is not closed.
WithdrawOnly(a) == Over(a) /\ Prepare(a, "offering", "done") /\ UNCHANGED conn

Withdraw(a) == Over(a) /\ Prepare(a, "offering", "done") /\ conn' = Closed(a)

\* What is received after the context has ended is closed.
Hand(a) ==
    /\ maker[a] = "offering" /\ maker' = [maker EXCEPT ![a] = "done"]
    /\ waiter[a] = "waiting" /\ waiter' = [waiter EXCEPT ![a] = "returned"]
    /\ IF Over(a) THEN conn' = Closed(a) /\ UNCHANGED carried
       ELSE carried' = {c \in carried \cup {a} : conn[c] = "open"} /\ UNCHANGED conn
    /\ UNCHANGED <<page, destinationVars, attempted, asked, ctx, useVars, wish>>

Waits(a, from, to) ==
    /\ waiter[a] = from /\ waiter' = [waiter EXCEPT ![a] = to]
    /\ UNCHANGED <<page, destinationVars, attempted, asked, maker, useVars, wish>>

\* Mutated: it waits for prepare although the deadline has passed.
WaitsForMaker(a) ==
    /\ Over(a) /\ maker[a] = "done" /\ Waits(a, "waiting", "returned")
    /\ UNCHANGED <<ctx, conn, carried>>

WaitOver(a) ==
    /\ Over(a) /\ Waits(a, "waiting", "returned") /\ UNCHANGED <<ctx, conn, carried>>

\* The goroutine cancels its context when it returns.
Discard(a) ==
    /\ ctx[a] = "canceled" \/ app \in {"ended", "closed"}
    /\ Waits(a, "returned", "done") /\ ctx' = Cancelled(a)
    /\ conn' = (IF a \in carried THEN Closed(a) ELSE conn) /\ carried' = carried \ {a}

Queue(a) ==
    /\ ctx[a] # "canceled" /\ app \in {"running", "ending"}
    /\ Waits(a, "returned", "queued") /\ ctx' = Cancelled(a)
    /\ UNCHANGED <<conn, carried>>

---------------------------------------------------------------------------
(* The queued callback, and acceptSessionRefresh. *)
Stale(a) ==
    /\ UIFree /\ ~Current(asked[a])
    /\ Waits(a, "queued", "done") /\ UNCHANGED ctx
    /\ conn' = (IF a \in carried THEN Closed(a) ELSE conn) /\ carried' = carried \ {a}

Failed(a) ==
    /\ UIFree /\ Current(asked[a]) /\ a \notin carried
    /\ waiter[a] = "queued" /\ waiter' = [waiter EXCEPT ![a] = "done"]
    /\ page' = [page EXCEPT !.held = 0, !.seen = TRUE]
    /\ UNCHANGED <<destinationVars, attempted, asked, ctx, maker, carried, conn, useVars, wish>>

Accept(a) ==
    /\ UIFree /\ Current(asked[a]) /\ a \in carried
    /\ waiter[a] = "queued" /\ waiter' = [waiter EXCEPT ![a] = "done"]
    /\ page' = [page EXCEPT !.held = 0, !.seen = TRUE]
    /\ accepting' = a /\ step' = "compare"
    /\ UNCHANGED <<destinationVars, attempted, asked, ctx, maker, carried, conn,
                   installed, app, wish>>

\* ReplaceSessionConnection compares the destination once more.
Refused ==
    /\ step = "compare" /\ ~SameDestination
    /\ step' = "idle" /\ accepting' = 0
    /\ conn' = Closed(accepting) /\ carried' = carried \ {accepting}
    /\ UNCHANGED <<page, destinationVars, attempted, asked, ctx, maker, waiter,
                   installed, app, wish>>

Compared ==
    /\ step = "compare" /\ SameDestination /\ step' = "replace"
    /\ UNCHANGED <<page, destinationVars, attemptVars, installed, accepting, app, wish>>

\* All pages are stopped, the old connection is closed, the top page starts again.
Install ==
    /\ step = "replace" /\ step' = "adopt"
    /\ installed' = accepting /\ revision' = revision + 1 /\ carried' = carried \ {accepting}
    /\ page' = [page EXCEPT !.generation = @ + 1]
    /\ conn' = Closed(installed)
    /\ UNCHANGED <<here, choices, attempted, asked, ctx, maker, waiter, accepting, app, wish>>

Adopt ==
    /\ step = "adopt" /\ step' = "idle" /\ accepting' = 0
    /\ page' = [page EXCEPT !.request = revision]
    /\ UNCHANGED <<destinationVars, attemptVars, installed, app, wish>>

---------------------------------------------------------------------------
(* Deadlines, and the end of the application. *)
Expire(a) ==
    /\ ctx[a] = "live" /\ ctx' = [ctx EXCEPT ![a] = "expired"]
    /\ UNCHANGED <<page, destinationVars, attempted, asked, maker, waiter, carried, conn, useVars, wish>>

RequestExit ==
    /\ app = "running" /\ app' = "ending"
    /\ ctx' = [a \in Attempts |-> IF ctx[a] = "live" THEN "canceled" ELSE ctx[a]]
    /\ UNCHANGED <<page, destinationVars, attempted, asked, maker, waiter, carried, conn,
                   installed, accepting, step, wish>>

LoopEnds ==
    /\ app = "ending" /\ step = "idle" /\ app' = "ended"
    /\ UNCHANGED <<page, destinationVars, attemptVars, installed, accepting, step, wish>>

CloseConnection ==
    /\ app = "ended" /\ app' = "closed" /\ conn' = Closed(installed)
    /\ UNCHANGED <<page, destinationVars, attempted, asked, ctx, maker, waiter, carried,
                   installed, accepting, step, wish>>

Attempt(a) ==
    \/ PrepareFails(a) \/ Build(a) \/ Withdraw(a)
    \/ Hand(a) \/ WaitOver(a) \/ Discard(a) \/ Queue(a)
    \/ Stale(a) \/ Failed(a) \/ Accept(a) \/ Expire(a)

RefreshNext ==
    \/ Start \/ Stop \/ Recheck \/ RefreshSession \/ Choose \/ Reload \/ HealthAccepted
    \/ \E a \in Attempts : Attempt(a)
    \/ Refused \/ Compared \/ Install \/ Adopt
    \/ RequestExit \/ LoopEnds \/ CloseConnection

\* Deadlines pass, the waiting goroutine runs, so does prepare once it offers its
\* result, and the event loop comes to what is queued. Nothing makes prepare return.
RefreshFairness ==
    /\ \A a \in Attempts :
          /\ WF_refreshVars(Expire(a))
          /\ WF_refreshVars(Withdraw(a) \/ Hand(a))
          /\ WF_refreshVars(WaitOver(a) \/ Discard(a) \/ Queue(a))
          /\ WF_refreshVars(Stale(a) \/ Failed(a) \/ Accept(a))
    /\ WF_refreshVars(Refused \/ Compared \/ Install \/ Adopt)

RefreshSpec == RefreshInit /\ [][RefreshNext]_refreshVars /\ RefreshFairness

(***************************************************************************)
(* Properties.                                                             *)
(***************************************************************************)
Holders(c) ==
    {h \in {"session", "maker", "waiter"} :
        \/ h = "session" /\ installed = c /\ app # "closed"
        \/ h = "waiter" /\ c \in carried
        \/ h = "maker" /\ c # 0 /\ maker[c] = "offering" /\ conn[c] # "none"}

\* An open connection has exactly one holder, and nobody holds a closed one: a connection that is late,
\* refused or replaced is closed, and never the one the application uses.
ConnectionsAreHeld ==
    \A c \in {0} \cup Attempts :
        Cardinality(Holders(c)) = IF conn[c] = "open" THEN 1 ELSE 0

\* A connection is installed only if it is the last thing the user asked for: nobody left the page,
\* checked again, reconnected again or chose another destination in the meantime.
InstalledIsWished == [][installed' # installed => installed' = wish]_refreshVars

\* Every reconnection is answered or dropped although prepare may hang, and every connection it
\* opened, however late, comes into use or is closed, unless the event loop ends first.
RefreshSettles ==
    \A a \in Attempts :
        /\ waiter[a] = "waiting" ~> waiter[a] = "done" \/ app \in {"ended", "closed"}
        /\ conn[a] = "open" ~>
              conn[a] = "closed" \/ installed = a \/ app \in {"ended", "closed"}
=============================================================================
