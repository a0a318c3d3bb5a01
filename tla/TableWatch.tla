----------------------------- MODULE TableWatch -----------------------------
(***************************************************************************)
(* A resource table and the page that shows it: internal/model/table.go,   *)
(* internal/model1/table_data.go, internal/view/browser.go and             *)
(* browser_session.go. An updater goroutine per start of the page, and the *)
(* UI thread itself, refresh the table under a flag that drops whoever     *)
(* comes second; what they read goes to the listeners they copied, and a   *)
(* listener queues a callback that draws it. Callbacks reach the event     *)
(* loop through goroutines of their own, in any order.                     *)
(*                                                                         *)
(* The user leaves and returns, chooses another namespace or filters by    *)
(* another label selector, and a reconnected session gives the page a new  *)
(* table. Rows stand for the query that read them; a table without rows    *)
(* draws an empty page or nothing, which depends on headers and views left *)
(* out. A start that stops the page first counts as one new generation.    *)
(***************************************************************************)
EXTENDS Integers, FiniteSets

CONSTANTS
    Namespaces,
    Selectors,
    Everything,     \* the selector that filters nothing
    MaxGenerations, \* bound of the model: starts and stops of the page
    MaxSessions,    \* bound of the model: tables the page is given
    MaxChoices,     \* bound of the model: queries the user asks for
    MaxFailures     \* bound of the model: lists that fail

ASSUME TableAssumption ==
    /\ Everything \in Selectors /\ Namespaces # {}
    /\ {MaxGenerations, MaxSessions, MaxChoices, MaxFailures} \subseteq Nat
    /\ MaxSessions > 0

Generations == 1..MaxGenerations
Sessions == 1..MaxSessions

Cleared == [session |-> 0, ns |-> Everything, sel |-> Everything]

VARIABLES
    page,       \* Browser: started, watchGeneration, the session of its model
    choices,    \* queries asked for so far
    failures,   \* lists that failed so far
    ns,         \* per table: TableData.namespace
    sel,        \* its labelSelector
    rows,       \* the query that read its rows, or Cleared
    listeners,  \* the generations that listen to it
    update,     \* the refresh that holds inUpdate, with what it read and whom it tells
    updater,    \* per generation: "none", "waiting", "refreshing" or "gone"
    sub,        \* the table it watches
    ui,         \* what the UI thread is inside: "idle", "watching" (the first refresh
                \* of a start), "accepting" (the refresh of a filter) or "accepted"
    queue,      \* callbacks on their way to the event loop
    shown       \* the rows on the screen

pageVars == <<page, choices>>
dataVars == <<ns, sel, rows>>
tableVars == <<page, choices, failures, ns, sel, rows, listeners, update, updater, sub,
               ui, queue, shown>>

Idle == [by |-> 0, step |-> "idle", got |-> Cleared, header |-> Everything, to |-> {}]

TableInit ==
    /\ page = [started |-> FALSE, generation |-> 0, session |-> 1]
    /\ choices = 0 /\ failures = 0
    /\ ns = [s \in Sessions |-> CHOOSE n \in Namespaces : TRUE]
    /\ sel = [s \in Sessions |-> Everything]
    /\ rows = [s \in Sessions |-> Cleared]
    /\ listeners = [s \in Sessions |-> {}]
    /\ update = [s \in Sessions |-> Idle]
    /\ updater = [g \in Generations |-> "none"]
    /\ sub = [g \in Generations |-> 1]
    /\ ui = "idle" /\ queue = {} /\ shown = Cleared

-----------------------------------------------------------------------------
(* Table.refresh, step by step: by an updater, or by the UI thread (0).    *)

Begun(by) == [Idle EXCEPT !.by = by, !.step = "begun"]

\* The context of a subscription ends when its page is stopped or started again.
Live(g) == page.started /\ page.generation = g

\* The flag is free: the updater's time has come. While it is taken the update is
\* dropped and nothing changes. backoff.Retry tries before it looks at the context.
Tick(g) ==
    /\ updater[g] = "waiting"
    /\ update[sub[g]] = Idle
    /\ update' = [update EXCEPT ![sub[g]] = Begun(g)]
    /\ updater' = [updater EXCEPT ![g] = "refreshing"]
    /\ UNCHANGED <<pageVars, failures, dataVars, listeners, sub, ui, queue, shown>>

UpdaterLeaves(g) ==
    /\ updater[g] = "waiting" /\ ~ Live(g)
    /\ updater' = [updater EXCEPT ![g] = "gone"]
    /\ UNCHANGED <<pageVars, failures, dataVars, listeners, update, sub, ui, queue, shown>>

\* Table.list: namespace and selector are those of the table when it is asked.
List(s) ==
    /\ update[s].step = "begun"
    /\ update' = [update EXCEPT
           ![s] = [@ EXCEPT !.step = "listed",
                            !.got = [session |-> s, ns |-> ns[s], sel |-> sel[s]]]]
    /\ UNCHANGED <<pageVars, failures, dataVars, listeners, updater, sub, ui, queue, shown>>

\* TableData.Render: the rows are replaced; the namespace for the header is read.
Render(s) ==
    /\ update[s].step = "listed"
    /\ rows' = [rows EXCEPT ![s] = update[s].got]
    /\ update' = [update EXCEPT ![s] = [@ EXCEPT !.step = "rendered", !.header = ns[s]]]
    /\ UNCHANGED <<pageVars, failures, ns, sel, listeners, updater, sub, ui, queue, shown>>

\* SetHeader writes that namespace back.
SetHeader(s) ==
    /\ update[s].step = "rendered"
    /\ ns' = [ns EXCEPT ![s] = update[s].header]
    /\ update' = [update EXCEPT ![s] = [@ EXCEPT !.step = "titled"]]
    /\ UNCHANGED <<pageVars, failures, sel, rows, listeners, updater, sub, ui, queue, shown>>

Peek(s) ==
    /\ update[s].step = "titled"
    /\ update' = [update EXCEPT ![s] = [@ EXCEPT !.step = "peeked", !.got = rows[s]]]
    /\ UNCHANGED <<pageVars, failures, dataVars, listeners, updater, sub, ui, queue, shown>>

\* fireTableChanged copies the listeners under the lock and calls them without it.
CopyListeners(s) ==
    /\ update[s].step = "peeked"
    /\ update' = [update EXCEPT ![s] = [@ EXCEPT !.step = "telling", !.to = listeners[s]]]
    /\ UNCHANGED <<pageVars, failures, dataVars, listeners, updater, sub, ui, queue, shown>>

\* The refresh is over: the flag is cleared and whoever ran it goes on.
Release(s, then) ==
    /\ update' = [update EXCEPT ![s] = Idle]
    /\ IF update[s].by = 0
         THEN /\ updater' = IF ui = "watching"
                              THEN [updater EXCEPT ![page.generation] = then] ELSE updater
              /\ ui' = IF ui = "watching" THEN "idle" ELSE "accepted"
         ELSE updater' = [updater EXCEPT ![update[s].by] = then] /\ UNCHANGED ui

\* Mutated: a callback reads generation and table of the page when it is told.
CallbacksBorrowed(s) ==
    IF page.started
      THEN { [from |-> page.generation, of |-> page.session, rows |-> update[s].got] :
                g \in update[s].to }
      ELSE {}

\* browserWatchListener: a callback that carries the generation and the table of the
\* listener. Nothing is queued once the page was stopped.
Callbacks(s) ==
    IF page.started
      THEN { [from |-> g, of |-> s, rows |-> update[s].got] : g \in update[s].to }
      ELSE {}

Tell(s) ==
    /\ update[s].step = "telling"
    /\ \/ queue' = queue \union Callbacks(s)
       \/ update[s].got = Cleared /\ queue' = queue
    /\ Release(s, "waiting")
    /\ UNCHANGED <<pageVars, failures, dataVars, listeners, sub, shown>>

\* Mutated: the flag is cleared at the end of a refresh that succeeds.
ListFailsFlagged(s) ==
    /\ update[s].step = "begun" /\ failures < MaxFailures
    /\ failures' = failures + 1
    /\ update[s].by # 0
    /\ update' = [update EXCEPT ![s] = [@ EXCEPT !.step = "flagged"]]
    /\ updater' = [updater EXCEPT ![update[s].by] = "waiting"]
    /\ UNCHANGED <<pageVars, dataVars, listeners, sub, ui, queue, shown>>

\* The list failed: an updater tries again until two minutes of it were in vain; a
\* start whose first refresh failed has no updater.
ListFails(s) ==
    /\ update[s].step = "begun" /\ failures < MaxFailures
    /\ failures' = failures + 1
    /\ \E then \in IF update[s].by = 0 THEN {"gone"} ELSE {"waiting", "gone"} :
          Release(s, then)
    /\ UNCHANGED <<pageVars, dataVars, listeners, sub, queue, shown>>

-----------------------------------------------------------------------------
(* The UI thread.                                                          *)

Table == page.session

\* Browser.Start: stop, listen, and refresh once before the updater is started. A
\* refresh that is dropped counts as done.
Subscribe(s) ==
    LET g == page.generation + 1 IN
    /\ g \in Generations
    /\ page' = [started |-> TRUE, generation |-> g, session |-> s]
    /\ listeners' = [listeners EXCEPT ![Table] = {}, ![s] = {g}]
    /\ sub' = [sub EXCEPT ![g] = s]
    /\ IF update[s] = Idle
         THEN /\ update' = [update EXCEPT ![s] = Begun(0)]
              /\ ui' = "watching" /\ UNCHANGED updater
         ELSE /\ updater' = [updater EXCEPT ![g] = "waiting"]
              /\ ui' = "idle" /\ UNCHANGED update

Start ==
    /\ ui = "idle" /\ ~ page.started
    /\ Subscribe(Table)
    /\ UNCHANGED <<choices, failures, dataVars, queue, shown>>

\* Another page is put on top, or this one is popped.
Stop ==
    /\ ui = "idle" /\ page.started /\ page.generation < MaxGenerations
    /\ page' = [page EXCEPT !.started = FALSE, !.generation = @ + 1]
    /\ listeners' = [listeners EXCEPT ![Table] = {}]
    /\ UNCHANGED <<choices, failures, dataVars, update, updater, sub, ui, queue, shown>>

\* switchNamespaceCmd: Reset the table to the namespace, then start again.
SwitchNamespace(n) ==
    /\ ui = "idle" /\ page.started /\ n # ns[Table]
    /\ choices < MaxChoices /\ choices' = choices + 1
    /\ ns' = [ns EXCEPT ![Table] = n]
    /\ rows' = [rows EXCEPT ![Table] = Cleared]
    /\ Subscribe(Table)
    /\ UNCHANGED <<failures, sel, queue, shown>>

\* BufferActive, the end of editing a filter: the selector changed, refresh.
AcceptFilter(x) ==
    /\ ui = "idle" /\ page.started /\ x # sel[Table]
    /\ page.generation < MaxGenerations
    /\ choices < MaxChoices /\ choices' = choices + 1
    /\ sel' = [sel EXCEPT ![Table] = x]
    /\ IF update[Table] = Idle
         THEN update' = [update EXCEPT ![Table] = Begun(0)] /\ ui' = "accepting"
         ELSE ui' = "accepted" /\ UNCHANGED update
    /\ UNCHANGED <<page, failures, ns, rows, listeners, updater, sub, queue, shown>>

\* Its callback draws whatever the table holds now, for whoever is there when it runs.
Accepted == queue' = queue \union {[from |-> 0, of |-> Table, rows |-> rows[Table]]}

\* filterCmd goes on: a label selector starts the page again, anything else redraws it.
RestartFiltered ==
    /\ ui = "accepted" /\ sel[Table] # Everything
    /\ Accepted
    /\ Subscribe(Table)
    /\ UNCHANGED <<choices, failures, dataVars, shown>>

RedrawUnfiltered ==
    /\ ui = "accepted" /\ sel[Table] = Everything
    /\ Accepted
    /\ ui' = "idle"
    /\ shown' = IF rows[Table] = Cleared THEN shown ELSE rows[Table]
    /\ UNCHANGED <<pageVars, failures, dataVars, listeners, update, updater, sub>>

\* replaceSession stops the page, gives it a fresh table that asks the same, and
\* starts it again if it is on top.
Rebind ==
    /\ ui = "idle" /\ page.session < MaxSessions
    /\ LET s == page.session + 1 IN
       /\ ns' = [ns EXCEPT ![s] = ns[Table]]
       /\ sel' = [sel EXCEPT ![s] = sel[Table]]
       /\ IF page.started
            THEN Subscribe(s)
            ELSE /\ page' = [page EXCEPT !.session = s]
                 /\ UNCHANGED <<listeners, update, updater, sub, ui>>
    /\ UNCHANGED <<choices, failures, rows, queue, shown>>

\* watchCurrent compares generation and table; the callback of a filter does not.
Current(c) == c.from = 0 \/ (c.from = page.generation /\ c.of = page.session)

Draw(c) ==
    /\ ui = "idle" /\ c \in queue
    /\ queue' = queue \ {c}
    /\ shown' = IF Current(c) THEN c.rows ELSE shown
    /\ UNCHANGED <<pageVars, failures, dataVars, listeners, update, updater, sub, ui>>

-----------------------------------------------------------------------------

Refreshing(s) ==
    \/ List(s)
    \/ Render(s)
    \/ SetHeader(s)
    \/ Peek(s)
    \/ CopyListeners(s)
    \/ Tell(s)

TableNext ==
    \/ \E g \in Generations : Tick(g) \/ UpdaterLeaves(g)
    \/ \E s \in Sessions : Refreshing(s) \/ ListFails(s)
    \/ Start
    \/ Stop
    \/ \E n \in Namespaces : SwitchNamespace(n)
    \/ \E x \in Selectors : AcceptFilter(x)
    \/ RestartFiltered
    \/ RedrawUnfiltered
    \/ Rebind
    \/ \E c \in queue : Draw(c)

\* A refresh that began goes on, the timer of an updater fires, an updater notices the
\* end of its context, and the event loop runs callbacks. The user does nothing of
\* necessity, and the cluster need not answer well.
TableFairness ==
    /\ \A s \in Sessions : WF_tableVars(Refreshing(s))
    /\ \A g \in Generations : WF_tableVars(Tick(g)) /\ WF_tableVars(UpdaterLeaves(g))
    /\ WF_tableVars(RestartFiltered \/ RedrawUnfiltered)
    /\ WF_tableVars(\E c \in queue : Draw(c))

TableSpec == TableInit /\ [][TableNext]_tableVars /\ TableFairness

-----------------------------------------------------------------------------
(* Properties.                                                             *)

\* "A stopped worker cannot borrow a later subscription's generation even if its
\* listener was copied just before navigation or a reconnect removed it": once rows of
\* the reconnected session were on the screen, no refresh brings those of the session
\* before back. Only the callback of an accepted filter, which is bound to no
\* generation, could.
OldSessionStaysAway ==
    [][shown'.session < shown.session =>
          shown' = Cleared \/ \E c \in queue \ queue' : c.from = 0]_tableVars

\* However refreshes were dropped, overtaken or left behind by stops, starts, changes
\* of the query and reconnections: a page that is watched comes to show what its table
\* is asked for.
Watched ==
    /\ page.started
    /\ ui # "idle" \/ updater[page.generation] \in {"waiting", "refreshing"}

WatchedIsShown ==
    []<>(Watched => shown = [session |-> Table, ns |-> ns[Table], sel |-> sel[Table]])
=============================================================================
