----------------------------- MODULE LogFollow -----------------------------
(***************************************************************************)
(* The owner loop of a log session, followPodLogs (internal/dao/log_follow.*)
(* go): it lists and watches Pods, keeps a source per container generation,*)
(* starts and cancels their workers and closes the channel the viewer reads*)
(* when the session, or a finite read, is over.                            *)
(*                                                                         *)
(* A Pod has one container and a generation (its UID and restart count);   *)
(* names are numbers, as the loop visits them in order. A Pod that stops   *)
(* matching the selection and matches again keeps its generation. What a   *)
(* worker reads, and the terminal flag it shares with the loop, is module  *)
(* LogSource; here it runs until it returns an outcome. Left out: the      *)
(* correlation of Kubernetes Events, and the markers other than source-    *)
(* join, source-leave and source-limit.                                    *)
(***************************************************************************)
EXTENDS Integers, Sequences, FiniteSets, SequencesExt

CONSTANTS
    Pods,           \* number of Pod names
    MaxLogPods,     \* maxLogPods: Pods tracked
    MaxLogSources,  \* maxLogSources: workers that run together
    MaxKnown,       \* 256: sources known
    MaxGeneration,  \* bound of the model: generations of a Pod
    MaxChanges      \* bound of the model: changes of the cluster

ASSUME FollowAssumption ==
    /\ {Pods, MaxLogPods, MaxLogSources, MaxGeneration} \subseteq Nat \ {0}
    /\ MaxKnown \in Nat /\ MaxChanges \in Nat

Names == 1..Pods
Keys == Names \X (1..MaxGeneration)

VARIABLES
    cluster,    \* per name: the Pod's generation, and whether it matches
    changes,    \* changes of the cluster so far
    finite,     \* opts.Head or opts.Previous
    watching,   \* the Pod watch is open
    events,     \* what it will deliver
    pods,       \* the Pods tracked, as last seen
    sources,    \* followedSource per key, see Unknown
    readers,    \* goroutines inside runLogSource, per key
    done,       \* the channel done
    active,     \* worker count of the loop
    capWarned,  \* source-limit was sent
    joined,     \* source-join markers sent less source-leave markers, per key
    owner,      \* the loop: "loop", "leaving", "closed"
    over        \* the session's context has ended

followVars == <<cluster, changes, finite, watching, events, pods, sources,
                readers, done, active, capWarned, joined, owner, over>>

clusterVars == <<cluster, changes, finite>>
watchVars == <<watching, events>>
sourceVars == <<sources, readers, active, capWarned, joined>>

\* "ended" is completed, denied or exhausted, which the loop treats alike; the
\* zero value of an outcome is sourceCanceled.
Outcomes == {"canceled", "ended"}

Unknown == [known |-> FALSE, running |-> FALSE, left |-> FALSE,
            cancelled |-> FALSE, outcome |-> "canceled"]

\* The keys the last reconcile found in the tracked Pods: s.wanted. Each change
\* of the tracked Pods is reconciled before the loop does anything else.
Wanted(view) == {<<n, view[n].gen>> : n \in DOMAIN view}

(***************************************************************************)
(* reconcile.                                                              *)
(***************************************************************************)
Known(st) == Cardinality({k \in Keys : st.sources[k].known})

\* Mutated: a source that was cancelled and has not returned is started again.
MayStartTwice(s) == ~s.known \/ (s.outcome = "canceled" /\ (s.cancelled \/ ~s.running))

\* Mutated: only new sources are started.
MayStartNew(s) == ~s.known

\* A known source is left alone while its worker runs, and once it has ended by
\* itself; one whose worker was cancelled and returned is resumed.
MayStart(s) == ~s.known \/ (~s.running /\ s.outcome = "canceled")

\* The visit of one container. The state and cursor of a known source are kept.
Visit(st, view, n) ==
    LET k == <<n, view[n].gen>>
        s == st.sources[k]
    IN  IF ~MayStart(s)
        THEN st
        ELSE IF st.active >= MaxLogSources \/ (~s.known /\ Known(st) >= MaxKnown)
        THEN [st EXCEPT !.capWarned = TRUE]
        ELSE [st EXCEPT !.active = @ + 1, !.joined[k] = @ + 1, !.readers[k] = @ + 1,
                        !.sources[k] = [s EXCEPT !.known = TRUE, !.running = TRUE,
                                                 !.left = FALSE, !.cancelled = FALSE]]

\* Sources no tracked Pod has: cancelled, and forgotten unless their worker runs.
Drop(st, view) ==
    LET gone == {k \in Keys : st.sources[k].known /\ k \notin Wanted(view)}
        Left(s) == IF s.running THEN [s EXCEPT !.cancelled = TRUE, !.left = TRUE] ELSE Unknown
    IN  [st EXCEPT !.sources = [k \in Keys |-> IF k \in gone THEN Left(@[k]) ELSE @[k]],
                   !.joined = [k \in Keys |-> IF k \in gone /\ ~st.sources[k].left
                                              THEN @[k] - 1 ELSE @[k]]]

\* The containers of the tracked Pods are visited in the order of their names.
Reconciled(st, view) ==
    LET visited[n \in 0..Pods] ==
            IF n = 0 THEN st
            ELSE IF n \in DOMAIN view THEN Visit(visited[n - 1], view, n) ELSE visited[n - 1]
    IN  Drop(visited[Pods], view)

State == [sources |-> sources, readers |-> readers, active |-> active,
          capWarned |-> capWarned, joined |-> joined]

\* Nobody reads the markers of a session that is over.
Becomes(st) ==
    /\ sources' = st.sources /\ readers' = st.readers /\ active' = st.active
    /\ capWarned' = st.capWarned
    /\ joined' = IF over THEN joined ELSE st.joined

Reconcile(st, view) == pods' = view /\ Becomes(Reconciled(st, view))

(***************************************************************************)
(* The cluster and the watch.                                              *)
(***************************************************************************)
Matching == {n \in Names : cluster[n].matches}

\* A Pod starts or stops matching, or is replaced; nobody looks at
\* what happens after the session.
Changed(p) ==
    {[p EXCEPT !.matches = ~@]}
        \cup (IF p.gen < MaxGeneration
              THEN {[p EXCEPT !.gen = @ + 1, !.matches = TRUE]} ELSE {})

ClusterChanges(n) ==
    /\ ~over /\ changes < MaxChanges /\ changes' = changes + 1
    /\ \E p \in Changed(cluster[n]) :
          /\ cluster' = [cluster EXCEPT ![n] = p]
          /\ events' = IF watching THEN Append(events, [name |-> n, pod |-> p]) ELSE events
    /\ UNCHANGED <<finite, watching, pods, sourceVars, done, owner, over>>

\* The watch ends, or answers with an error: its undelivered events are lost.
WatchBreaks ==
    /\ owner = "loop" /\ watching /\ watching' = FALSE /\ events' = <<>>
    /\ UNCHANGED <<clusterVars, pods, sourceVars, done, owner, over>>

WatchEvent ==
    /\ owner = "loop" /\ events # <<>>
    /\ events' = Tail(events)
    /\ LET e == Head(events)
           others == [n \in DOMAIN pods \ {e.name} |-> pods[n]]
           more == [n \in DOMAIN pods \union {e.name} |-> IF n = e.name THEN e.pod ELSE pods[n]]
           full == e.name \notin DOMAIN pods /\ Cardinality(DOMAIN pods) >= MaxLogPods
       IN  IF ~e.pod.matches THEN Reconcile(State, others)
           ELSE IF full
           THEN Reconcile([State EXCEPT !.capWarned = TRUE], pods)
           ELSE Reconcile(State, more)
    /\ UNCHANGED <<clusterVars, watching, done, owner, over>>

\* ingestList: the first Pods in the order of their names.
FirstPods == {n \in Matching : Cardinality({m \in Matching : m < n}) < MaxLogPods}

\* refresh lists, watches from the list's version, which may fail, reconciles.
Refresh(opened) ==
    /\ owner = "loop" /\ ~finite /\ ~over
    /\ watching' = opened /\ events' = <<>>
    /\ Reconcile([State EXCEPT !.capWarned = @ \/ FirstPods # Matching],
                 [n \in FirstPods |-> cluster[n]])
    /\ UNCHANGED <<clusterVars, done, owner, over>>

(***************************************************************************)
(* Workers.                                                                *)
(***************************************************************************)
\* A worker returns and reports; when the session is over nobody may listen.
WorkerReturns(k, outcome) ==
    /\ readers[k] > 0
    /\ outcome = "canceled" => sources[k].cancelled \/ over
    /\ readers' = [readers EXCEPT ![k] = @ - 1]
    /\ \/ Len(done) < MaxLogSources /\ done' = Append(done, [key |-> k, outcome |-> outcome])
       \/ over /\ UNCHANGED done
    /\ UNCHANGED <<clusterVars, watchVars, pods, sources, active, capWarned,
                   joined, owner, over>>

\* The loop's record of a source after its worker's report.
Recorded(r) ==
    [State EXCEPT !.active = @ - 1,
                  !.sources[r.key] =
                      IF r.key \in Wanted(pods)
                      THEN [@ EXCEPT !.running = FALSE, !.outcome = r.outcome]
                      ELSE Unknown]

Done ==
    /\ owner = "loop" /\ done # <<>> /\ done' = Tail(done)
    /\ LET st == IF sources[Head(done).key].known THEN Recorded(Head(done)) ELSE State
       IN  IF finite THEN Becomes(st) /\ UNCHANGED pods ELSE Reconcile(st, pods)
    /\ UNCHANGED <<clusterVars, watchVars, owner, over>>

(***************************************************************************)
(* The end.                                                                *)
(***************************************************************************)
\* The viewer leaves, or the session is replaced.
SessionEnds ==
    /\ ~over /\ over' = TRUE
    /\ UNCHANGED <<clusterVars, watchVars, pods, sourceVars, done, owner>>

\* The loop returns: its context ends for all workers.
OwnerReturns ==
    /\ owner = "loop" /\ (over \/ (finite /\ active = 0))
    /\ owner' = "leaving" /\ over' = TRUE
    /\ UNCHANGED <<clusterVars, watchVars, pods, sourceVars, done>>

Close ==
    /\ owner = "leaving" /\ \A k \in Keys : readers[k] = 0
    /\ owner' = "closed"
    /\ UNCHANGED <<clusterVars, watchVars, pods, sourceVars, done, over>>

(***************************************************************************)
(* The system.                                                             *)
(***************************************************************************)
NoCounts == [k \in Keys |-> 0]

\* The first list was read and reconciled; the watch may have failed.
FollowInit ==
    /\ cluster \in [Names -> [gen : {1}, matches : BOOLEAN]]
    /\ changes = 0 /\ finite \in BOOLEAN
    /\ watching \in BOOLEAN /\ ~(finite /\ watching) /\ events = <<>>
    /\ pods = [n \in FirstPods |-> cluster[n]]
    /\ LET st == Reconciled(
               [sources |-> [k \in Keys |-> Unknown], readers |-> NoCounts, active |-> 0,
                capWarned |-> FirstPods # Matching, joined |-> NoCounts], pods)
       IN  /\ sources = st.sources /\ readers = st.readers /\ active = st.active
           /\ capWarned = st.capWarned /\ joined = st.joined
    /\ done = <<>> /\ owner = "loop" /\ over = FALSE

FollowNext ==
    \/ \E n \in Names : ClusterChanges(n)
    \/ WatchBreaks \/ WatchEvent
    \/ \E opened \in BOOLEAN : Refresh(opened)
    \/ \E k \in Keys, o \in Outcomes : WorkerReturns(k, o)
    \/ Done \/ SessionEnds \/ OwnerReturns \/ Close

\* The loop handles what it selects on, and its tickers find a server that sometimes
\* answers. A worker that was cancelled, or whose read is finite, returns (module
\* LogSource); nothing makes the others return.
FollowFairness ==
    /\ WF_followVars(WatchEvent) /\ WF_followVars(Done)
    /\ WF_followVars(OwnerReturns) /\ WF_followVars(Close)
    /\ WF_followVars(Refresh(TRUE))
    /\ \A k \in Keys : WF_followVars(
          /\ over \/ finite \/ sources[k].cancelled
          /\ \E o \in Outcomes : WorkerReturns(k, o))

FollowSpec == FollowInit /\ [][FollowNext]_followVars /\ FollowFairness

(***************************************************************************)
(* Properties.                                                             *)
(***************************************************************************)
\* A source has at most one reader and one pending report, the loop counts exactly
\* these, there is room in done for all of them, and none may send when the channel
\* is closed (a send would panic), whatever leaves, returns and restarts meanwhile.
WorkersAreCounted ==
    /\ \A k \in Keys :
          LET reports == Cardinality({i \in DOMAIN done : done[i].key = k})
          IN  IF over THEN readers[k] + reports <= 1
              ELSE readers[k] + reports = IF sources[k].running THEN 1 ELSE 0
    /\ active = Cardinality({k \in Keys : sources[k].running})
    /\ active <= MaxLogSources
    /\ owner = "closed" => \A k \in Keys : readers[k] = 0

\* While a session lasts no container of a tracked Pod is forgotten: it is read, its
\* read has ended by itself, or the viewer was told that sources are omitted. The
\* viewer is told of the comings and goings of each in turn, joining first, also
\* when it returns before its cancelled worker did.
NothingIsForgotten ==
    ~over =>
        /\ \A k \in Wanted(pods) :
              \/ sources[k].running
              \/ (sources[k].known /\ sources[k].outcome # "canceled")
              \/ capWarned
        /\ \A k \in Keys : joined[k] \in {0, 1}

\* Between the loop, its workers and the viewer every source is accounted for.
SourcesAreAccounted == WorkersAreCounted /\ NothingIsForgotten

Served(n) ==
    LET s == sources[<<n, cluster[n].gen>>]
    IN  \/ s.running /\ ~s.cancelled
        \/ s.known /\ ~s.running /\ s.outcome # "canceled"

\* When the cluster comes to rest, each Pod that matches is read in its present
\* generation, or its read ended by itself, or sources are known to be omitted;
\* through broken watches, and when it left and came back. A finite read, and a
\* session that is over, close the channel.
FollowSettles ==
    /\ <>[](owner = "loop" /\ ~finite) =>
            <>[](\A n \in Matching : Served(n) \/ capWarned)
    /\ (finite \/ over) ~> owner = "closed"
=============================================================================
