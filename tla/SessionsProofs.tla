--------------------------- MODULE SessionsProofs ----------------------------
(***************************************************************************)
(* Proofs about SessionRegistry, for every number of launches and every    *)
(* limit, and about SessionRefresh, for any number of reconnections, of    *)
(* visits of the page and of changes of the destination.                   *)
(*                                                                         *)
(* The registry's invariant adds to its properties what a session's        *)
(* record, its callback's Once and the shutdown know of each other.        *)
(*                                                                         *)
(* That a connection has one holder is not inductive: it takes that a      *)
(* result is in the waiter's hands only after its maker has left it, and   *)
(* that the one being installed stays there until it is. That the last     *)
(* wish is installed takes that the generations of the page tell whether   *)
(* anything happened since an attempt began.                               *)
(***************************************************************************)
EXTENDS SessionRegistry, SessionRefresh, FiniteSetTheorems, WellFoundedInduction,
        TLAPS

(***************************************************************************)
(* The registry of local sessions.                                         *)
(***************************************************************************)

\* The parts of a session's record that belong together.
RecordInv ==
    /\ retained \subseteq Launched
    /\ finished \subseteq Launched
    /\ cancelling \subseteq Launched
    /\ snapshot \subseteq Launched
    /\ \A h \in Ids : h \notin Launched => state[h] = "none"
    /\ \A h \in Active :
          state[h] \in {"starting", "running", "stopping", "unknown"}

\* The callback is entered once, on behalf of the caller that found the Once
\* unused.
CallbackInv ==
    \A h \in Ids :
        /\ once[h] \in {"unused", "locked"} => invoked[h] = 0
        /\ invoked[h] <= 1
        /\ once[h] # "unused" => h \in Launched

\* What Shutdown knows about the sessions it passed or marked.
ShutdownInv ==
    /\ ~ closed => shutdown = "idle"
    /\ closed => shutdown # "idle"
    /\ marking \subseteq snapshot
    /\ shutdown # "marking" => marking = {}
    /\ shutdown \in {"waiting", "clean"} => snapshot \ waiting \subseteq finished
    /\ shutdown = "clean" => waiting = {}
    /\ shutdown = "marking" =>
          \A h \in snapshot \ marking : h \in finished \/ state[h] = "unknown"
    /\ shutdown = "deadline" =>
          \A h \in snapshot : h \in finished \/ state[h] = "unknown"

IInv ==
    /\ TypeOK
    /\ RecordInv
    /\ OwnedUntilFinished
    /\ CallbackInv
    /\ ShutdownInv

-----------------------------------------------------------------------------
\* Trimming returns some of its handles and every unfinished one of them.
LEMMA TrimKeepsUnfinished ==
    ASSUME NEW handles, NEW done
    PROVE  /\ Trim(handles, done) \subseteq handles
           /\ handles \ done \subseteq Trim(handles, done)
BY DEF Trim

\* The least element of a non-empty set of handles exists, so awaiting and
\* marking in launch order always has a next handle.
LEMMA FirstOfIsLeast ==
    ASSUME NEW handles \in SUBSET Ids, handles # {}
    PROVE  /\ FirstOf(handles) \in handles
           /\ \A g \in handles : FirstOf(handles) <= g
<1>1. handles \subseteq Nat
  BY ConstantsAssumption DEF Ids
<1>2. PICK h \in handles : \A g \in handles : ~ (<<g, h>> \in OpToRel(<, Nat))
  BY <1>1, NatLessThanWellFounded, WFMin
<1>3. \A g \in handles : h <= g
  <2>1. SUFFICES ASSUME NEW g \in handles, g < h PROVE FALSE
    BY <1>1
  <2>2. <<g, h>> \in OpToRel(<, Nat)
    BY <1>1, <2>1 DEF OpToRel
  <2>3. QED
    BY <1>2, <2>2
<1>4. QED
  BY <1>2, <1>3 DEF FirstOf

\* One entry of a function changes and the others stay.
LEMMA ExceptAt ==
    ASSUME NEW D, NEW R, NEW f \in [D -> R], NEW d \in D, NEW v \in R, NEW g,
           g = [f EXCEPT ![d] = v]
    PROVE  /\ g \in [D -> R]
           /\ g[d] = v
           /\ \A e \in D : e # d => g[e] = f[e]
OBVIOUS

-----------------------------------------------------------------------------
LEMMA InitIInv == Init => IInv
<1> SUFFICES ASSUME Init PROVE IInv
  OBVIOUS
<1>1. Launched = {}
  BY DEF Init, Launched
<1>2. TypeOK
  <2>1. sequence \in 0 .. MaxLaunches
    BY ConstantsAssumption DEF Init
  <2>2. state \in [Ids -> States]
    BY DEF Init, States
  <2>3. once \in [Ids -> OnceStates] /\ invoked \in [Ids -> Nat]
    BY DEF Init, OnceStates
  <2>4. QED
    BY <2>1, <2>2, <2>3 DEF Init, TypeOK, ShutdownStates
<1>3. RecordInv /\ OwnedUntilFinished
  BY <1>1 DEF Init, RecordInv, OwnedUntilFinished, Active
<1>4. CallbackInv /\ ShutdownInv
  BY DEF Init, CallbackInv, ShutdownInv
<1>5. QED
  BY <1>2, <1>3, <1>4 DEF IInv

LEMMA AddIInv ==
    ASSUME IInv, Add
    PROVE  IInv'
<1> DEFINE new == sequence + 1
<1>1. /\ retained' \subseteq retained \union {new}
      /\ (retained \union {new}) \ finished \subseteq retained'
  BY TrimKeepsUnfinished DEF Add
<1>2. /\ new \in Ids
      /\ new \notin Launched
      /\ Launched' = Launched \union {new}
      /\ sequence' \in 0 .. MaxLaunches
  BY ConstantsAssumption DEF IInv, TypeOK, Add, Ids, Launched
<1>3. /\ state' = [state EXCEPT ![new] = "starting"]
      /\ state'[new] = "starting"
      /\ \A h \in Ids : h # new => state'[h] = state[h]
  BY <1>2 DEF IInv, TypeOK, Add
<1> HIDE DEF new
<1>4. finished' = finished /\ new \notin finished
  BY <1>2 DEF IInv, RecordInv, Add
<1>5. TypeOK'
  <2>1. state' \in [Ids -> States]
    BY <1>2, <1>3 DEF IInv, TypeOK, States
  <2>2. \A h \in finished' : state'[h] \in FinalStates
    BY <1>3, <1>4 DEF IInv, TypeOK
  <2>3. QED
    BY <1>1, <1>2, <2>1, <2>2 DEF IInv, TypeOK, Add, cancelVars, shutdownVars
<1>6. RecordInv'
  <2>1. Active' = Active \union {new}
    BY <1>2, <1>4 DEF Active
  <2>2. \A h \in Active' :
           state'[h] \in {"starting", "running", "stopping", "unknown"}
    BY <1>2, <1>3, <2>1 DEF IInv, RecordInv, Active, Launched, TypeOK, Ids
  <2>3. \A h \in Ids : h \notin Launched' => state'[h] = "none"
    BY <1>2, <1>3 DEF IInv, RecordInv
  <2>4. QED
    BY <1>1, <1>2, <1>4, <2>2, <2>3
       DEF IInv, RecordInv, Add, cancelVars, shutdownVars
<1>7. OwnedUntilFinished'
  BY <1>1, <1>2, <1>4 DEF IInv, OwnedUntilFinished, Add, Active
<1>8. CallbackInv'
  BY <1>2 DEF IInv, CallbackInv, Add, cancelVars
<1>9. ShutdownInv'
  BY DEF IInv, ShutdownInv, Add, shutdownVars
<1>10. QED
  BY <1>5, <1>6, <1>7, <1>8, <1>9 DEF IInv

LEMMA FinishIInv ==
    ASSUME IInv, NEW h \in Ids, NEW reported \in Reports, Finish(h, reported)
    PROVE  IInv'
<1> USE ConstantsAssumption
<1>1. /\ retained' \subseteq retained
      /\ retained \ finished' \subseteq retained'
  BY TrimKeepsUnfinished DEF Finish
<1>2. TypeOK'
  BY <1>1 DEF IInv, TypeOK, Finish, Ids, Launched, States, FinalStates,
              cancelVars, shutdownVars
<1>3. RecordInv'
  <2>1. Launched' = Launched /\ Active' = Active \ {h}
    BY DEF Finish, Launched, Active
  <2>2. \A g \in Ids : g # h => state'[g] = state[g]
    BY DEF IInv, TypeOK, Finish
  <2>3. Active' \subseteq Ids
    BY <2>1 DEF IInv, TypeOK, Active, Launched, Ids
  <2>4. QED
    BY <1>1, <2>1, <2>2, <2>3
       DEF IInv, RecordInv, Finish, cancelVars, shutdownVars
<1>4. OwnedUntilFinished'
  BY <1>1 DEF IInv, OwnedUntilFinished, Finish, Launched, Active, shutdownVars
<1>5. CallbackInv'
  BY DEF IInv, CallbackInv, Finish, Launched, cancelVars
<1>6. ShutdownInv'
  BY DEF IInv, TypeOK, ShutdownInv, Finish, shutdownVars
<1>7. QED
  BY <1>2, <1>3, <1>4, <1>5, <1>6 DEF IInv

\* The other steps of a handle leave the set of sessions alone.
LEMMA HandleIInv ==
    ASSUME IInv, NEW h \in Ids, Handle(h)
    PROVE  IInv'
<1> USE ConstantsAssumption
        DEF IInv, TypeOK, RecordInv, OwnedUntilFinished, CallbackInv,
            ShutdownInv, Launched, Active, States, FinalStates, OnceStates,
            cancelVars, shutdownVars
<1>1. CASE RequestCancel(h)
  BY <1>1 DEF RequestCancel
<1>2. CASE Running(h)
  BY <1>2 DEF Running
<1>3. CASE \E reported \in Reports : Finish(h, reported)
  BY <1>3, FinishIInv
<1>4. CASE CancelLocked(h)
  <2>1. CASE h \in finished
    BY <1>4, <2>1 DEF CancelLocked
  <2>2. CASE h \notin finished
    <3>1. state' \in [Ids -> States]
      BY <1>4, <2>2 DEF CancelLocked
    <3>2. \A g \in Ids :
             state'[g] = state[g] \/ (g = h /\ state'[g] = "stopping")
      <4> DEFINE next == IF state[h] = "unknown" THEN state[h] ELSE "stopping"
      <4>1. state' = [state EXCEPT ![h] = next]
        BY <1>4, <2>2 DEF CancelLocked
      <4>2. next \in States /\ (next = state[h] \/ next = "stopping")
        OBVIOUS
      <4>3. state \in [Ids -> States]
        OBVIOUS
      <4> HIDE DEF next, States, IInv
      <4>4. state'[h] = next /\ \A g \in Ids : g # h => state'[g] = state[g]
        BY <4>1, <4>2, <4>3, ExceptAt
      <4>5. QED
        BY <4>2, <4>4
    <3>3. h \in Active /\ Active' = Active
      BY <1>4, <2>2 DEF CancelLocked
    <3>4. TypeOK'
      BY <1>4, <2>2, <3>1, <3>2 DEF CancelLocked
    <3>5. RecordInv' /\ OwnedUntilFinished'
      BY <1>4, <2>2, <3>2 DEF CancelLocked, Ids
    <3>6. CallbackInv'
      BY <1>4, <2>2 DEF CancelLocked
    <3>7. ShutdownInv'
      BY <1>4, <2>2 DEF CancelLocked
    <3>8. QED
      BY <3>4, <3>5, <3>6, <3>7
  <2>3. QED
    BY <2>1, <2>2
<1>5. CASE EnterCallback(h)
  BY <1>5 DEF EnterCallback
<1>6. CASE LeaveCallback(h)
  BY <1>6 DEF LeaveCallback
<1>7. CASE CancelAgain(h)
  BY <1>7 DEF CancelAgain
<1>8. QED
  BY <1>1, <1>2, <1>3, <1>4, <1>5, <1>6, <1>7 DEF Handle

LEMMA ShutdownIInv ==
    ASSUME IInv, Shutdown
    PROVE  IInv'
<1> USE ConstantsAssumption
        DEF IInv, TypeOK, RecordInv, OwnedUntilFinished, CallbackInv,
            ShutdownInv, Launched, Active, States, FinalStates, ShutdownStates,
            cancelVars
<1>1. CASE ShutdownBegin
  BY <1>1 DEF ShutdownBegin
<1>2. CASE ShutdownAwait
  BY <1>2, FirstOfIsLeast DEF ShutdownAwait
<1>3. CASE ShutdownClean
  BY <1>3 DEF ShutdownClean
<1>4. CASE ShutdownExpire
  BY <1>4 DEF ShutdownExpire
<1>5. CASE ShutdownMark
  <2>1. FirstOf(marking) \in marking
    BY <1>5, FirstOfIsLeast DEF ShutdownMark
  <2>2. /\ state' \in [Ids -> States]
        /\ \A g \in Ids :
              \/ state'[g] = state[g]
              \/ /\ g = FirstOf(marking)
                 /\ g \notin finished
                 /\ state'[g] = "unknown"
    <3> DEFINE first == FirstOf(marking)
               next == IF first \in finished THEN state[first] ELSE "unknown"
    <3>1. state' = [state EXCEPT ![first] = next]
      BY <1>5 DEF ShutdownMark
    <3>2. first \in Ids
      BY <2>1
    <3>3. next \in States
      BY <3>2
    <3>4. \/ next = state[first]
          \/ first \notin finished /\ next = "unknown"
      OBVIOUS
    <3>5. state \in [Ids -> States]
      OBVIOUS
    <3> HIDE DEF first, next, States, IInv
    <3>6. /\ state' \in [Ids -> States]
          /\ state'[first] = next
          /\ \A g \in Ids : g # first => state'[g] = state[g]
      BY <3>1, <3>2, <3>3, <3>5, ExceptAt
    <3>7. QED
      BY <3>4, <3>6 DEF first
  <2>3. TypeOK'
    <3>1. \A h \in finished' : state'[h] \in FinalStates
      BY <1>5, <2>2 DEF ShutdownMark
    <3>2. QED
      BY <1>5, <2>2, <3>1 DEF ShutdownMark
  <2>8. RecordInv'
    <3>1. FirstOf(marking) \in Launched
      BY <2>1
    <3>2. Active' = Active /\ Active \subseteq Ids
      BY <1>5 DEF ShutdownMark, Ids
    <3>3. \A h \in Active' :
             state'[h] \in {"starting", "running", "stopping", "unknown"}
      BY <2>2, <3>2
    <3>4. QED
      BY <1>5, <2>2, <3>1, <3>3 DEF ShutdownMark
  <2>4. OwnedUntilFinished' /\ CallbackInv'
    BY <1>5 DEF ShutdownMark
  <2>5. state'[FirstOf(marking)] = "unknown" \/ FirstOf(marking) \in finished
    BY <1>5, <2>1 DEF ShutdownMark
  <2>6. ShutdownInv'
    BY <1>5, <2>1, <2>2, <2>5 DEF ShutdownMark
  <2>7. QED
    BY <2>3, <2>8, <2>4, <2>6
<1>6. CASE ShutdownExpired
  BY <1>6 DEF ShutdownExpired
<1>7. QED
  BY <1>1, <1>2, <1>3, <1>4, <1>5, <1>6 DEF Shutdown

LEMMA StutterIInv == IInv /\ UNCHANGED vars => IInv'
BY DEF IInv, TypeOK, RecordInv, OwnedUntilFinished, CallbackInv, ShutdownInv,
       Launched, Active, vars, cancelVars, shutdownVars

LEMMA StepIInv == IInv /\ [Next]_vars => IInv'
BY AddIInv, HandleIInv, ShutdownIInv, StutterIInv DEF Next

\* The strengthening is an invariant: the facts about records, callbacks and
\* Shutdown hold together although none of them is inductive alone.
THEOREM InductiveInvariant == Spec => []IInv
BY InitIInv, StepIInv, PTL DEF Spec

-----------------------------------------------------------------------------
(* What follows from it.                                                   *)

\* Every variable keeps its type, and a finished record holds a final state.
THEOREM TypeCorrect == Spec => []TypeOK
BY InductiveInvariant, PTL DEF IInv

\* No interleaving of launches, endings and trimming loses an unfinished
\* session, and closing the registry leaves none outside of Shutdown's hands.
THEOREM OwnedUntilFinishedHolds == Spec => []OwnedUntilFinished
BY InductiveInvariant, PTL DEF IInv

\* The deadline error never leaves a session that still claims to be ready.
THEOREM DeadlineIsExplicitHolds == Spec => []DeadlineIsExplicit
<1>1. IInv => DeadlineIsExplicit
  BY DEF IInv, TypeOK, RecordInv, OwnedUntilFinished, ShutdownInv,
         DeadlineIsExplicit, Active
<1>2. QED
  BY <1>1, InductiveInvariant, PTL

\* The cleanup callback is entered at most once for any number of cancellers.
THEOREM CallbackAtMostOnceHolds == Spec => []CallbackAtMostOnce
<1>1. IInv => CallbackAtMostOnce
  BY DEF IInv, CallbackInv, CallbackAtMostOnce
<1>2. QED
  BY <1>1, InductiveInvariant, PTL

-----------------------------------------------------------------------------
(* The limits.                                                             *)

\* Sets of handles are finite.
LEMMA IdsFinite ==
    ASSUME NEW S \in SUBSET Ids
    PROVE  IsFiniteSet(S) /\ Cardinality(S) \in Nat
<1>1. IsFiniteSet(Ids)
  BY FS_Interval, ConstantsAssumption DEF Ids
<1>2. IsFiniteSet(S)
  BY <1>1, FS_Subset
<1>3. QED
  BY <1>2, FS_CardinalityType

\* Of a finite set of numbers, those with fewer than n larger members are at
\* most n: all the others of them are larger than the least.
LEMMA FewLargerMembers ==
    ASSUME NEW S \in SUBSET Ids, NEW n \in Nat
    PROVE  Cardinality({ h \in S : Cardinality({ g \in S : g > h }) < n }) <= n
<1> DEFINE T == { h \in S : Cardinality({ g \in S : g > h }) < n }
<1> SUFFICES Cardinality(T) <= n
  OBVIOUS
<1>1. S \subseteq Int /\ T \in SUBSET S /\ T \in SUBSET Ids
  <2>1. S \subseteq Int
    BY DEF Ids
  <2>2. T \subseteq S
    OBVIOUS
  <2>3. QED
    BY <2>1, <2>2
<1> HIDE DEF T
<1>2. IsFiniteSet(T)
  BY <1>1, IdsFinite
<1>3. CASE T = {}
  BY <1>3, FS_EmptySet
<1>4. CASE T # {}
  <2> DEFINE least == FirstOf(T)
             larger == { g \in S : g > least }
  <2>1. least \in T /\ \A g \in T : least <= g
    BY <1>1, <1>4, FirstOfIsLeast
  <2> HIDE DEF least
  <2>2. T \ {least} \subseteq larger
    BY <1>1, <2>1
  <2>3. IsFiniteSet(larger) /\ Cardinality(larger) \in Nat
    <3>1. larger \in SUBSET Ids
      BY <1>1
    <3>2. QED
      BY <3>1, IdsFinite
  <2>4. Cardinality(larger) < n
    BY <2>1 DEF T
  <2>5. Cardinality(T) \in Nat
    BY <1>1, IdsFinite
  <2>8. Cardinality(T \ {least}) = Cardinality(T) - 1
    BY <1>2, <2>1, FS_RemoveElement
  <2>6. Cardinality(T \ {least}) <= Cardinality(larger)
    BY <2>2, <2>3, FS_Subset
  <2> HIDE DEF larger
  <2>7. QED
    BY <2>3, <2>4, <2>5, <2>6, <2>8
<1>5. QED
  BY <1>3, <1>4

\* Trimming leaves at most MaxHistory finished handles.
LEMMA TrimBoundsHistory ==
    ASSUME NEW handles \in SUBSET Ids, NEW done
    PROVE  Cardinality(Trim(handles, done) \intersect done) <= MaxHistory
<1> DEFINE S == handles \intersect done
<1>1. Trim(handles, done) \intersect done
        = { h \in S : Cardinality({ g \in S : g > h }) < MaxHistory }
  BY DEF Trim
<1>2. QED
  BY <1>1, FewLargerMembers, ConstantsAssumption

\* At most MaxActive sessions are unfinished together and at most MaxHistory
\* ended ones are retained, whatever the limits are.
THEOREM WithinLimitsHolds == Spec => []WithinLimits
<1>1. Init => WithinLimits
  <2> SUFFICES ASSUME Init PROVE WithinLimits
    OBVIOUS
  <2>1. Active = {} /\ retained \intersect finished = {}
    BY DEF Init, Active, Launched
  <2>2. QED
    BY <2>1, FS_EmptySet, ConstantsAssumption DEF WithinLimits
<1>2. IInv /\ WithinLimits /\ [Next]_vars => WithinLimits'
  <2> SUFFICES ASSUME IInv, WithinLimits, [Next]_vars
               PROVE  WithinLimits'
    OBVIOUS
  <2>1. /\ IsFiniteSet(Active) /\ Cardinality(Active) \in Nat
        /\ Active = retained \ finished
    <3>1. Active \subseteq Ids /\ Active = retained \ finished
      BY DEF IInv, TypeOK, RecordInv, OwnedUntilFinished, Active, Launched, Ids
    <3>2. QED
      BY <3>1, IdsFinite
  <2>2. CASE Add
    <3>1. Active' \subseteq Active \union {sequence + 1}
      BY <2>2 DEF IInv, TypeOK, Add, Active, Launched
    <3>2. /\ IsFiniteSet(Active \union {sequence + 1})
          /\ Cardinality(Active \union {sequence + 1}) <= Cardinality(Active) + 1
          /\ Cardinality(Active \union {sequence + 1}) \in Nat
      <4>1. IsFiniteSet(Active)
        BY <2>1
      <4>2. /\ IsFiniteSet(Active \union {sequence + 1})
            /\ Cardinality(Active \union {sequence + 1}) =
                 IF sequence + 1 \in Active THEN Cardinality(Active)
                 ELSE Cardinality(Active) + 1
        BY <4>1, FS_AddElement
      <4>3. QED
        BY <2>1, <4>2
    <3>3. Cardinality(Active) < MaxActive
      BY <2>1, <2>2 DEF Add, ActiveCount
    <3>4. Cardinality(Active') <= Cardinality(Active \union {sequence + 1})
      BY <3>1, <3>2, FS_Subset
    <3>5. Cardinality(Active') <= MaxActive
      <4>1. Cardinality(Active') \in Nat
        BY <3>1, <3>2, FS_Subset, FS_CardinalityType
      <4>2. QED
        BY <2>1, <3>2, <3>3, <3>4, <4>1, ConstantsAssumption
    <3>6. retained \union {sequence + 1} \in SUBSET Ids
      BY <2>2, ConstantsAssumption DEF IInv, TypeOK, Add, Ids
    <3>7. Cardinality(retained' \intersect finished') <= MaxHistory
      BY <2>2, <3>6, TrimBoundsHistory DEF Add
    <3>8. QED
      BY <3>5, <3>7 DEF WithinLimits
  <2>3. ASSUME NEW h \in Ids, NEW reported \in Reports, Finish(h, reported)
        PROVE  WithinLimits'
    <3>1. Active' \subseteq Active
      BY <2>3 DEF Finish, Active, Launched
    <3>2. Cardinality(Active') <= MaxActive
      <4>1. Cardinality(Active') <= Cardinality(Active)
        BY <2>1, <3>1, FS_Subset
      <4>2. Cardinality(Active') \in Nat
        BY <2>1, <3>1, FS_Subset, FS_CardinalityType
      <4>3. QED
        BY <2>1, <4>1, <4>2, ConstantsAssumption DEF WithinLimits
    <3>3. retained \in SUBSET Ids
      BY DEF IInv, TypeOK
    <3>4. Cardinality(retained' \intersect finished') <= MaxHistory
      BY <2>3, <3>3, TrimBoundsHistory DEF Finish
    <3>5. QED
      BY <3>2, <3>4 DEF WithinLimits
  <2>4. ASSUME UNCHANGED <<sequence, retained, finished>>
        PROVE  WithinLimits'
    BY <2>4 DEF WithinLimits, Active, Launched
  <2>5. CASE UNCHANGED vars
    BY <2>4, <2>5 DEF vars
  <2>6. ASSUME NEW h \in Ids, Handle(h)
        PROVE  WithinLimits'
    BY <2>3, <2>4, <2>6
       DEF Handle, RequestCancel, Running, CancelLocked, EnterCallback,
           LeaveCallback, CancelAgain
  <2>7. CASE Shutdown
    BY <2>4, <2>7
       DEF Shutdown, ShutdownBegin, ShutdownAwait, ShutdownClean,
           ShutdownExpire, ShutdownMark, ShutdownExpired
  <2>8. QED
    BY <2>2, <2>5, <2>6, <2>7 DEF Next
<1>3. QED
  BY <1>1, <1>2, InductiveInvariant, PTL DEF Spec
-----------------------------------------------------------------------------
(* Action properties.                                                      *)

\* A step changes a session's state only before its end, and forward.
LEMMA StateMovesForward ==
    ASSUME IInv, [Next]_vars, NEW h \in Ids, state'[h] # state[h]
    PROVE  /\ h \notin finished
           /\ Progress(h)' > Progress(h) \/ h \in finished'
<1> USE DEF Progress
<1>1. CASE Add
  <2>1. /\ state' = [state EXCEPT ![sequence + 1] = "starting"]
        /\ sequence + 1 \in Ids
        /\ sequence + 1 \notin Launched
    BY <1>1, ConstantsAssumption DEF IInv, TypeOK, Add, Ids, Launched
  <2>2. h = sequence + 1 /\ state'[h] = "starting"
    BY <2>1 DEF IInv, TypeOK
  <2>3. h \notin finished /\ h \notin finished' /\ state[h] = "none"
    BY <1>1, <2>1, <2>2 DEF IInv, RecordInv, Add
  <2>4. QED
    BY <2>2, <2>3
<1>2. ASSUME NEW g \in Ids, Handle(g)
      PROVE  /\ h \notin finished
             /\ Progress(h)' > Progress(h) \/ h \in finished'
  <2>1. CASE Running(g)
    <3>1. h = g /\ h \notin finished /\ h \notin finished'
      BY <2>1 DEF IInv, TypeOK, Running
    <3>2. state[h] = "starting" /\ state'[h] = "running"
      BY <2>1, <3>1 DEF IInv, TypeOK, Running
    <3>3. QED
      BY <3>1, <3>2
  <2>2. CASE \E reported \in Reports : Finish(g, reported)
    BY <2>2 DEF IInv, TypeOK, Finish
  <2>3. CASE CancelLocked(g)
    <3>1. h = g /\ h \notin finished /\ h \notin finished'
      BY <2>3 DEF IInv, TypeOK, CancelLocked
    <3>2. state[h] # "unknown" /\ state'[h] = "stopping"
      BY <2>3, <3>1 DEF IInv, TypeOK, CancelLocked
    <3>3. state[h] \in {"starting", "running"}
      <4>1. h \in Active
        BY <2>3, <3>1 DEF IInv, RecordInv, CancelLocked, Active
      <4>2. QED
        BY <3>2, <4>1 DEF IInv, RecordInv
    <3>4. QED
      BY <3>1, <3>2, <3>3
  <2>4. CASE UNCHANGED state
    BY <2>4
  <2>5. QED
    BY <1>2, <2>1, <2>2, <2>3, <2>4
       DEF Handle, RequestCancel, EnterCallback, LeaveCallback, CancelAgain
<1>3. CASE ShutdownMark
  <2>1. FirstOf(marking) \in marking
    BY <1>3, FirstOfIsLeast DEF ShutdownMark, IInv, TypeOK
  <2>2. h = FirstOf(marking) /\ h \notin finished /\ h \notin finished'
    BY <1>3, <2>1 DEF ShutdownMark, IInv, TypeOK
  <2>3. state'[h] = "unknown" /\ state[h] # "unknown"
    BY <1>3, <2>2 DEF ShutdownMark, IInv, TypeOK
  <2>4. h \in Active
    BY <2>1, <2>2 DEF IInv, ShutdownInv, RecordInv, Active
  <2>5. state[h] \in {"starting", "running", "stopping"}
    BY <2>3, <2>4 DEF IInv, RecordInv
  <2>6. QED
    BY <2>2, <2>3, <2>5
<1>4. CASE UNCHANGED state
  BY <1>4
<1>5. QED
  BY <1>1, <1>2, <1>3, <1>4
     DEF Next, Shutdown, ShutdownBegin, ShutdownAwait, ShutdownClean,
         ShutdownExpire, ShutdownExpired, vars

\* No late readiness report, stop request or deadline moves a record back.
THEOREM LifecycleForwardHolds == Spec => LifecycleForward
<1>1. IInv /\ [Next]_vars =>
        [\A h \in Ids : state'[h] # state[h] =>
            /\ h \notin finished
            /\ \/ Progress(h)' > Progress(h)
               \/ h \in finished']_vars
  BY StateMovesForward
<1>2. QED
  BY <1>1, InductiveInvariant, PTL DEF Spec, LifecycleForward
-----------------------------------------------------------------------------
(* The registry implements the contract.                                   *)

ContractPhase == [h \in Ids |-> PhaseOf(h)]
ContractStopped == { h \in Ids : invoked[h] > 0 }

\* A step that touches none of what the mapping reads is a stutter.
LEMMA ContractStutter ==
    ASSUME UNCHANGED <<sequence, finished, invoked>>, Verdict' = Verdict
    PROVE  UNCHANGED Contract!vars
BY DEF Contract!vars, PhaseOf, Launched

LEMMA AddIsLaunch ==
    ASSUME IInv, Add
    PROVE  Contract!Launch(sequence + 1) /\ sequence + 1 \in Ids
<1> DEFINE new == sequence + 1
<1>1. /\ new \in Ids
      /\ new \notin Launched
      /\ Launched' = Launched \union {new}
      /\ finished' = finished
      /\ new \notin finished
  BY ConstantsAssumption DEF IInv, TypeOK, RecordInv, Add, Ids, Launched
<1>2. Verdict = "open" /\ Verdict' = "open"
  BY DEF IInv, ShutdownInv, Add, Verdict, shutdownVars
<1> HIDE DEF new
<1>3. ContractPhase[new] = "absent"
  BY <1>1 DEF ContractPhase, PhaseOf
<1>4. ContractPhase' = [ContractPhase EXCEPT ![new] = "active"]
  BY <1>1 DEF ContractPhase, PhaseOf
<1>5. ContractStopped' = ContractStopped
  BY DEF Add, ContractStopped, cancelVars
<1>6. QED
  BY <1>1, <1>2, <1>3, <1>4, <1>5
     DEF Contract!Launch, ContractPhase, ContractStopped, new

LEMMA FinishIsEnd ==
    ASSUME IInv, NEW h \in Ids, NEW reported \in Reports, Finish(h, reported)
    PROVE  Contract!End(h)
<1>1. /\ h \in Launched
      /\ h \notin finished
      /\ Launched' = Launched
      /\ finished' = finished \union {h}
  BY DEF Finish, Launched
<1>2. ContractPhase[h] = "active"
  BY <1>1 DEF ContractPhase, PhaseOf
<1>3. ContractPhase' = [ContractPhase EXCEPT ![h] = "ended"]
  BY <1>1 DEF ContractPhase, PhaseOf
<1>4. UNCHANGED <<ContractStopped, Verdict>>
  BY DEF Finish, ContractStopped, Verdict, cancelVars, shutdownVars
<1>5. QED
  BY <1>2, <1>3, <1>4 DEF Contract!End, ContractPhase, ContractStopped

LEMMA EnterCallbackIsStop ==
    ASSUME IInv, NEW h \in Ids, EnterCallback(h)
    PROVE  Contract!Stop(h)
<1>1. h \in Launched /\ invoked[h] = 0 /\ invoked'[h] = 1
  BY DEF IInv, TypeOK, CallbackInv, EnterCallback
<1>2. \A g \in Ids : g # h => invoked'[g] = invoked[g]
  BY DEF IInv, TypeOK, EnterCallback
<1>3. ContractPhase[h] # "absent"
  BY <1>1 DEF ContractPhase, PhaseOf
<1>4. h \notin ContractStopped /\ ContractStopped' = ContractStopped \union {h}
  BY <1>1, <1>2 DEF ContractStopped
<1>5. UNCHANGED <<ContractPhase, Verdict>>
  BY DEF EnterCallback, ContractPhase, PhaseOf, Launched, Verdict, shutdownVars
<1>6. QED
  BY <1>3, <1>4, <1>5 DEF Contract!Stop, ContractPhase, ContractStopped

\* Only a Shutdown that passed every handle says "clean", and then there is
\* none it did not know of.
LEMMA ShutdownIsClose ==
    ASSUME IInv, Shutdown
    PROVE  [Contract!Next]_Contract!vars
<1>1. UNCHANGED <<ContractPhase, ContractStopped>>
  BY DEF Shutdown, ShutdownBegin, ShutdownAwait, ShutdownClean, ShutdownExpire,
         ShutdownMark, ShutdownExpired, ContractPhase, ContractStopped,
         PhaseOf, Launched, cancelVars
<1>2. CASE ShutdownBegin
  BY <1>1, <1>2
     DEF ShutdownBegin, Verdict, Contract!Next, Contract!Close, ContractPhase,
         ContractStopped
<1>3. CASE ShutdownAwait \/ ShutdownExpire \/ ShutdownMark
  <2>1. Verdict' = Verdict
    BY <1>3 DEF ShutdownAwait, ShutdownExpire, ShutdownMark, Verdict
  <2>2. QED
    BY <1>1, <2>1 DEF Contract!vars, ContractPhase, ContractStopped
<1>4. CASE ShutdownClean
  <2>1. Active = {}
    BY <1>4 DEF IInv, OwnedUntilFinished, ShutdownInv, ShutdownClean, Active
  <2>2. \A h \in Ids : ContractPhase[h] # "active"
    BY <2>1 DEF ContractPhase, PhaseOf, Active
  <2>3. Verdict = "closing" /\ Verdict' = "clean"
    BY <1>4 DEF ShutdownClean, Verdict
  <2>4. QED
    BY <1>1, <2>2, <2>3
       DEF Contract!Next, Contract!CloseClean, ContractPhase, ContractStopped
<1>5. CASE ShutdownExpired
  BY <1>1, <1>5
     DEF ShutdownExpired, Verdict, Contract!Next, Contract!CloseAtDeadline,
         ContractPhase, ContractStopped
<1>6. QED
  BY <1>2, <1>3, <1>4, <1>5 DEF Shutdown

LEMMA InitImplementsContract == Init => Contract!Init
BY DEF Init, Contract!Init, PhaseOf, Verdict, Launched

LEMMA StepImplementsContract ==
    ASSUME IInv, [Next]_vars
    PROVE  [Contract!Next]_Contract!vars
<1>1. CASE Add
  BY <1>1, AddIsLaunch DEF Contract!Next
<1>2. ASSUME NEW h \in Ids, Handle(h)
      PROVE  [Contract!Next]_Contract!vars
  <2>1. CASE \E reported \in Reports : Finish(h, reported)
    <3>1. Contract!End(h)
      BY <2>1, FinishIsEnd
    <3>2. QED
      BY <3>1 DEF Contract!Next
  <2>2. CASE EnterCallback(h)
    <3>1. Contract!Stop(h)
      BY <2>2, EnterCallbackIsStop
    <3>2. QED
      BY <3>1 DEF Contract!Next
  <2>3. CASE UNCHANGED <<sequence, finished, invoked, shutdown>>
    BY <2>3, ContractStutter DEF Verdict
  <2>4. QED
    BY <1>2, <2>1, <2>2, <2>3
       DEF Handle, RequestCancel, Running, CancelLocked, LeaveCallback,
           CancelAgain, cancelVars, shutdownVars
<1>3. CASE Shutdown
  BY <1>3, ShutdownIsClose
<1>4. CASE UNCHANGED vars
  BY <1>4, ContractStutter DEF vars, Verdict
<1>5. QED
  BY <1>1, <1>2, <1>3, <1>4 DEF Next

\* The registry with its slices, locks, goroutines and late reports behaves
\* like the contract: nothing is launched after closing, no session comes back
\* or is stopped twice, and "clean" is said only when nothing is active.
THEOREM RegistryImplementsContract == Spec => ImplementsContract
BY InitImplementsContract, StepImplementsContract, InductiveInvariant, PTL
   DEF Spec, ImplementsContract, Contract!Spec

(***************************************************************************)
(* The connection of the session.                                          *)
(***************************************************************************)

Connections == {0} \cup Attempts

PageType == [started : BOOLEAN, generation : Nat, request : Nat,
             held : Connections, seen : BOOLEAN, checking : BOOLEAN]

RefreshTypeOK ==
    /\ page \in PageType
    /\ here \in BOOLEAN /\ revision \in Nat /\ choices \in Nat
    /\ attempted \in 0..MaxAttempts
    /\ asked \in [Attempts -> Nat]
    /\ ctx \in [Attempts -> {"none", "live", "canceled", "expired"}]
    /\ maker \in [Attempts -> {"none", "reading", "offering", "done"}]
    /\ waiter \in [Attempts -> {"none", "waiting", "returned", "queued", "done"}]
    /\ carried \subseteq Attempts
    /\ conn \in [Connections -> {"none", "open", "closed"}]
    /\ installed \in Connections /\ accepting \in Connections
    /\ step \in {"compare", "replace", "adopt", "idle"}
    /\ app \in {"running", "ending", "ended", "closed"}
    /\ wish \in Connections

\* An attempt that was not made has no goroutines.
LaterOK == \A a \in Attempts : a > attempted => maker[a] = "none" /\ waiter[a] = "none"

\* Where the connections are.
MakerOK ==
    \A a \in Attempts :
        /\ maker[a] \in {"none", "reading"} => conn[a] = "none"
        /\ maker[a] = "offering" => conn[a] # "closed"

CarriedOK ==
    \A a \in carried : conn[a] = "open" /\ maker[a] = "done" /\ installed # a

InstalledOK ==
    /\ installed # 0 => maker[installed] = "done"
    /\ app # "closed" => conn[installed] = "open"

OpenOK ==
    \A c \in Connections : conn[c] = "open" =>
        \/ c # 0 /\ maker[c] = "offering"
        \/ c \in carried
        \/ installed = c /\ app # "closed"

AcceptingOK ==
    /\ step \in {"compare", "replace"} =>
          accepting \in carried /\ waiter[accepting] = "done" /\ wish = accepting
    /\ step # "idle" => app \in {"running", "ending"}

\* What the generations say of the attempts that were made.
GenerationOK ==
    /\ page.request <= revision
    /\ \A a \in 1..attempted :
          /\ asked[a] <= page.generation
          /\ ~page.started \/ step = "adopt" => asked[a] < page.generation
          /\ Current(asked[a]) => wish = a

HolderInv == LaterOK /\ MakerOK /\ CarriedOK /\ InstalledOK /\ OpenOK /\ AcceptingOK

RefreshInv == RefreshTypeOK /\ HolderInv /\ GenerationOK

---------------------------------------------------------------------------
(* The page. *)

\* A visit of the page: another generation, perhaps of another attempt.
Visit(p, h, c) == [p EXCEPT !.generation = @ + 1, !.held = h, !.checking = c]

\* A visit of the page keeps its type and takes a new generation.
LEMMA Visited ==
    ASSUME NEW p \in PageType, NEW h \in Connections, NEW c \in BOOLEAN
    PROVE  /\ Visit(p, h, c) \in PageType
           /\ Visit(p, h, c).generation = p.generation + 1
           /\ Visit(p, h, c).started = p.started
           /\ Visit(p, h, c).request = p.request
  <1>1. p.generation + 1 \in Nat
    BY DEF PageType
  <1>2. ASSUME NEW g \in Nat
        PROVE  [p EXCEPT !.generation = g, !.held = h, !.checking = c] \in PageType
    BY Zenon DEF PageType
  <1>3. Visit(p, h, c) \in PageType
    BY <1>1, <1>2 DEF Visit
  <1> QED BY <1>3 DEF PageType, Visit

\* Leaving the page takes a new generation, and the page is not started.
LEMMA Stopped ==
    ASSUME NEW p \in PageType, NEW q,
           q = [p EXCEPT !.started = FALSE, !.generation = @ + 1, !.held = 0, !.checking = FALSE]
    PROVE  /\ q \in PageType
           /\ q.generation = p.generation + 1 /\ ~q.started /\ q.request = p.request
  <1>1. p.generation + 1 \in Nat /\ 0 \in Connections
    BY DEF PageType, Connections
  <1>2. ASSUME NEW g \in Nat, NEW h \in Connections
        PROVE  [p EXCEPT !.started = FALSE, !.generation = g, !.held = h, !.checking = FALSE]
                  \in PageType
    BY Zenon DEF PageType
  <1>3. q \in PageType
    BY <1>1, <1>2
  <1> QED BY <1>3 DEF PageType

\* A check of the page, of which CheckAgain is the code.
LEMMA Checked ==
    ASSUME NEW p \in PageType, CheckAgain(p)
    PROVE  /\ page' \in PageType /\ page'.started = p.started /\ page'.request = p.request
           /\ page'.generation = IF SameDestination THEN p.generation + 1 ELSE p.generation
  <1>1. CASE SameDestination
    <2>1. page' = Visit(p, 0, TRUE) /\ 0 \in Connections
      BY <1>1 DEF CheckAgain, Visit, Connections
    <2> QED BY <1>1, <2>1, Visited
  <1>2. CASE ~SameDestination
    BY <1>2 DEF CheckAgain
  <1> QED BY <1>1, <1>2

\* The contexts keep their type.
LEMMA CancelledType ==
    ASSUME RefreshTypeOK, NEW a \in Connections
    PROVE  Cancelled(a) \in [Attempts -> {"none", "live", "canceled", "expired"}]
  BY DEF RefreshTypeOK, Cancelled, Connections

\* A connection that is closed, and no other, changes.
LEMMA ClosedType ==
    ASSUME RefreshTypeOK, NEW a \in Connections
    PROVE  /\ Closed(a) \in [Connections -> {"none", "open", "closed"}]
           /\ Closed(a)[a] # "open"
           /\ conn[a] = "none" => Closed(a)[a] = "none"
           /\ \A c \in Connections \ {a} : Closed(a)[c] = conn[c]
  BY DEF RefreshTypeOK, Closed

---------------------------------------------------------------------------
(* What the actions leave alone. *)

\* The invariant of the holders is about the attempts and the use alone.
LEMMA HolderKept ==
    ASSUME RefreshTypeOK, HolderInv, step = "idle" \/ wish' = wish,
           UNCHANGED <<attempted, maker, waiter, carried, conn, installed, accepting, step, app>>
    PROVE  HolderInv'
  BY DEF HolderInv, LaterOK, MakerOK, CarriedOK, InstalledOK, OpenOK, AcceptingOK

\* The generations are about the page and the destination alone.
LEMMA GenerationKept ==
    ASSUME RefreshTypeOK, GenerationOK,
           page'.started = page.started, page'.generation = page.generation,
           page'.request = page.request, step' = "adopt" => step = "adopt",
           UNCHANGED <<here, revision, attempted, asked, wish>>
    PROVE  GenerationOK'
  BY DEF GenerationOK, Current, SameDestination, RefreshTypeOK

\* A visit that begins or ends puts all attempts behind; without one, the page does
\* not ask for the destination of the session, so nothing of it is current.
LEMMA GenerationMoves ==
    ASSUME RefreshTypeOK, GenerationOK, step = "idle", step' = "idle",
           page' \in PageType, page'.request = page.request,
           UNCHANGED <<here, revision, attempted, asked>>,
           \/ page'.generation = page.generation + 1
           \/ /\ page'.generation = page.generation /\ page'.started = page.started
              /\ ~SameDestination
           \/ page'.generation = page.generation /\ ~page.started /\ wish' = wish
    PROVE  GenerationOK'
  <1>1. \A a \in 1..attempted : asked[a] \in Nat /\ asked[a] <= page.generation
    BY RefreshAssumption DEF GenerationOK, RefreshTypeOK, Attempts
  <1>2. page.generation \in Nat /\ page'.generation \in Nat /\ page'.request <= revision'
    BY DEF RefreshTypeOK, PageType, GenerationOK
  <1>3. CASE page'.generation = page.generation + 1
    BY <1>1, <1>2, <1>3 DEF GenerationOK, Current
  <1>4. CASE /\ page'.generation = page.generation /\ page'.started = page.started
             /\ ~SameDestination
    BY <1>1, <1>2, <1>4 DEF GenerationOK, Current, SameDestination
  <1>5. CASE page'.generation = page.generation /\ ~page.started /\ wish' = wish
    BY <1>1, <1>2, <1>5 DEF GenerationOK, Current
  <1> QED BY <1>3, <1>4, <1>5

\* Nothing happens.
LEMMA RefreshStutter == RefreshInv /\ UNCHANGED refreshVars => RefreshInv'
  BY DEF RefreshInv, RefreshTypeOK, HolderInv, LaterOK, MakerOK, CarriedOK, InstalledOK, OpenOK,
         AcceptingOK, GenerationOK, Current, SameDestination, refreshVars

---------------------------------------------------------------------------
(* The user, the watcher and the checks. *)

\* The page checks again of its own accord.
LEMMA RecheckStep == RefreshInv /\ Recheck => RefreshInv'
  <1> SUFFICES ASSUME RefreshInv, Recheck PROVE RefreshInv'
    OBVIOUS
  <1> USE DEF Recheck, destinationVars, useVars
  <1>1. page \in PageType /\ page.held \in Connections
    BY DEF RefreshInv, RefreshTypeOK, PageType
  <1>2. ctx' = ctx \/ ctx' = Cancelled(page.held)
    BY DEF CheckAgain
  <1>3. RefreshTypeOK'
    BY <1>1, <1>2, Checked, CancelledType DEF RefreshInv, RefreshTypeOK, Connections
  <1>4. HolderInv'
    BY HolderKept DEF RefreshInv, UIFree
  <1>5. GenerationOK'
    BY <1>1, Checked, GenerationMoves DEF RefreshInv, UIFree
  <1> QED BY <1>3, <1>4, <1>5 DEF RefreshInv

\* The page is opened.
LEMMA StartStep == RefreshInv /\ Start => RefreshInv'
  <1> SUFFICES ASSUME RefreshInv, Start PROVE RefreshInv'
    OBVIOUS
  <1> USE DEF Start, destinationVars, useVars
  <1> DEFINE opened == [page EXCEPT !.started = TRUE]
  <1>1. page \in PageType /\ page.held \in Connections
    BY DEF RefreshInv, RefreshTypeOK, PageType
  <1>2. opened \in PageType /\ opened.started /\ opened.generation = page.generation
           /\ opened.request = page.request
    BY <1>1 DEF PageType
  <1>3. (page' = opened /\ UNCHANGED ctx) \/ CheckAgain(opened)
    OBVIOUS
  <1> HIDE DEF opened
  <1>4. /\ page' \in PageType /\ page'.started /\ page'.request = page.request
        /\ page'.generation \in {page.generation, page.generation + 1}
    BY <1>2, <1>3, Checked
  <1>5. ctx' = ctx \/ ctx' = Cancelled(page.held)
    BY <1>3 DEF CheckAgain
  <1>6. RefreshTypeOK'
    BY <1>1, <1>4, <1>5, CancelledType DEF RefreshInv, RefreshTypeOK
  <1>7. HolderInv'
    BY HolderKept DEF RefreshInv, UIFree
  <1>8. GenerationOK'
    <2>1. page'.generation = page.generation => wish' = wish
      OBVIOUS
    <2> QED BY <1>4, <2>1, GenerationMoves DEF RefreshInv, UIFree
  <1> QED BY <1>6, <1>7, <1>8 DEF RefreshInv

\* The page is left.
LEMMA StopStep == RefreshInv /\ Stop => RefreshInv'
  <1> SUFFICES ASSUME RefreshInv, Stop PROVE RefreshInv'
    OBVIOUS
  <1> USE DEF Stop, destinationVars, useVars
  <1>1. page \in PageType /\ page.held \in Connections
    BY DEF RefreshInv, RefreshTypeOK, PageType
  <1>2. RefreshTypeOK'
    BY <1>1, Stopped, CancelledType DEF RefreshInv, RefreshTypeOK, Connections
  <1>3. HolderInv'
    BY HolderKept DEF RefreshInv, UIFree
  <1>4. GenerationOK'
    BY <1>1, Stopped, GenerationMoves DEF RefreshInv, UIFree
  <1> QED BY <1>2, <1>3, <1>4 DEF RefreshInv

\* An attempt is started: it has a generation nobody asked with before.
LEMMA RefreshSessionStep == RefreshInv /\ RefreshSession => RefreshInv'
  <1> SUFFICES ASSUME RefreshInv, RefreshSession PROVE RefreshInv'
    OBVIOUS
  <1> USE RefreshAssumption DEF RefreshSession, destinationVars, useVars
  <1> DEFINE a == attempted + 1
  <1>1. /\ page \in PageType /\ page.held \in Connections /\ a \in Attempts /\ a \in Connections
        /\ maker[a] = "none" /\ waiter[a] = "none" /\ attempted' = a
    <2>1. MaxAttempts \in Nat /\ attempted \in 0..MaxAttempts /\ attempted < MaxAttempts
      BY DEF RefreshInv, RefreshTypeOK
    <2>2. a \in Attempts /\ a \in Connections /\ attempted' = a /\ a > attempted
      BY <2>1 DEF Attempts, Connections
    <2> QED BY <2>2 DEF RefreshInv, RefreshTypeOK, PageType, HolderInv, LaterOK
  <1>2. /\ page' \in PageType /\ page'.started = page.started
        /\ page'.generation = page.generation + 1 /\ page'.request = page.request
    BY <1>1, Visited DEF Visit
  <1>3. RefreshTypeOK'
    <2>1. ctx' \in [Attempts -> {"none", "live", "canceled", "expired"}]
      BY <1>1, CancelledType DEF RefreshInv
    <2>2. attempted' \in 0..MaxAttempts /\ page.generation + 1 \in Nat
      BY <1>1 DEF Attempts, RefreshInv, RefreshTypeOK, PageType
    <2>3. /\ asked' \in [Attempts -> Nat]
          /\ maker' \in [Attempts -> {"none", "reading", "offering", "done"}]
          /\ waiter' \in [Attempts -> {"none", "waiting", "returned", "queued", "done"}]
      BY <1>1, <2>2 DEF RefreshInv, RefreshTypeOK
    <2> QED BY <1>1, <1>2, <2>1, <2>2, <2>3 DEF RefreshInv, RefreshTypeOK
  <1>4. HolderInv'
    <2>1. LaterOK' /\ MakerOK'
      BY <1>1 DEF RefreshInv, RefreshTypeOK, HolderInv, LaterOK, MakerOK, Attempts
    <2>2. CarriedOK' /\ InstalledOK' /\ OpenOK'
      BY <1>1 DEF RefreshInv, RefreshTypeOK, HolderInv, CarriedOK, InstalledOK, OpenOK, Connections
    <2>3. AcceptingOK'
      BY <1>1 DEF RefreshInv, HolderInv, AcceptingOK, UIFree
    <2> QED BY <2>1, <2>2, <2>3 DEF HolderInv
  <1>5. GenerationOK'
    <2>1. \A b \in 1..attempted : asked'[b] = asked[b] /\ asked[b] <= page.generation
      BY <1>1 DEF RefreshInv, RefreshTypeOK, GenerationOK, Attempts
    <2>2. asked'[a] = page.generation + 1 /\ wish' = a /\ page.started /\ step' = "idle"
      BY <1>1 DEF RefreshInv, RefreshTypeOK, Current, UIFree
    <2>3. 1..attempted' = 1..attempted \cup {a} /\ page.generation \in Nat
      BY <1>1 DEF RefreshInv, RefreshTypeOK, PageType
    <2>4. \A b \in 1..attempted : asked[b] \in Nat
      BY <1>1 DEF RefreshInv, RefreshTypeOK, Attempts
    <2> HIDE DEF a
    <2>5. page'.request <= revision'
      BY <1>2 DEF RefreshInv, GenerationOK
    <2> QED BY <1>2, <2>1, <2>2, <2>3, <2>4, <2>5 DEF GenerationOK, Current
  <1> QED BY <1>3, <1>4, <1>5 DEF RefreshInv

\* A destination is chosen, or the configuration is read again.
LEMMA DestinationStep == RefreshInv /\ (Choose \/ Reload) => RefreshInv'
  <1> SUFFICES ASSUME RefreshInv, Choose \/ Reload PROVE RefreshInv'
    OBVIOUS
  <1> USE DEF Choose, Reload, DestinationChanges, attemptVars, useVars
  <1>1. RefreshTypeOK'
    <2>1. here' \in BOOLEAN
      BY Zenon
    <2>2. choices' \in Nat /\ revision' \in Nat /\ wish' \in Connections
      BY DEF RefreshInv, RefreshTypeOK, Connections
    <2> QED BY <2>1, <2>2 DEF RefreshInv, RefreshTypeOK
  <1>2. HolderInv'
    BY HolderKept DEF RefreshInv, UIFree
  <1>3. GenerationOK'
    BY DEF RefreshInv, RefreshTypeOK, GenerationOK, Current, SameDestination, UIFree, PageType
  <1> QED BY <1>1, <1>2, <1>3 DEF RefreshInv

\* The health of the session that is in use is accepted.
LEMMA HealthStep == RefreshInv /\ HealthAccepted => RefreshInv'
  <1> SUFFICES ASSUME RefreshInv, HealthAccepted PROVE RefreshInv'
    OBVIOUS
  <1> USE DEF HealthAccepted, destinationVars, attemptVars, useVars
  <1>1. /\ page' \in PageType /\ page'.started = page.started
        /\ page'.generation = page.generation /\ page'.request = page.request
    BY DEF RefreshInv, RefreshTypeOK, PageType
  <1>2. RefreshTypeOK'
    BY <1>1 DEF RefreshInv, RefreshTypeOK
  <1>3. HolderInv'
    BY HolderKept DEF RefreshInv
  <1>4. GenerationOK'
    BY <1>1, GenerationKept DEF RefreshInv
  <1> QED BY <1>2, <1>3, <1>4 DEF RefreshInv

---------------------------------------------------------------------------
(* An attempt: its two goroutines and its callback. *)

\* prepare and its maker.
LEMMA MakerStep ==
    ASSUME RefreshInv, NEW a \in Attempts, PrepareFails(a) \/ Build(a) \/ Withdraw(a)
    PROVE  RefreshInv'
  <1> USE DEF PrepareFails, Build, Withdraw, Prepare, destinationVars, useVars
  <1>1. /\ a \in Connections /\ a # 0 /\ a <= attempted
        /\ maker[a] # "none" /\ a \notin carried /\ installed # a
    BY RefreshAssumption DEF RefreshInv, RefreshTypeOK, HolderInv, LaterOK, CarriedOK,
         InstalledOK, Attempts, Connections
  <1>2. /\ conn' \in [Connections -> {"none", "open", "closed"}]
        /\ \A c \in Connections \ {a} : conn'[c] = conn[c]
        /\ \/ maker'[a] = "offering" /\ conn'[a] # "closed"
           \/ maker'[a] = "done" /\ conn'[a] # "open"
    BY <1>1, ClosedType DEF RefreshInv, RefreshTypeOK, HolderInv, MakerOK
  <1>3. /\ maker' \in [Attempts -> {"none", "reading", "offering", "done"}]
        /\ \A b \in Attempts \ {a} : maker'[b] = maker[b]
    BY DEF RefreshInv, RefreshTypeOK
  <1>4. RefreshTypeOK'
    BY <1>2, <1>3 DEF RefreshInv, RefreshTypeOK
  <1>5. HolderInv'
    <2>1. LaterOK' /\ MakerOK'
      BY <1>1, <1>2, <1>3 DEF RefreshInv, HolderInv, LaterOK, MakerOK, Attempts, Connections
    <2>2. CarriedOK'
      <3>1. carried' = carried /\ installed' = installed /\ a \notin carried
        BY <1>1
      <3>2. ASSUME NEW c \in carried PROVE c \in Attempts /\ c # a
        BY <1>1 DEF RefreshInv, RefreshTypeOK
      <3>3. ASSUME NEW c \in carried PROVE conn'[c] = conn[c] /\ maker'[c] = maker[c]
        BY <3>2, <1>2, <1>3 DEF Connections
      <3> HIDE DEF PrepareFails, Build, Withdraw, Prepare, destinationVars, useVars
      <3> QED BY <3>1, <3>3 DEF RefreshInv, HolderInv, CarriedOK
    <2>3. InstalledOK' /\ OpenOK'
      BY <1>1, <1>2, <1>3 DEF RefreshInv, RefreshTypeOK, HolderInv, InstalledOK, OpenOK, Connections
    <2>4. AcceptingOK'
      BY DEF RefreshInv, HolderInv, AcceptingOK
    <2> QED BY <2>1, <2>2, <2>3, <2>4 DEF HolderInv
  <1>6. GenerationOK'
    BY GenerationKept DEF RefreshInv
  <1> QED BY <1>4, <1>5, <1>6 DEF RefreshInv

\* The maker hands its result to the waiter, or closes it for it.
LEMMA HandStep ==
    ASSUME RefreshInv, NEW a \in Attempts, Hand(a)
    PROVE  RefreshInv'
  <1> USE DEF Hand, destinationVars, useVars
  <1>1. /\ a \in Connections /\ a # 0 /\ a <= attempted
        /\ maker[a] = "offering" /\ a \notin carried /\ installed # a /\ conn[a] # "closed"
    BY RefreshAssumption DEF RefreshInv, RefreshTypeOK, HolderInv, LaterOK, CarriedOK,
         InstalledOK, MakerOK, Attempts, Connections
  <1>2. /\ maker' \in [Attempts -> {"none", "reading", "offering", "done"}]
        /\ waiter' \in [Attempts -> {"none", "waiting", "returned", "queued", "done"}]
        /\ maker'[a] = "done" /\ waiter'[a] = "returned"
        /\ \A b \in Attempts \ {a} : maker'[b] = maker[b] /\ waiter'[b] = waiter[b]
    BY DEF RefreshInv, RefreshTypeOK
  <1>3. /\ conn' \in [Connections -> {"none", "open", "closed"}]
        /\ \A c \in Connections \ {a} : conn'[c] = conn[c]
        /\ \/ carried' = carried /\ conn'[a] # "open"
           \/ carried' = carried \cup {a} /\ conn'[a] = "open"
    <2>1. CASE Over(a)
      BY <1>1, <2>1, ClosedType DEF RefreshInv, RefreshTypeOK
    <2>2. CASE ~Over(a)
      <3>1. \A c \in carried : conn[c] = "open"
        BY DEF RefreshInv, HolderInv, CarriedOK
      <3>2. carried' = {c \in carried \cup {a} : conn[c] = "open"} /\ conn' = conn
        BY <2>2
      <3>3. carried' = IF conn[a] = "open" THEN carried \cup {a} ELSE carried
        BY <3>1, <3>2
      <3> QED BY <3>2, <3>3 DEF RefreshInv, RefreshTypeOK
    <2> QED BY <2>1, <2>2
  <1>4. RefreshTypeOK'
    BY <1>2, <1>3 DEF RefreshInv, RefreshTypeOK
  <1>5. HolderInv'
    <2>1. LaterOK' /\ MakerOK'
      BY <1>1, <1>2, <1>3 DEF RefreshInv, HolderInv, LaterOK, MakerOK, Attempts, Connections
    <2>2. CarriedOK'
      <3>1. installed' = installed
        OBVIOUS
      <3>2. CASE carried' = carried
        <4>1. ASSUME NEW c \in carried PROVE c \in Attempts /\ c # a
          BY <1>1 DEF RefreshInv, RefreshTypeOK
        <4>2. ASSUME NEW c \in carried PROVE conn'[c] = conn[c] /\ maker'[c] = maker[c]
          BY <4>1, <1>2, <1>3 DEF Connections
        <4> HIDE DEF Hand
        <4> QED BY <3>1, <3>2, <4>2 DEF RefreshInv, HolderInv, CarriedOK
      <3>3. CASE carried' = carried \cup {a} /\ conn'[a] = "open"
        <4>1. ASSUME NEW c \in carried PROVE c \in Attempts /\ c # a
          BY <1>1 DEF RefreshInv, RefreshTypeOK
        <4>2. ASSUME NEW c \in carried PROVE conn'[c] = conn[c] /\ maker'[c] = maker[c]
          BY <4>1, <1>2, <1>3 DEF Connections
        <4> HIDE DEF Hand
        <4> QED BY <3>1, <3>3, <4>2, <1>1, <1>2 DEF RefreshInv, HolderInv, CarriedOK
      <3> QED BY <3>2, <3>3, <1>3
    <2>3. InstalledOK' /\ OpenOK'
      BY <1>1, <1>2, <1>3 DEF RefreshInv, RefreshTypeOK, HolderInv, InstalledOK, OpenOK, Connections
    <2>4. AcceptingOK'
      BY <1>1, <1>2, <1>3 DEF RefreshInv, RefreshTypeOK, HolderInv, AcceptingOK
    <2> QED BY <2>1, <2>2, <2>3, <2>4 DEF HolderInv
  <1>6. GenerationOK'
    BY GenerationKept DEF RefreshInv
  <1> QED BY <1>4, <1>5, <1>6 DEF RefreshInv

\* The waiter goes on and keeps what it carries, or closes it.
LEMMA WaiterStep ==
    ASSUME RefreshInv, NEW a \in Attempts,
           WaitOver(a) \/ Discard(a) \/ Queue(a) \/ Stale(a)
    PROVE  RefreshInv'
  <1> USE DEF WaitOver, Discard, Queue, Stale, Waits, destinationVars, useVars
  <1>1. a \in Connections /\ a # 0 /\ a <= attempted /\ waiter[a] # "done"
    BY RefreshAssumption DEF RefreshInv, RefreshTypeOK, HolderInv, LaterOK, Attempts, Connections
  <1>2. /\ waiter' \in [Attempts -> {"none", "waiting", "returned", "queued", "done"}]
        /\ \A b \in Attempts \ {a} : waiter'[b] = waiter[b]
        /\ UNCHANGED maker
    BY DEF RefreshInv, RefreshTypeOK
  <1>3. ctx' = ctx \/ ctx' = Cancelled(a)
    OBVIOUS
  <1>4. \/ UNCHANGED <<conn, carried>>
        \/ /\ carried' = carried \ {a}
           /\ a \notin carried => conn' = conn
           /\ a \in carried => conn' = Closed(a)
    OBVIOUS
  <1>5. /\ conn' \in [Connections -> {"none", "open", "closed"}]
        /\ \A c \in Connections \ {a} : conn'[c] = conn[c] /\ (c \in carried' <=> c \in carried)
        /\ \/ conn'[a] = conn[a] /\ (a \in carried' <=> a \in carried)
           \/ a \in carried /\ a \notin carried' /\ conn'[a] # "open"
    BY <1>1, <1>4, ClosedType DEF RefreshInv, RefreshTypeOK
  <1>6. RefreshTypeOK'
    BY <1>1, <1>2, <1>3, <1>4, <1>5, CancelledType DEF RefreshInv, RefreshTypeOK
  <1>7. HolderInv'
    <2>1. LaterOK' /\ MakerOK'
      BY <1>1, <1>2, <1>5 DEF RefreshInv, HolderInv, LaterOK, MakerOK, CarriedOK, Attempts, Connections
    <2>2. CarriedOK'
      BY <1>1, <1>2, <1>5, <1>6 DEF RefreshInv, RefreshTypeOK, HolderInv, CarriedOK, Connections
    <2>3. InstalledOK' /\ OpenOK'
      BY <1>1, <1>2, <1>5 DEF RefreshInv, RefreshTypeOK, HolderInv, InstalledOK, OpenOK,
         CarriedOK, Connections
    <2>4. AcceptingOK'
      BY <1>1, <1>2, <1>5 DEF RefreshInv, RefreshTypeOK, HolderInv, AcceptingOK
    <2> QED BY <2>1, <2>2, <2>3, <2>4 DEF HolderInv
  <1>8. GenerationOK'
    BY GenerationKept DEF RefreshInv
  <1> QED BY <1>6, <1>7, <1>8 DEF RefreshInv

\* The callback of the attempt that is awaited.
LEMMA AnswerStep ==
    ASSUME RefreshInv, NEW a \in Attempts, Failed(a) \/ Accept(a)
    PROVE  RefreshInv'
  <1> USE DEF Failed, Accept, destinationVars, useVars
  <1>1. a \in Connections /\ a \in 1..attempted /\ wish = a
    <2>1. a \in 1..attempted
      BY RefreshAssumption DEF RefreshInv, RefreshTypeOK, HolderInv, LaterOK, Attempts
    <2> QED BY <2>1 DEF RefreshInv, GenerationOK, Connections
  <1>2. /\ page' \in PageType /\ page'.started = page.started
        /\ page'.generation = page.generation /\ page'.request = page.request
    BY DEF RefreshInv, RefreshTypeOK, PageType, Connections
  <1>3. /\ waiter' \in [Attempts -> {"none", "waiting", "returned", "queued", "done"}]
        /\ waiter'[a] = "done"
        /\ \A b \in Attempts \ {a} : waiter'[b] = waiter[b]
    BY DEF RefreshInv, RefreshTypeOK
  <1>4. RefreshTypeOK'
    BY <1>1, <1>2, <1>3 DEF RefreshInv, RefreshTypeOK
  <1>5. HolderInv'
    <2>1. LaterOK'
      BY <1>1, <1>3 DEF RefreshInv, HolderInv, LaterOK, Attempts
    <2>2. MakerOK' /\ CarriedOK' /\ InstalledOK' /\ OpenOK'
      BY DEF RefreshInv, HolderInv, MakerOK, CarriedOK, InstalledOK, OpenOK
    <2>3. AcceptingOK'
      BY <1>1, <1>3 DEF RefreshInv, HolderInv, AcceptingOK, UIFree
    <2> QED BY <2>1, <2>2, <2>3 DEF HolderInv
  <1>6. GenerationOK'
    <2>1. step' # "adopt"
      BY DEF UIFree
    <2> QED BY <1>2, <2>1, GenerationKept DEF RefreshInv
  <1> QED BY <1>4, <1>5, <1>6 DEF RefreshInv

---------------------------------------------------------------------------
(* Installing, and the end of the application. *)

\* The result that is being accepted is refused, and closed.
LEMMA RefusedStep == RefreshInv /\ Refused => RefreshInv'
  <1> SUFFICES ASSUME RefreshInv, Refused PROVE RefreshInv'
    OBVIOUS
  <1> USE DEF Refused, destinationVars
  <1>1. accepting \in carried /\ accepting \in Connections /\ accepting # 0
           /\ maker[accepting] = "done" /\ installed # accepting
    <2>1. accepting \in carried /\ carried \subseteq Attempts
      BY DEF RefreshInv, RefreshTypeOK, HolderInv, AcceptingOK
    <2>2. maker[accepting] = "done" /\ installed # accepting
      BY <2>1 DEF RefreshInv, HolderInv, CarriedOK
    <2> QED BY <2>1, <2>2 DEF Attempts, Connections
  <1>2. /\ conn' \in [Connections -> {"none", "open", "closed"}]
        /\ conn'[accepting] # "open"
        /\ \A c \in Connections \ {accepting} : conn'[c] = conn[c]
    BY <1>1, ClosedType DEF RefreshInv
  <1>3. RefreshTypeOK'
    BY <1>2 DEF RefreshInv, RefreshTypeOK, Connections
  <1>4. HolderInv'
    <2>1. LaterOK' /\ MakerOK'
      BY <1>1, <1>2 DEF RefreshInv, HolderInv, LaterOK, MakerOK, Connections
    <2>2. CarriedOK' /\ InstalledOK' /\ OpenOK'
      BY <1>1, <1>2 DEF RefreshInv, RefreshTypeOK, HolderInv, CarriedOK, InstalledOK, OpenOK, Connections
    <2>3. AcceptingOK'
      BY DEF AcceptingOK
    <2> QED BY <2>1, <2>2, <2>3 DEF HolderInv
  <1>5. GenerationOK'
    BY GenerationKept DEF RefreshInv
  <1> QED BY <1>3, <1>4, <1>5 DEF RefreshInv

\* The connection that is being accepted comes into use.
LEMMA InstallStep == RefreshInv /\ Install => RefreshInv'
  <1> SUFFICES ASSUME RefreshInv, Install PROVE RefreshInv'
    OBVIOUS
  <1> USE DEF Install
  <1>1. accepting \in carried /\ accepting \in Connections /\ accepting # 0
           /\ maker[accepting] = "done" /\ installed # accepting /\ app # "closed"
           /\ installed \in Connections /\ conn[accepting] = "open"
    BY DEF RefreshInv, RefreshTypeOK, HolderInv, AcceptingOK, CarriedOK, Attempts
  <1>2. /\ conn' \in [Connections -> {"none", "open", "closed"}]
        /\ conn'[installed] # "open"
        /\ \A c \in Connections \ {installed} : conn'[c] = conn[c]
    BY <1>1, ClosedType DEF RefreshInv
  <1>3. /\ page' \in PageType /\ page'.generation = page.generation + 1
        /\ page'.started = page.started /\ page'.request = page.request
    BY DEF RefreshInv, RefreshTypeOK, PageType
  <1>4. RefreshTypeOK'
    BY <1>1, <1>2, <1>3 DEF RefreshInv, RefreshTypeOK
  <1>5. HolderInv'
    <2>1. LaterOK' /\ MakerOK'
      BY <1>1, <1>2 DEF RefreshInv, RefreshTypeOK, HolderInv, LaterOK, MakerOK, InstalledOK,
         Attempts, Connections
    <2>2. CarriedOK' /\ InstalledOK' /\ OpenOK'
      BY <1>1, <1>2 DEF RefreshInv, RefreshTypeOK, HolderInv, CarriedOK, InstalledOK, OpenOK, Connections
    <2>3. AcceptingOK'
      BY DEF RefreshInv, HolderInv, AcceptingOK
    <2> QED BY <2>1, <2>2, <2>3 DEF HolderInv
  <1>6. GenerationOK'
    <2>1. \A a \in 1..attempted : asked[a] \in Nat /\ asked[a] <= page.generation
      BY RefreshAssumption DEF RefreshInv, GenerationOK, RefreshTypeOK, Attempts
    <2>2. page.generation \in Nat /\ page.request <= revision /\ page.request \in Nat /\ revision \in Nat
      BY DEF RefreshInv, RefreshTypeOK, PageType, GenerationOK
    <2> QED BY <1>3, <2>1, <2>2 DEF GenerationOK, Current, SameDestination
  <1> QED BY <1>4, <1>5, <1>6 DEF RefreshInv

\* The page adopts the connection that came into use.
LEMMA AdoptStep == RefreshInv /\ Adopt => RefreshInv'
  <1> SUFFICES ASSUME RefreshInv, Adopt PROVE RefreshInv'
    OBVIOUS
  <1> USE DEF Adopt, destinationVars, attemptVars
  <1>1. /\ page' \in PageType /\ page'.generation = page.generation
        /\ page'.started = page.started /\ page'.request = revision
    BY DEF RefreshInv, RefreshTypeOK, PageType
  <1>2. RefreshTypeOK'
    BY <1>1 DEF RefreshInv, RefreshTypeOK, Connections
  <1>3. HolderInv'
    BY DEF RefreshInv, HolderInv, LaterOK, MakerOK, CarriedOK, InstalledOK, OpenOK, AcceptingOK
  <1>4. GenerationOK'
    <2>1. \A a \in 1..attempted : asked[a] \in Nat /\ asked[a] < page.generation
      BY RefreshAssumption DEF RefreshInv, GenerationOK, RefreshTypeOK, Attempts
    <2>2. page.generation \in Nat /\ revision \in Nat
      BY DEF RefreshInv, RefreshTypeOK, PageType
    <2> QED BY <1>1, <2>1, <2>2 DEF GenerationOK, Current
  <1> QED BY <1>2, <1>3, <1>4 DEF RefreshInv

\* Steps that decide or end, and close at most what the session uses.
LEMMA EndStep ==
    ASSUME RefreshInv, Compared \/ RequestExit \/ LoopEnds \/ CloseConnection
    PROVE  RefreshInv'
  <1> USE DEF Compared, RequestExit, LoopEnds, CloseConnection, destinationVars, attemptVars
  <1>1. installed \in Connections /\ installed \notin carried
           /\ (installed # 0 => maker[installed] = "done")
    BY DEF RefreshInv, RefreshTypeOK, HolderInv, CarriedOK, InstalledOK
  <1>2. /\ conn' \in [Connections -> {"none", "open", "closed"}]
        /\ \A c \in Connections \ {installed} : conn'[c] = conn[c]
        /\ \/ conn'[installed] = conn[installed] /\ (app' = "closed" <=> app = "closed")
           \/ conn'[installed] # "open" /\ app' = "closed"
    BY <1>1, ClosedType DEF RefreshInv, RefreshTypeOK, HolderInv, AcceptingOK
  <1>3. RefreshTypeOK'
    <2>1. ctx' \in [Attempts -> {"none", "live", "canceled", "expired"}]
      BY DEF RefreshInv, RefreshTypeOK
    <2> QED BY <1>2, <2>1 DEF RefreshInv, RefreshTypeOK
  <1>4. HolderInv'
    <2>1. LaterOK'
      BY DEF RefreshInv, HolderInv, LaterOK
    <2>2. MakerOK'
      <3>1. \A a \in Attempts : conn'[a] = conn[a] \/ maker[a] = "done"
        BY <1>1, <1>2 DEF Attempts, Connections
      <3>2. maker' = maker
        OBVIOUS
      <3> QED BY <3>1, <3>2 DEF RefreshInv, HolderInv, MakerOK
    <2>3. CarriedOK' /\ InstalledOK' /\ OpenOK'
      BY <1>1, <1>2 DEF RefreshInv, RefreshTypeOK, HolderInv, CarriedOK, InstalledOK, OpenOK, Connections
    <2>4. AcceptingOK'
      BY DEF RefreshInv, HolderInv, AcceptingOK
    <2> QED BY <2>1, <2>2, <2>3, <2>4 DEF HolderInv
  <1>5. GenerationOK'
    BY GenerationKept DEF RefreshInv
  <1> QED BY <1>3, <1>4, <1>5 DEF RefreshInv

\* A deadline only concerns its context.
LEMMA ExpireStep ==
    ASSUME RefreshInv, NEW a \in Attempts, Expire(a)
    PROVE  RefreshInv'
  <1> USE DEF Expire, destinationVars, useVars
  <1>1. RefreshTypeOK'
    BY DEF RefreshInv, RefreshTypeOK
  <1>2. HolderInv'
    BY HolderKept DEF RefreshInv
  <1>3. GenerationOK'
    BY GenerationKept DEF RefreshInv
  <1> QED BY <1>1, <1>2, <1>3 DEF RefreshInv

---------------------------------------------------------------------------
(* What a reconnection promises. *)

\* The invariant holds when the program starts.
LEMMA RefreshStart == RefreshInit => RefreshInv
  <1> SUFFICES ASSUME RefreshInit PROVE RefreshInv
    OBVIOUS
  <1> USE DEF RefreshInit
  <1>1. RefreshTypeOK
    <2>1. page \in PageType
      BY DEF PageType, Connections
    <2>2. attempted \in 0..MaxAttempts
      BY RefreshAssumption
    <2> QED BY <2>1, <2>2 DEF RefreshTypeOK, Connections
  <1>2. HolderInv
    BY DEF HolderInv, LaterOK, MakerOK, CarriedOK, InstalledOK, OpenOK, AcceptingOK, Connections, Attempts
  <1>3. GenerationOK
    BY DEF GenerationOK
  <1> QED BY <1>1, <1>2, <1>3 DEF RefreshInv

\* Every step keeps the invariant.
LEMMA RefreshStep == RefreshInv /\ [RefreshNext]_refreshVars => RefreshInv'
  BY RecheckStep, StartStep, StopStep, RefreshSessionStep, DestinationStep, HealthStep,
     MakerStep, HandStep, WaiterStep, AnswerStep, RefusedStep, InstallStep, AdoptStep,
     EndStep, ExpireStep, RefreshStutter
  DEF RefreshNext, Attempt

\* The strengthened invariant holds for any number of reconnections, visits and changes
\* of the destination.
THEOREM RefreshInvariant == RefreshSpec => []RefreshInv
  BY RefreshStart, RefreshStep, PTL DEF RefreshSpec

\* Every variable keeps its type.
THEOREM RefreshTypeCorrect == RefreshSpec => []RefreshTypeOK
  <1>1. RefreshInv => RefreshTypeOK
    BY DEF RefreshInv
  <1> QED BY <1>1, RefreshInvariant, PTL

\* The holders of an open connection are one, those of any other none.
LEMMA HoldersCount == RefreshInv => ConnectionsAreHeld
  <1> SUFFICES ASSUME RefreshInv, NEW c \in Connections
               PROVE  Cardinality(Holders(c)) = IF conn[c] = "open" THEN 1 ELSE 0
    BY DEF ConnectionsAreHeld, Connections
  <1> DEFINE ByMaker == c # 0 /\ maker[c] = "offering" /\ conn[c] # "none"
             BySession == installed = c /\ app # "closed"
  <1>1. Holders(c) = {h \in {"session", "maker", "waiter"} :
            \/ h = "session" /\ BySession
            \/ h = "waiter" /\ c \in carried
            \/ h = "maker" /\ ByMaker}
    BY DEF Holders
  <1>2. c # 0 => c \in Attempts
    BY DEF Connections
  <1>3. /\ ByMaker => c \notin carried /\ ~BySession /\ conn[c] = "open"
        /\ c \in carried => ~BySession /\ conn[c] = "open"
        /\ BySession => conn[c] = "open"
    BY <1>2 DEF RefreshInv, RefreshTypeOK, HolderInv, MakerOK, CarriedOK, InstalledOK
  <1>4. conn[c] = "open" => ByMaker \/ c \in carried \/ BySession
    BY <1>2 DEF RefreshInv, HolderInv, OpenOK
  <1> HIDE DEF ByMaker, BySession
  <1>5. CASE conn[c] = "open"
    <2>1. \E h : Holders(c) = {h}
      <3>1. CASE ByMaker
        <4>1. Holders(c) = {"maker"}
          BY <1>1, <1>3, <3>1
        <4> QED BY <4>1
      <3>2. CASE c \in carried
        <4>1. Holders(c) = {"waiter"}
          BY <1>1, <1>3, <3>2
        <4> QED BY <4>1
      <3>3. CASE BySession
        <4>1. Holders(c) = {"session"}
          BY <1>1, <1>3, <3>3
        <4> QED BY <4>1
      <3> QED BY <1>4, <1>5, <3>1, <3>2, <3>3
    <2> QED BY <1>5, <2>1, FS_Singleton
  <1>6. CASE conn[c] # "open"
    <2>1. Holders(c) = {}
      BY <1>1, <1>3, <1>6
    <2> QED BY <1>6, <2>1, FS_EmptySet
  <1> QED BY <1>5, <1>6

\* A connection is in use, on its way to it or closed, and never two of these.
THEOREM ConnectionsAreHeldHolds == RefreshSpec => []ConnectionsAreHeld
  BY HoldersCount, RefreshInvariant, PTL

\* A connection comes into use only if it is of the last wish.
LEMMA InstalledStep ==
    RefreshInv /\ [RefreshNext]_refreshVars =>
        [installed' # installed => installed' = wish]_refreshVars
  <1> SUFFICES ASSUME RefreshInv, RefreshNext, installed' # installed
               PROVE  installed' = wish
    BY DEF refreshVars
  <1>1. Install
    BY DEF RefreshNext, Attempt, Start, Stop, Recheck, RefreshSession, Choose, Reload,
           DestinationChanges, HealthAccepted, PrepareFails, Build, Withdraw, Prepare, Hand,
           WaitOver, Discard, Queue, Stale, Waits, Failed, Accept, Expire, Refused, Compared,
           Adopt, RequestExit, LoopEnds, CloseConnection, useVars
  <1> QED BY <1>1 DEF Install, RefreshInv, HolderInv, AcceptingOK

\* Only what the user asked for last comes into use, whatever arrives late.
THEOREM InstalledIsWishedHolds == RefreshSpec => InstalledIsWished
  BY RefreshInvariant, InstalledStep, PTL DEF RefreshSpec, InstalledIsWished
=============================================================================
