------------------------ MODULE OperationLedgerProofs ------------------------
(***************************************************************************)
(* Proofs about OperationLedger, for every number of operations, targets   *)
(* and writers, and every limit.                                           *)
(***************************************************************************)
EXTENDS OperationLedger, FiniteSetTheorems, WellFoundedInduction, TLAPS

UnderWay == {"begun", "accepted"}

\* Targets after the one the worker is at were not touched yet.
AheadInv(t) ==
    \A i \in Positions : i > position[t] =>
        /\ outcome[t][i] = "PENDING"
        /\ ~ attempted[t][i]
        /\ steps[t][i] = 0
        /\ shown[t][i] = 0

\* Targets before it are settled, with their whole list of steps.
BehindInv(t) ==
    \A i \in Positions : outcome[t][i] \in Settled =>
        /\ i < position[t] \/ phase[t] \in {"ending", "ended"}
        /\ shown[t][i] = steps[t][i]
        /\ outcome[t][i] \in {"CANCELED", "NOT SUBMITTED"} => ~ attempted[t][i]

\* Before the work begins nothing was attempted for the target, writers are
\* under way only during the work, and a refused target had no work at all.
WorkInv(t) ==
    LET i == position[t] IN
    /\ phase[t] \in {"none", "next", "checked"} =>
          /\ ~ attempted[t][i]
          /\ \A w \in Writers : writer[t][w] = "idle"
          /\ t \notin refused
          /\ err[t] = {}
    /\ phase[t] = "working" => t \notin refused
    /\ phase[t] # "working" => \A w \in Writers : writer[t][w] \notin UnderWay
    /\ t \in refused => ~ attempted[t][i]

TaskInv(t) == AheadInv(t) /\ BehindInv(t) /\ WorkInv(t)

LedgerIInv ==
    /\ LedgerTypeOK
    /\ \A t \in Tasks : t > next => phase[t] = "none"
    /\ \A t \in Tasks : TaskInv(t)

-----------------------------------------------------------------------------
\* What a task's invariant speaks of.
Same(t) ==
    /\ phase'[t] = phase[t] /\ position'[t] = position[t]
    /\ (t \in refused') = (t \in refused) /\ err'[t] = err[t]
    /\ writer'[t] = writer[t] /\ attempted'[t] = attempted[t]
    /\ steps'[t] = steps[t] /\ outcome'[t] = outcome[t] /\ shown'[t] = shown[t]

\* A step that leaves a task's worker, progress and receipt alone keeps its
\* invariant.
LEMMA SameKeepsTaskInv ==
    ASSUME NEW t \in Tasks, TaskInv(t), Same(t)
    PROVE  TaskInv(t)'
<1>1. AheadInv(t)'
  BY DEF TaskInv, AheadInv, Same
<1>2. BehindInv(t)'
  BY DEF TaskInv, BehindInv, Same
<1>3. WorkInv(t)'
  BY DEF TaskInv, WorkInv, Same
<1>4. QED
  BY <1>1, <1>2, <1>3 DEF TaskInv

\* One entry of a function changes and the others stay.
LEMMA EntryChanged ==
    ASSUME NEW D, NEW R, NEW f \in [D -> R], NEW d \in D, NEW v \in R, NEW g,
           g = [f EXCEPT ![d] = v]
    PROVE  /\ g \in [D -> R]
           /\ g[d] = v
           /\ \A e \in D : e # d => g[e] = f[e]
OBVIOUS

\* The same for an entry of an entry.
LEMMA InnerEntryChanged ==
    ASSUME NEW D, NEW E, NEW R, NEW f \in [D -> [E -> R]], NEW d \in D,
           NEW e \in E, NEW v \in R, NEW g,
           g = [f EXCEPT ![d][e] = v]
    PROVE  /\ g \in [D -> [E -> R]]
           /\ g[d][e] = v
           /\ \A x \in E : x # e => g[d][x] = f[d][x]
           /\ \A y \in D : y # d => g[y] = f[y]
OBVIOUS

LEMMA InitLedgerIInv == Init => LedgerIInv
<1> SUFFICES ASSUME Init PROVE LedgerIInv
  OBVIOUS
<1>1. 1 \in Positions /\ 0 \in 0 .. MaxSteps /\ 0 \in 0 .. MaxTasks
  BY LedgerAssumption DEF Positions
<1>2. LedgerTypeOK
  <2>1. /\ phase \in [Tasks -> {"none", "next", "checked", "working", "returned",
                                "ending", "ended"}]
        /\ position \in [Tasks -> Positions]
        /\ err \in [Tasks -> SUBSET {"context", "definite", "uncertain"}]
    BY <1>1 DEF Init
  <2>2. /\ writer \in [Tasks -> [Writers -> {"idle", "begun", "accepted", "done",
                                             "failed"}]]
        /\ copy \in [Tasks -> [Writers -> 0 .. MaxSteps]]
    BY <1>1 DEF Init
  <2>3. /\ attempted \in [Tasks -> [Positions -> BOOLEAN]]
        /\ steps \in [Tasks -> [Positions -> 0 .. MaxSteps]]
    BY <1>1 DEF Init
  <2>4. /\ outcome \in [Tasks -> [Positions -> Settled \union {"PENDING", "RUNNING"}]]
        /\ shown \in [Tasks -> [Positions -> 0 .. MaxSteps]]
    BY <1>1 DEF Init
  <2>5. QED
    BY <1>1, <2>1, <2>2, <2>3, <2>4 DEF Init, LedgerTypeOK
<1>3. ASSUME NEW t \in Tasks PROVE TaskInv(t)
  <2>1. AheadInv(t)
    BY DEF Init, AheadInv
  <2>2. BehindInv(t)
    BY DEF Init, BehindInv, Settled
  <2>3. WorkInv(t)
    BY <1>1 DEF Init, WorkInv, UnderWay
  <2>4. QED
    BY <2>1, <2>2, <2>3 DEF TaskInv
<1>4. QED
  BY <1>2, <1>3 DEF LedgerIInv, Init

LEMMA SubmitInv ==
    ASSUME LedgerIInv, Submit
    PROVE  LedgerIInv'
<1> DEFINE new == next + 1
<1>1. new \in Tasks /\ next' = new /\ next' \in 0 .. MaxTasks
  BY LedgerAssumption DEF LedgerIInv, LedgerTypeOK, Submit, Tasks
<1>2. retained' \subseteq 1 .. next'
  <2>1. MakeRoom \subseteq retained
    BY DEF MakeRoom
  <2>2. retained' = MakeRoom \union {new}
    BY DEF Submit
  <2>3. 1 .. next \subseteq 1 .. new /\ new \in 1 .. new
    <3>1. next \in Nat
      BY LedgerAssumption DEF LedgerIInv, LedgerTypeOK
    <3>2. QED
      BY <3>1
  <2>4. retained \subseteq 1 .. next
    BY DEF LedgerIInv, LedgerTypeOK
  <2>5. QED
    BY <1>1, <2>1, <2>2, <2>3, <2>4
<1>3. /\ phase' \in [Tasks -> {"none", "next", "checked", "working", "returned",
                               "ending", "ended"}]
      /\ phase'[new] = "next"
      /\ \A t \in Tasks : t # new => phase'[t] = phase[t]
  BY <1>1 DEF LedgerIInv, LedgerTypeOK, Submit
<1>4. LedgerTypeOK'
  <2>1. ended' \subseteq 1 .. next' /\ over' \subseteq 1 .. next' /\ cancelled' \subseteq over'
    BY <1>1 DEF LedgerIInv, LedgerTypeOK, Submit, cancelVars, Tasks
  <2>2. QED
    BY <1>1, <1>2, <1>3, <2>1 DEF LedgerIInv, LedgerTypeOK, Submit, workVars,
       progressVars, receiptVars
<1>5. \A t \in Tasks : t > next' => phase'[t] = "none"
  BY <1>1, <1>3 DEF LedgerIInv, LedgerTypeOK, Tasks
<1>6. ASSUME NEW t \in Tasks PROVE TaskInv(t)'
  <2>1. CASE t # new
    <3>1. Same(t)
      BY <1>3, <2>1 DEF Submit, Same, workVars, progressVars, receiptVars
    <3>2. QED
      BY <3>1, SameKeepsTaskInv DEF LedgerIInv
  <2>2. CASE t = new
    <3>1. phase[t] = "none" /\ TaskInv(t) /\ phase'[t] = "next"
      BY <1>1, <1>3, <2>2 DEF LedgerIInv, LedgerTypeOK, Tasks
    <3>2. /\ position' = position /\ refused' = refused /\ err' = err
          /\ writer' = writer /\ attempted' = attempted /\ steps' = steps
          /\ outcome' = outcome /\ shown' = shown
      BY DEF Submit, workVars, progressVars, receiptVars
    <3>3. AheadInv(t)' /\ BehindInv(t)'
      BY <3>1, <3>2 DEF TaskInv, AheadInv, BehindInv
    <3>4. WorkInv(t)'
      BY <3>1, <3>2 DEF TaskInv, WorkInv
    <3>5. QED
      BY <3>3, <3>4 DEF TaskInv
  <2>3. QED
    BY <2>1, <2>2
<1>7. QED
  BY <1>4, <1>5, <1>6 DEF LedgerIInv

\* Steps of a task outside its worker: the contexts.
LEMMA CancelInv ==
    ASSUME LedgerIInv, NEW t \in Tasks, Cancel(t) \/ Deadline(t)
    PROVE  LedgerIInv'
<1>1. /\ UNCHANGED <<registryVars, phase, workVars, progressVars, receiptVars>>
      /\ over' = over \union {t} /\ t \in 1 .. next
      /\ cancelled' \subseteq over'
  BY DEF Cancel, Deadline, LedgerIInv, LedgerTypeOK, Unended
<1>2. LedgerTypeOK'
  BY <1>1 DEF LedgerIInv, LedgerTypeOK, registryVars, workVars, progressVars,
     receiptVars
<1>3. ASSUME NEW u \in Tasks PROVE TaskInv(u)'
  BY <1>1, SameKeepsTaskInv DEF LedgerIInv, Same, workVars, progressVars, receiptVars
<1>4. QED
  BY <1>1, <1>2, <1>3 DEF LedgerIInv, registryVars

\* What is left to show for a step of the worker or of a writer of task t: the
\* types of what it changes, and the invariant of t itself.
LEMMA StepOfTask ==
    ASSUME LedgerIInv, NEW t \in Tasks, LedgerTypeOK', TaskInv(t)',
           next' = next, phase[t] # "none",
           \A u \in Tasks : u # t => Same(u)
    PROVE  LedgerIInv'
<1>1. \A u \in Tasks : TaskInv(u)'
  BY SameKeepsTaskInv DEF LedgerIInv
<1>2. \A u \in Tasks : u > next' => phase'[u] = "none"
  BY DEF LedgerIInv, Same
<1>3. QED
  BY <1>1, <1>2 DEF LedgerIInv

\* GoTo changes the phase of one task.
LEMMA GoToPhase ==
    ASSUME LedgerTypeOK, NEW t \in Tasks, NEW p, GoTo(t, p),
           p \in {"none", "next", "checked", "working", "returned", "ending", "ended"}
    PROVE  /\ phase' \in [Tasks -> {"none", "next", "checked", "working",
                                    "returned", "ending", "ended"}]
           /\ phase'[t] = p
           /\ \A u \in Tasks : u # t => phase'[u] = phase[u]
BY DEF GoTo, LedgerTypeOK

LEMMA RefuseInv ==
    ASSUME LedgerIInv, NEW t \in Tasks, Refuse(t)
    PROVE  LedgerIInv'
<1>1. GoTo(t, "returned") /\ phase[t] = "next" /\ LedgerTypeOK /\ TaskInv(t)
  BY DEF Refuse, LedgerIInv
<1>2. /\ phase' \in [Tasks -> {"none", "next", "checked", "working", "returned",
                               "ending", "ended"}]
      /\ phase'[t] = "returned"
      /\ \A u \in Tasks : u # t => phase'[u] = phase[u]
  BY <1>1, GoToPhase
<1>3. /\ err' \in [Tasks -> SUBSET {"context", "definite", "uncertain"}]
      /\ \A u \in Tasks : u # t => err'[u] = err[u]
  <2>1. PICK e \in SUBSET {"context", "definite", "uncertain"} :
             err' = [err EXCEPT ![t] = e]
    <3>1. \/ err' = [err EXCEPT ![t] = {"context"}]
          \/ err' = [err EXCEPT ![t] = {"definite"}]
      BY DEF Refuse
    <3>2. QED
      BY <3>1
  <2>2. QED
    BY <1>1, <2>1, EntryChanged DEF LedgerTypeOK
<1>4. /\ refused' = refused \union {t}
      /\ next' = next /\ retained' = retained /\ ended' = ended
      /\ cancelled' = cancelled /\ over' = over /\ position' = position
      /\ writer' = writer /\ copy' = copy /\ attempted' = attempted
      /\ steps' = steps /\ outcome' = outcome /\ shown' = shown
  BY DEF Refuse, registryVars, cancelVars, progressVars, receiptVars
<1>5. LedgerTypeOK'
  BY <1>1, <1>2, <1>3, <1>4 DEF LedgerTypeOK
<1>6. AheadInv(t)' /\ BehindInv(t)'
  BY <1>1, <1>2, <1>4 DEF TaskInv, AheadInv, BehindInv
<1>7. WorkInv(t)'
  BY <1>1, <1>2, <1>4 DEF TaskInv, WorkInv, UnderWay
<1>8. \A u \in Tasks : u # t => Same(u)
  BY <1>2, <1>3, <1>4 DEF Same
<1>9. QED
  BY <1>1, <1>4, <1>5, <1>6, <1>7, <1>8, StepOfTask DEF TaskInv

LEMMA CheckInv ==
    ASSUME LedgerIInv, NEW t \in Tasks, Check(t)
    PROVE  LedgerIInv'
<1>1. GoTo(t, "checked") /\ phase[t] = "next" /\ LedgerTypeOK /\ TaskInv(t)
  BY DEF Check, LedgerIInv
<1>2. /\ phase' \in [Tasks -> {"none", "next", "checked", "working", "returned",
                               "ending", "ended"}]
      /\ phase'[t] = "checked"
      /\ \A u \in Tasks : u # t => phase'[u] = phase[u]
  BY <1>1, GoToPhase
<1>3. /\ next' = next /\ retained' = retained /\ ended' = ended
      /\ cancelled' = cancelled /\ over' = over /\ position' = position
      /\ refused' = refused /\ err' = err
      /\ writer' = writer /\ copy' = copy /\ attempted' = attempted
      /\ steps' = steps /\ outcome' = outcome /\ shown' = shown
  BY DEF Check, registryVars, cancelVars, workVars, progressVars, receiptVars
<1>4. LedgerTypeOK'
  BY <1>1, <1>2, <1>3 DEF LedgerTypeOK
<1>5. AheadInv(t)' /\ BehindInv(t)'
  BY <1>1, <1>2, <1>3 DEF TaskInv, AheadInv, BehindInv
<1>6. WorkInv(t)'
  BY <1>1, <1>2, <1>3 DEF TaskInv, WorkInv, UnderWay
<1>7. \A u \in Tasks : u # t => Same(u)
  BY <1>2, <1>3 DEF Same
<1>8. QED
  BY <1>1, <1>3, <1>4, <1>5, <1>6, <1>7, StepOfTask DEF TaskInv

\* The receipt says RUNNING: the target was not settled.
LEMMA StartInv ==
    ASSUME LedgerIInv, NEW t \in Tasks, Start(t)
    PROVE  LedgerIInv'
<1> DEFINE i == position[t]
<1>1. GoTo(t, "working") /\ phase[t] = "checked" /\ LedgerTypeOK /\ TaskInv(t)
  BY DEF Start, LedgerIInv
<1>2. /\ phase' \in [Tasks -> {"none", "next", "checked", "working", "returned",
                               "ending", "ended"}]
      /\ phase'[t] = "working"
      /\ \A u \in Tasks : u # t => phase'[u] = phase[u]
  BY <1>1, GoToPhase
<1>3. i \in Positions
  BY <1>1 DEF LedgerTypeOK
<1>4. /\ outcome' \in [Tasks -> [Positions -> Settled \union {"PENDING", "RUNNING"}]]
      /\ outcome'[t][i] = "RUNNING"
      /\ \A j \in Positions : j # i => outcome'[t][j] = outcome[t][j]
      /\ \A u \in Tasks : u # t => outcome'[u] = outcome[u]
  BY <1>1, <1>3, InnerEntryChanged DEF Start, LedgerTypeOK
<1>5. /\ next' = next /\ retained' = retained /\ ended' = ended
      /\ cancelled' = cancelled /\ over' = over /\ position' = position
      /\ refused' = refused /\ err' = err
      /\ writer' = writer /\ copy' = copy /\ attempted' = attempted
      /\ steps' = steps /\ shown' = shown
  BY DEF Start, registryVars, cancelVars, workVars, progressVars
<1>6. LedgerTypeOK'
  BY <1>1, <1>2, <1>4, <1>5 DEF LedgerTypeOK
<1>7. AheadInv(t)'
  BY <1>1, <1>3, <1>4, <1>5 DEF TaskInv, AheadInv, Positions
<1>8. BehindInv(t)'
  BY <1>1, <1>2, <1>3, <1>4, <1>5 DEF TaskInv, BehindInv, Settled
<1>9. WorkInv(t)'
  BY <1>1, <1>2, <1>5 DEF TaskInv, WorkInv
<1>10. \A u \in Tasks : u # t => Same(u)
  BY <1>2, <1>4, <1>5 DEF Same
<1>11. QED
  BY <1>1, <1>5, <1>6, <1>7, <1>8, <1>9, <1>10, StepOfTask DEF TaskInv

\* A writer acts: the work is under way, so its target is not settled.
LEMMA WriterActs ==
    ASSUME LedgerIInv, NEW t \in Tasks, NEW w \in Writers, writer[t][w] \in UnderWay
    PROVE  phase[t] = "working"
BY DEF LedgerIInv, TaskInv, WorkInv

\* A step of a writer, or a change of the progress or of the shown steps, at the
\* target the working task is at keeps the task's invariant.
LEMMA ProgressAtPosition ==
    ASSUME LedgerIInv, NEW t \in Tasks, phase[t] = "working",
           phase' = phase, position' = position, refused' = refused,
           outcome' = outcome,
           \A j \in Positions : j # position[t] =>
               /\ attempted'[t][j] = attempted[t][j]
               /\ steps'[t][j] = steps[t][j]
               /\ shown'[t][j] = shown[t][j]
    PROVE  TaskInv(t)'
<1>1. TaskInv(t) /\ position[t] \in Positions
  BY DEF LedgerIInv, LedgerTypeOK
<1>2. AheadInv(t)'
  BY <1>1 DEF TaskInv, AheadInv, Positions
<1>3. outcome[t][position[t]] \notin Settled
  <2>1. ~ (position[t] < position[t])
    BY <1>1, LedgerAssumption DEF Positions
  <2>2. outcome[t][position[t]] \in Settled =>
           position[t] < position[t] \/ phase[t] \in {"ending", "ended"}
    BY <1>1 DEF TaskInv, BehindInv
  <2>3. QED
    BY <2>1, <2>2
<1>4. BehindInv(t)'
  BY <1>1, <1>3 DEF TaskInv, BehindInv
<1>5. WorkInv(t)'
  BY <1>1 DEF TaskInv, WorkInv
<1>6. QED
  BY <1>2, <1>4, <1>5 DEF TaskInv

LEMMA BeginWriteInv ==
    ASSUME LedgerIInv, NEW t \in Tasks, NEW w \in Writers, BeginWrite(t, w)
    PROVE  LedgerIInv'
<1> DEFINE i == position[t]
<1>1. phase[t] = "working" /\ LedgerTypeOK /\ i \in Positions
  BY DEF BeginWrite, LedgerIInv, LedgerTypeOK
<1>2. /\ writer' \in [Tasks -> [Writers -> {"idle", "begun", "accepted", "done",
                                            "failed"}]]
      /\ \A u \in Tasks : u # t => writer'[u] = writer[u]
  BY <1>1, InnerEntryChanged DEF BeginWrite, LedgerTypeOK
<1>3. /\ attempted' \in [Tasks -> [Positions -> BOOLEAN]]
      /\ \A j \in Positions : j # i => attempted'[t][j] = attempted[t][j]
      /\ \A u \in Tasks : u # t => attempted'[u] = attempted[u]
  BY <1>1, InnerEntryChanged DEF BeginWrite, LedgerTypeOK
<1>4. /\ next' = next /\ retained' = retained /\ ended' = ended
      /\ cancelled' = cancelled /\ over' = over /\ position' = position
      /\ refused' = refused /\ err' = err /\ phase' = phase
      /\ copy' = copy /\ steps' = steps /\ outcome' = outcome /\ shown' = shown
  BY DEF BeginWrite, registryVars, cancelVars, workVars, receiptVars
<1>5. LedgerTypeOK'
  BY <1>1, <1>2, <1>3, <1>4 DEF LedgerTypeOK
<1>6. TaskInv(t)'
  BY <1>1, <1>3, <1>4, ProgressAtPosition
<1>7. \A u \in Tasks : u # t => Same(u)
  BY <1>2, <1>3, <1>4 DEF Same
<1>8. QED
  BY <1>1, <1>4, <1>5, <1>6, <1>7, StepOfTask

LEMMA WriteFailsInv ==
    ASSUME LedgerIInv, NEW t \in Tasks, NEW w \in Writers, WriteFails(t, w)
    PROVE  LedgerIInv'
<1>1. phase[t] = "working" /\ LedgerTypeOK
  BY WriterActs DEF WriteFails, UnderWay, LedgerIInv
<1>2. /\ writer' \in [Tasks -> [Writers -> {"idle", "begun", "accepted", "done",
                                            "failed"}]]
      /\ \A u \in Tasks : u # t => writer'[u] = writer[u]
  BY <1>1, InnerEntryChanged DEF WriteFails, LedgerTypeOK
<1>3. /\ next' = next /\ retained' = retained /\ ended' = ended
      /\ cancelled' = cancelled /\ over' = over /\ position' = position
      /\ refused' = refused /\ err' = err /\ phase' = phase
      /\ copy' = copy /\ attempted' = attempted /\ steps' = steps
      /\ outcome' = outcome /\ shown' = shown
  BY DEF WriteFails, registryVars, cancelVars, workVars, receiptVars
<1>4. LedgerTypeOK'
  BY <1>1, <1>2, <1>3 DEF LedgerTypeOK
<1>5. TaskInv(t)'
  BY <1>1, <1>3, ProgressAtPosition
<1>6. \A u \in Tasks : u # t => Same(u)
  BY <1>2, <1>3 DEF Same
<1>7. QED
  BY <1>1, <1>3, <1>4, <1>5, <1>6, StepOfTask

\* The list of steps stays within its limit.
LEMMA OneMoreBounded ==
    ASSUME NEW n \in 0 .. MaxSteps
    PROVE  OneMore(n) \in 0 .. MaxSteps
BY LedgerAssumption DEF OneMore

LEMMA AcceptWriteInv ==
    ASSUME LedgerIInv, NEW t \in Tasks, NEW w \in Writers, AcceptWrite(t, w)
    PROVE  LedgerIInv'
<1> DEFINE i == position[t]
<1>1. phase[t] = "working" /\ LedgerTypeOK
  BY WriterActs DEF AcceptWrite, UnderWay, LedgerIInv
<1>2. i \in Positions /\ OneMore(steps[t][i]) \in 0 .. MaxSteps
  <2>1. i \in Positions /\ steps[t][i] \in 0 .. MaxSteps
    BY <1>1 DEF LedgerTypeOK
  <2>2. QED
    BY <2>1, OneMoreBounded
<1>3. /\ writer' \in [Tasks -> [Writers -> {"idle", "begun", "accepted", "done",
                                            "failed"}]]
      /\ \A u \in Tasks : u # t => writer'[u] = writer[u]
  BY <1>1, InnerEntryChanged DEF AcceptWrite, LedgerTypeOK
<1>4. /\ steps' \in [Tasks -> [Positions -> 0 .. MaxSteps]]
      /\ \A j \in Positions : j # i => steps'[t][j] = steps[t][j]
      /\ \A u \in Tasks : u # t => steps'[u] = steps[u]
  <2>1. steps' = [steps EXCEPT ![t][i] = OneMore(steps[t][i])]
    BY <1>1, <1>2 DEF AcceptWrite, LedgerTypeOK
  <2>2. QED
    BY <1>1, <1>2, <2>1, InnerEntryChanged DEF LedgerTypeOK
<1>5. copy' \in [Tasks -> [Writers -> 0 .. MaxSteps]]
  BY <1>1, <1>2, InnerEntryChanged DEF AcceptWrite, LedgerTypeOK
<1>6. /\ next' = next /\ retained' = retained /\ ended' = ended
      /\ cancelled' = cancelled /\ over' = over /\ position' = position
      /\ refused' = refused /\ err' = err /\ phase' = phase
      /\ attempted' = attempted /\ outcome' = outcome /\ shown' = shown
  BY DEF AcceptWrite, registryVars, cancelVars, workVars, receiptVars
<1>7. LedgerTypeOK'
  BY <1>1, <1>3, <1>4, <1>5, <1>6 DEF LedgerTypeOK
<1>8. TaskInv(t)'
  BY <1>1, <1>4, <1>6, ProgressAtPosition
<1>9. \A u \in Tasks : u # t => Same(u)
  BY <1>3, <1>4, <1>6 DEF Same
<1>10. QED
  BY <1>1, <1>6, <1>7, <1>8, <1>9, StepOfTask

LEMMA PublishInv ==
    ASSUME LedgerIInv, NEW t \in Tasks, NEW w \in Writers, Publish(t, w)
    PROVE  LedgerIInv'
<1> DEFINE i == position[t]
<1>1. phase[t] = "working" /\ LedgerTypeOK /\ i \in Positions
  BY WriterActs DEF Publish, UnderWay, LedgerIInv, LedgerTypeOK
<1>2. /\ writer' \in [Tasks -> [Writers -> {"idle", "begun", "accepted", "done",
                                            "failed"}]]
      /\ \A u \in Tasks : u # t => writer'[u] = writer[u]
  BY <1>1, InnerEntryChanged DEF Publish, LedgerTypeOK
<1>3. /\ shown' \in [Tasks -> [Positions -> 0 .. MaxSteps]]
      /\ \A j \in Positions : j # i => shown'[t][j] = shown[t][j]
      /\ \A u \in Tasks : u # t => shown'[u] = shown[u]
  <2>1. copy[t][w] \in 0 .. MaxSteps
    BY <1>1 DEF LedgerTypeOK
  <2>2. QED
    BY <1>1, <2>1, InnerEntryChanged DEF Publish, LedgerTypeOK
<1>4. /\ next' = next /\ retained' = retained /\ ended' = ended
      /\ cancelled' = cancelled /\ over' = over /\ position' = position
      /\ refused' = refused /\ err' = err /\ phase' = phase
      /\ copy' = copy /\ attempted' = attempted /\ steps' = steps
      /\ outcome' = outcome
  BY DEF Publish, registryVars, cancelVars, workVars
<1>5. LedgerTypeOK'
  BY <1>1, <1>2, <1>3, <1>4 DEF LedgerTypeOK
<1>6. TaskInv(t)'
  BY <1>1, <1>3, <1>4, ProgressAtPosition
<1>7. \A u \in Tasks : u # t => Same(u)
  BY <1>2, <1>3, <1>4 DEF Same
<1>8. QED
  BY <1>1, <1>4, <1>5, <1>6, <1>7, StepOfTask

\* The work returns when all its writers are through.
LEMMA WorkReturnsInv ==
    ASSUME LedgerIInv, NEW t \in Tasks, WorkReturns(t)
    PROVE  LedgerIInv'
<1>1. /\ GoTo(t, "returned") /\ phase[t] = "working"
      /\ \A w \in Writers : writer[t][w] \notin UnderWay
      /\ LedgerTypeOK /\ TaskInv(t)
  BY DEF WorkReturns, LedgerIInv, UnderWay
<1>2. /\ phase' \in [Tasks -> {"none", "next", "checked", "working", "returned",
                               "ending", "ended"}]
      /\ phase'[t] = "returned"
      /\ \A u \in Tasks : u # t => phase'[u] = phase[u]
  BY <1>1, GoToPhase
<1>3. /\ err' \in [Tasks -> SUBSET {"context", "definite", "uncertain"}]
      /\ \A u \in Tasks : u # t => err'[u] = err[u]
  BY <1>1 DEF WorkReturns, LedgerTypeOK
<1>4. /\ next' = next /\ retained' = retained /\ ended' = ended
      /\ cancelled' = cancelled /\ over' = over /\ position' = position
      /\ refused' = refused
      /\ writer' = writer /\ copy' = copy /\ attempted' = attempted
      /\ steps' = steps /\ outcome' = outcome /\ shown' = shown
  BY DEF WorkReturns, registryVars, cancelVars, progressVars, receiptVars
<1>5. LedgerTypeOK'
  BY <1>1, <1>2, <1>3, <1>4 DEF LedgerTypeOK
<1>6. AheadInv(t)' /\ BehindInv(t)'
  BY <1>1, <1>2, <1>4 DEF TaskInv, AheadInv, BehindInv
<1>7. WorkInv(t)'
  BY <1>1, <1>2, <1>4 DEF TaskInv, WorkInv
<1>8. \A u \in Tasks : u # t => Same(u)
  BY <1>2, <1>3, <1>4 DEF Same
<1>9. QED
  BY <1>1, <1>4, <1>5, <1>6, <1>7, <1>8, StepOfTask DEF TaskInv

\* The state of a settled target is a settled one, and one of those that exclude
\* a write only if none was attempted.
LEMMA ResultStates ==
    ASSUME NEW e, NEW notSubmitted \in BOOLEAN, NEW wasAttempted \in BOOLEAN,
           notSubmitted => ~ wasAttempted,
           NEW s \in ResultState(e, notSubmitted, wasAttempted)
    PROVE  /\ s \in Settled
           /\ s \in {"CANCELED", "NOT SUBMITTED"} => ~ wasAttempted
<1>1. CASE e = {}
  BY <1>1 DEF ResultState, Settled
<1>2. CASE e # {} /\ "context" \in e
  BY <1>2 DEF ResultState, Settled
<1>3. CASE e # {} /\ "context" \notin e
  BY <1>3 DEF ResultState, Settled
<1>4. QED
  BY <1>1, <1>2, <1>3

LEMMA SettleInv ==
    ASSUME LedgerIInv, NEW t \in Tasks, Settle(t)
    PROVE  LedgerIInv'
<1> DEFINE i == position[t]
<1>1. /\ phase[t] = "returned" /\ LedgerTypeOK /\ TaskInv(t)
      /\ i \in Positions
  BY DEF Settle, LedgerIInv, LedgerTypeOK
<1>2. PICK s \in ResultState(Joined(t), t \in refused, attempted[t][i]) :
          outcome' = [outcome EXCEPT ![t][i] = s]
  BY DEF Settle
<1>3. s \in Settled /\ (s \in {"CANCELED", "NOT SUBMITTED"} => ~ attempted[t][i])
  <2>1. attempted[t][i] \in BOOLEAN /\ (t \in refused) \in BOOLEAN
    BY <1>1 DEF LedgerTypeOK
  <2>2. t \in refused => ~ attempted[t][i]
    BY <1>1 DEF TaskInv, WorkInv
  <2>3. QED
    BY <1>2, <2>1, <2>2, ResultStates
<1>4. /\ outcome' \in [Tasks -> [Positions -> Settled \union {"PENDING", "RUNNING"}]]
      /\ outcome'[t][i] = s
      /\ \A j \in Positions : j # i => outcome'[t][j] = outcome[t][j]
      /\ \A u \in Tasks : u # t => outcome'[u] = outcome[u]
  <2>1. s \in Settled \union {"PENDING", "RUNNING"}
    BY <1>3
  <2>2. outcome \in [Tasks -> [Positions -> Settled \union {"PENDING", "RUNNING"}]]
    BY <1>1 DEF LedgerTypeOK
  <2>3. QED
    BY <1>1, <1>2, <2>1, <2>2, InnerEntryChanged
<1>5. /\ shown' \in [Tasks -> [Positions -> 0 .. MaxSteps]]
      /\ shown'[t][i] = steps[t][i]
      /\ \A j \in Positions : j # i => shown'[t][j] = shown[t][j]
      /\ \A u \in Tasks : u # t => shown'[u] = shown[u]
  <2>1. steps[t][i] \in 0 .. MaxSteps
    BY <1>1 DEF LedgerTypeOK
  <2>2. shown' = [shown EXCEPT ![t][i] = steps[t][i]]
    BY DEF Settle
  <2>3. QED
    BY <1>1, <2>1, <2>2, InnerEntryChanged DEF LedgerTypeOK
<1>6. /\ next' = next /\ retained' = retained /\ ended' = ended
      /\ cancelled' = cancelled /\ over' = over
      /\ copy' = copy /\ attempted' = attempted /\ steps' = steps
  BY DEF Settle, registryVars, cancelVars
<1>7. CASE i < Targets
  <2>1. /\ position' = [position EXCEPT ![t] = i + 1]
        /\ refused' = refused \ {t}
        /\ err' = [err EXCEPT ![t] = {}]
        /\ writer' = [writer EXCEPT ![t] = [w \in Writers |-> "idle"]]
        /\ GoTo(t, "next")
    BY <1>7 DEF Settle
  <2>2. /\ phase' \in [Tasks -> {"none", "next", "checked", "working", "returned",
                                 "ending", "ended"}]
        /\ phase'[t] = "next"
        /\ \A u \in Tasks : u # t => phase'[u] = phase[u]
    BY <1>1, <2>1, GoToPhase
  <2>3. /\ position' \in [Tasks -> Positions] /\ position'[t] = i + 1
        /\ \A u \in Tasks : u # t => position'[u] = position[u]
    <3>1. i + 1 \in Positions
      BY <1>1, <1>7, LedgerAssumption DEF Positions
    <3>2. QED
      BY <1>1, <2>1, <3>1, EntryChanged DEF LedgerTypeOK
  <2>4. /\ err' \in [Tasks -> SUBSET {"context", "definite", "uncertain"}]
        /\ err'[t] = {}
        /\ \A u \in Tasks : u # t => err'[u] = err[u]
    BY <1>1, <2>1 DEF LedgerTypeOK
  <2>5. /\ writer' \in [Tasks -> [Writers -> {"idle", "begun", "accepted", "done",
                                              "failed"}]]
        /\ \A w \in Writers : writer'[t][w] = "idle"
        /\ \A u \in Tasks : u # t => writer'[u] = writer[u]
    BY <1>1, <2>1 DEF LedgerTypeOK
  <2>6. LedgerTypeOK'
    BY <1>1, <1>4, <1>5, <1>6, <2>1, <2>2, <2>3, <2>4, <2>5 DEF LedgerTypeOK
  <2>7. AheadInv(t)'
    <3>1. SUFFICES ASSUME NEW j \in Positions, j > i + 1
                   PROVE  /\ outcome'[t][j] = "PENDING"
                          /\ ~ attempted'[t][j]
                          /\ steps'[t][j] = 0
                          /\ shown'[t][j] = 0
      BY <2>3 DEF AheadInv
    <3>2. j > i /\ j # i
      BY <1>1, <3>1, LedgerAssumption DEF Positions
    <3>3. /\ outcome[t][j] = "PENDING"
          /\ ~ attempted[t][j]
          /\ steps[t][j] = 0
          /\ shown[t][j] = 0
      BY <1>1, <3>2 DEF TaskInv, AheadInv
    <3>4. QED
      BY <1>4, <1>5, <1>6, <3>2, <3>3
  <2>8. BehindInv(t)'
    <3>1. SUFFICES ASSUME NEW j \in Positions, outcome'[t][j] \in Settled
                   PROVE  /\ j < position'[t]
                          /\ shown'[t][j] = steps'[t][j]
                          /\ outcome'[t][j] \in {"CANCELED", "NOT SUBMITTED"}
                                => ~ attempted'[t][j]
      BY DEF BehindInv
    <3>2. CASE j = i
      <4>1. i < i + 1
        BY <1>1, LedgerAssumption DEF Positions
      <4>2. QED
        BY <1>3, <1>4, <1>5, <1>6, <2>3, <3>2, <4>1
    <3>3. CASE j # i
      <4>1. outcome[t][j] \in Settled /\ outcome'[t][j] = outcome[t][j]
        BY <1>4, <3>1, <3>3
      <4>2. /\ j < i
            /\ shown[t][j] = steps[t][j]
            /\ outcome[t][j] \in {"CANCELED", "NOT SUBMITTED"} => ~ attempted[t][j]
        BY <1>1, <4>1 DEF TaskInv, BehindInv
      <4>3. QED
        <5>1. j < i + 1
          <6>1. j \in Int /\ i \in Int
            BY <1>1, LedgerAssumption DEF Positions
          <6>2. j < i
            BY <4>2
          <6>3. QED
            BY <6>1, <6>2
        <5>2. QED
          BY <1>5, <1>6, <2>3, <3>3, <4>1, <4>2, <5>1
    <3>4. QED
      BY <3>2, <3>3
  <2>9. WorkInv(t)'
    <3>1. ~ attempted[t][i + 1]
      BY <1>1, <2>3 DEF TaskInv, AheadInv, LedgerTypeOK, Positions
    <3>2. QED
      BY <1>6, <2>1, <2>2, <2>3, <2>4, <2>5, <3>1 DEF WorkInv, UnderWay
  <2>10. \A u \in Tasks : u # t => Same(u)
    BY <1>4, <1>5, <1>6, <2>1, <2>2, <2>3, <2>4, <2>5 DEF Same
  <2>11. QED
    BY <1>1, <1>6, <2>6, <2>7, <2>8, <2>9, <2>10, StepOfTask DEF TaskInv
<1>8. CASE ~ (i < Targets)
  <2>1. /\ GoTo(t, "ending")
        /\ position' = position /\ refused' = refused /\ err' = err /\ writer' = writer
    BY <1>8 DEF Settle, workVars
  <2>2. /\ phase' \in [Tasks -> {"none", "next", "checked", "working", "returned",
                                 "ending", "ended"}]
        /\ phase'[t] = "ending"
        /\ \A u \in Tasks : u # t => phase'[u] = phase[u]
    BY <1>1, <2>1, GoToPhase
  <2>3. LedgerTypeOK'
    BY <1>1, <1>4, <1>5, <1>6, <2>1, <2>2 DEF LedgerTypeOK
  <2>4. AheadInv(t)'
    <3>1. SUFFICES ASSUME NEW j \in Positions, j > i
                   PROVE  /\ outcome'[t][j] = "PENDING"
                          /\ ~ attempted'[t][j]
                          /\ steps'[t][j] = 0
                          /\ shown'[t][j] = 0
      BY <2>1 DEF AheadInv
    <3>2. j # i
      BY <1>1, <3>1, LedgerAssumption DEF Positions
    <3>3. /\ outcome[t][j] = "PENDING"
          /\ ~ attempted[t][j]
          /\ steps[t][j] = 0
          /\ shown[t][j] = 0
      BY <1>1, <3>1 DEF TaskInv, AheadInv
    <3>4. QED
      BY <1>4, <1>5, <1>6, <3>2, <3>3
  <2>5. BehindInv(t)'
    <3>1. SUFFICES ASSUME NEW j \in Positions, outcome'[t][j] \in Settled
                   PROVE  /\ shown'[t][j] = steps'[t][j]
                          /\ outcome'[t][j] \in {"CANCELED", "NOT SUBMITTED"}
                                => ~ attempted'[t][j]
      BY <2>2 DEF BehindInv
    <3>2. CASE j = i
      BY <1>3, <1>4, <1>5, <1>6, <3>2
    <3>3. CASE j # i
      BY <1>1, <1>4, <1>5, <1>6, <3>1, <3>3 DEF TaskInv, BehindInv
    <3>4. QED
      BY <3>2, <3>3
  <2>6. WorkInv(t)'
    BY <1>1, <1>6, <2>1, <2>2 DEF TaskInv, WorkInv
  <2>7. \A u \in Tasks : u # t => Same(u)
    BY <1>4, <1>5, <1>6, <2>1, <2>2 DEF Same
  <2>8. QED
    BY <1>1, <1>6, <2>3, <2>4, <2>5, <2>6, <2>7, StepOfTask DEF TaskInv
<1>9. QED
  BY <1>7, <1>8

LEMMA EndInv ==
    ASSUME LedgerIInv, NEW t \in Tasks, End(t)
    PROVE  LedgerIInv'
<1>1. GoTo(t, "ended") /\ phase[t] = "ending" /\ LedgerTypeOK /\ TaskInv(t)
  BY DEF End, LedgerIInv
<1>2. /\ phase' \in [Tasks -> {"none", "next", "checked", "working", "returned",
                               "ending", "ended"}]
      /\ phase'[t] = "ended"
      /\ \A u \in Tasks : u # t => phase'[u] = phase[u]
  BY <1>1, GoToPhase
<1>3. /\ next' = next /\ retained' = retained /\ cancelled' = cancelled
      /\ ended' = ended \union {t} /\ over' = over \union {t}
      /\ position' = position /\ refused' = refused /\ err' = err
      /\ writer' = writer /\ copy' = copy /\ attempted' = attempted
      /\ steps' = steps /\ outcome' = outcome /\ shown' = shown
  BY DEF End, workVars, progressVars, receiptVars
<1>4. t \in 1 .. next
  BY <1>1 DEF LedgerIInv, LedgerTypeOK, Tasks
<1>5. LedgerTypeOK'
  BY <1>1, <1>2, <1>3, <1>4 DEF LedgerTypeOK
<1>6. AheadInv(t)' /\ BehindInv(t)'
  BY <1>1, <1>2, <1>3 DEF TaskInv, AheadInv, BehindInv
<1>7. WorkInv(t)'
  BY <1>1, <1>2, <1>3 DEF TaskInv, WorkInv
<1>8. \A u \in Tasks : u # t => Same(u)
  BY <1>2, <1>3 DEF Same
<1>9. QED
  BY <1>1, <1>3, <1>5, <1>6, <1>7, <1>8, StepOfTask DEF TaskInv

LEMMA StutterInv ==
    ASSUME LedgerIInv, UNCHANGED vars
    PROVE  LedgerIInv'
<1>1. LedgerTypeOK'
  BY DEF LedgerIInv, LedgerTypeOK, vars
<1>2. ASSUME NEW t \in Tasks PROVE TaskInv(t)'
  BY SameKeepsTaskInv DEF LedgerIInv, Same, vars
<1>3. QED
  BY <1>1, <1>2 DEF LedgerIInv, vars

LEMMA NextLedgerIInv == LedgerIInv /\ [Next]_vars => LedgerIInv'
<1> SUFFICES ASSUME LedgerIInv, [Next]_vars PROVE LedgerIInv'
  OBVIOUS
<1>1. CASE Submit
  BY <1>1, SubmitInv
<1>2. ASSUME NEW t \in Tasks, Task(t) PROVE LedgerIInv'
  BY <1>2, CancelInv, RefuseInv, CheckInv, StartInv, WorkReturnsInv, SettleInv,
     EndInv, BeginWriteInv, WriteFailsInv, AcceptWriteInv, PublishInv DEF Task
<1>3. CASE UNCHANGED vars
  BY <1>3, StutterInv
<1>4. QED
  BY <1>1, <1>2, <1>3 DEF Next

\* What the worker, its writers and the receipt know of each other, at every
\* moment of every operation (operationTask.start, operationProgress).
THEOREM LedgerInvariant == Spec => []LedgerIInv
  BY InitLedgerIInv, NextLedgerIInv, PTL DEF Spec

\* Every variable keeps its type; in particular the lists of steps stay within
\* their limit however many writers append.
THEOREM LedgerTypeCorrect == Spec => []LedgerTypeOK
<1>1. LedgerIInv => LedgerTypeOK
  BY DEF LedgerIInv
<1>2. QED
  BY <1>1, LedgerInvariant, PTL

\* A settled target lists every accepted step, for any number of writers that
\* publish their copies in any order.
THEOREM ReceiptIsCompleteHolds == Spec => []ReceiptIsComplete
<1>1. LedgerIInv => ReceiptIsComplete
  BY DEF LedgerIInv, TaskInv, BehindInv, ReceiptIsComplete
<1>2. QED
  BY <1>1, LedgerInvariant, PTL

\* CANCELED and NOT SUBMITTED exclude an attempted write.
THEOREM CancelIsHonestHolds == Spec => []CancelIsHonest
<1>1. LedgerIInv => CancelIsHonest
  BY DEF LedgerIInv, TaskInv, BehindInv, CancelIsHonest, Settled
<1>2. QED
  BY <1>1, LedgerInvariant, PTL

-----------------------------------------------------------------------------
\* The limits of the registry, with the type invariant that makes them
\* inductive. An operation that did not end is retained, so a full history holds
\* an ended one as long as fewer operations run than the history retains.
LimitsInv == LedgerTypeOK /\ WithinLimits

\* A set of operations is finite.
LEMMA TasksAreFinite ==
    ASSUME LedgerTypeOK
    PROVE  /\ IsFiniteSet(retained) /\ IsFiniteSet(Unended)
           /\ Cardinality(retained) \in Nat /\ Cardinality(Unended) \in Nat
<1>1. next \in Nat
  BY LedgerAssumption DEF LedgerTypeOK
<1>2. IsFiniteSet(1 .. next)
  BY <1>1, FS_Interval
<1>3. retained \subseteq 1 .. next /\ Unended \subseteq 1 .. next
  BY DEF LedgerTypeOK, Unended
<1>4. IsFiniteSet(retained) /\ IsFiniteSet(Unended)
  BY <1>2, <1>3, FS_Subset
<1>5. QED
  BY <1>4, FS_CardinalityType

\* A nonempty set of operations has an oldest one.
LEMMA OldestExists ==
    ASSUME NEW S \in SUBSET Nat, S # {}
    PROVE  \E o \in S : \A t \in S : ~ (t < o)
<1>1. PICK o \in S : \A t \in S : ~ (<<t, o>> \in OpToRel(<, Nat))
  BY WFMin, NatLessThanWellFounded
<1>2. ASSUME NEW t \in S PROVE ~ (t < o)
  BY <1>1 DEF OpToRel
<1>3. QED
  BY <1>2

\* Making room leaves space for one more receipt.
LEMMA RoomForOneMore ==
    ASSUME LimitsInv, Cardinality(retained \ ended) < MaxActive
    PROVE  /\ IsFiniteSet(MakeRoom)
           /\ Cardinality(MakeRoom) \in Nat
           /\ Cardinality(MakeRoom) < MaxHistory
<1>1. /\ LedgerTypeOK
      /\ IsFiniteSet(retained) /\ Cardinality(retained) \in Nat
      /\ Cardinality(retained) <= MaxHistory
      /\ MaxHistory \in Nat /\ MaxActive \in Nat /\ MaxActive <= MaxHistory
  BY TasksAreFinite, LedgerAssumption DEF LimitsInv, WithinLimits
<1>2. CASE Cardinality(retained) < MaxHistory
  BY <1>1, <1>2 DEF MakeRoom
<1>3. CASE ~ (Cardinality(retained) < MaxHistory)
  <2>1. Cardinality(retained) = MaxHistory
    BY <1>1, <1>3
  <2>2. retained \intersect ended # {}
    <3>1. SUFFICES ASSUME retained \intersect ended = {} PROVE FALSE
      OBVIOUS
    <3>2. retained \ ended = retained
      BY <3>1
    <3>3. QED
      BY <1>1, <2>1, <3>2
  <2>3. retained \intersect ended \in SUBSET Nat
    <3>1. next \in Nat
      BY <1>1, LedgerAssumption DEF LedgerTypeOK
    <3>2. QED
      BY <1>1, <3>1 DEF LedgerTypeOK
  <2>4. PICK o \in retained \intersect ended :
             \A t \in retained \intersect ended : ~ (t < o)
    BY <2>2, <2>3, OldestExists
  <2>5. MakeRoom \subseteq retained \ {o}
    BY <1>3, <2>4 DEF MakeRoom
  <2>6. /\ IsFiniteSet(retained \ {o})
        /\ Cardinality(retained \ {o}) = Cardinality(retained) - 1
    BY <1>1, <2>4, FS_RemoveElement
  <2>7. /\ IsFiniteSet(MakeRoom)
        /\ Cardinality(MakeRoom) <= Cardinality(retained \ {o})
    BY <2>5, <2>6, FS_Subset
  <2>8. Cardinality(MakeRoom) \in Nat
    BY <2>7, FS_CardinalityType
  <2>9. QED
    BY <1>1, <2>1, <2>6, <2>7, <2>8
<1>4. QED
  BY <1>2, <1>3

LEMMA SubmitKeepsLimits ==
    ASSUME LimitsInv, Submit
    PROVE  WithinLimits'
<1> DEFINE new == next + 1
<1>1. /\ LedgerTypeOK /\ next \in Nat /\ MaxActive \in Nat /\ MaxHistory \in Nat
      /\ IsFiniteSet(Unended) /\ Cardinality(Unended) \in Nat
  BY TasksAreFinite, LedgerAssumption DEF LimitsInv, LedgerTypeOK
<1>2. /\ next' = new /\ retained' = MakeRoom \union {new} /\ ended' = ended
      /\ Cardinality(retained \ ended) < MaxActive
  BY DEF Submit
<1>3. retained \ ended = Unended
  BY <1>1 DEF LimitsInv, WithinLimits, Unended, LedgerTypeOK
<1>4. Unended' = Unended \union {new}
  <2>1. 1 .. new = (1 .. next) \union {new} /\ new \notin 1 .. next
    BY <1>1
  <2>2. new \notin ended
    BY <1>1, <2>1 DEF LedgerTypeOK
  <2>3. QED
    BY <1>2, <2>1, <2>2 DEF Unended
<1>5. Unended' \subseteq retained'
  <2>1. Unended \subseteq MakeRoom
    BY <1>3 DEF MakeRoom
  <2>2. QED
    BY <1>2, <1>4, <2>1
<1>6. Cardinality(Unended') <= MaxActive
  <2>1. Cardinality(Unended) < MaxActive
    BY <1>2, <1>3
  <2>2. Cardinality(Unended \union {new}) <= Cardinality(Unended) + 1
    BY <1>1, FS_AddElement
  <2>3. IsFiniteSet(Unended \union {new})
    BY <1>1, FS_AddElement
  <2>4. Cardinality(Unended \union {new}) \in Nat
    BY <2>3, FS_CardinalityType
  <2>5. QED
    BY <1>1, <1>4, <2>1, <2>2, <2>4
<1>7. Cardinality(retained') <= MaxHistory
  <2>1. /\ IsFiniteSet(MakeRoom) /\ Cardinality(MakeRoom) \in Nat
        /\ Cardinality(MakeRoom) < MaxHistory
    BY <1>2, RoomForOneMore
  <2>2. /\ IsFiniteSet(MakeRoom \union {new})
        /\ Cardinality(MakeRoom \union {new}) <= Cardinality(MakeRoom) + 1
    <3>1. /\ IsFiniteSet(MakeRoom \union {new})
          /\ \/ Cardinality(MakeRoom \union {new}) = Cardinality(MakeRoom)
             \/ Cardinality(MakeRoom \union {new}) = Cardinality(MakeRoom) + 1
      BY <2>1, FS_AddElement
    <3>2. QED
      BY <2>1, <3>1
  <2>3. Cardinality(MakeRoom \union {new}) \in Nat
    BY <2>2, FS_CardinalityType
  <2>4. QED
    BY <1>1, <1>2, <2>1, <2>2, <2>3
<1>8. QED
  BY <1>5, <1>6, <1>7 DEF WithinLimits

\* An end frees a place among the active operations; all else leaves the registry.
LEMMA EndKeepsLimits ==
    ASSUME LimitsInv, LedgerTypeOK', next' = next, retained' = retained,
           ended \subseteq ended'
    PROVE  WithinLimits'
<1>1. Unended' \subseteq Unended
  BY DEF Unended
<1>2. IsFiniteSet(Unended) /\ Cardinality(Unended) \in Nat
  BY TasksAreFinite DEF LimitsInv
<1>3. IsFiniteSet(Unended') /\ Cardinality(Unended') <= Cardinality(Unended)
  BY <1>1, <1>2, FS_Subset
<1>4. Cardinality(Unended') \in Nat
  BY <1>3, FS_CardinalityType
<1>5. Cardinality(Unended') <= MaxActive
  BY <1>2, <1>3, <1>4, LedgerAssumption DEF LimitsInv, WithinLimits
<1>6. QED
  BY <1>1, <1>5 DEF LimitsInv, WithinLimits

LEMMA TaskLeavesRegistry ==
    ASSUME NEW t \in Tasks, Task(t)
    PROVE  next' = next /\ retained' = retained /\ ended \subseteq ended'
<1>1. CASE Cancel(t) \/ Deadline(t)
  BY <1>1 DEF Cancel, Deadline, registryVars
<1>2. CASE Refuse(t) \/ Check(t) \/ Start(t)
  BY <1>2 DEF Refuse, Check, Start, registryVars
<1>3. CASE WorkReturns(t)
  BY <1>3 DEF WorkReturns, registryVars
<1>4. CASE Settle(t)
  BY <1>4 DEF Settle, registryVars
<1>5. CASE End(t)
  BY <1>5 DEF End
<1>6. ASSUME NEW w \in Writers,
             BeginWrite(t, w) \/ WriteFails(t, w) \/ AcceptWrite(t, w) \/ Publish(t, w)
      PROVE  next' = next /\ retained' = retained /\ ended \subseteq ended'
  BY <1>6 DEF BeginWrite, WriteFails, AcceptWrite, Publish, registryVars
<1>7. QED
  BY <1>1, <1>2, <1>3, <1>4, <1>5, <1>6 DEF Task

LEMMA InitKeepsLimits == Init => WithinLimits
<1> SUFFICES ASSUME Init PROVE WithinLimits
  OBVIOUS
<1>1. Unended = {} /\ retained = {}
  BY DEF Init, Unended
<1>2. Cardinality({}) = 0
  BY FS_EmptySet
<1>3. QED
  BY <1>1, <1>2, LedgerAssumption DEF WithinLimits

\* The limits on running operations and on receipts hold over every order of
\* submissions and ends, and no running operation loses its receipt
\* (operationRegistry.add).
THEOREM WithinLimitsHolds == Spec => []WithinLimits
<1>1. LedgerTypeOK /\ WithinLimits /\ LedgerTypeOK' /\ [Next]_vars => WithinLimits'
  <2> SUFFICES ASSUME LimitsInv, LedgerTypeOK', [Next]_vars PROVE WithinLimits'
    BY DEF LimitsInv
  <2>1. CASE Submit
    BY <2>1, SubmitKeepsLimits
  <2>2. ASSUME NEW t \in Tasks, Task(t) PROVE WithinLimits'
    BY <2>2, TaskLeavesRegistry, EndKeepsLimits
  <2>3. CASE UNCHANGED vars
    BY <2>3, EndKeepsLimits DEF vars
  <2>4. QED
    BY <2>1, <2>2, <2>3 DEF Next
<1>2. QED
  BY <1>1, InitKeepsLimits, LedgerTypeCorrect, PTL DEF Spec

-----------------------------------------------------------------------------
\* What an action property says of one step.
Forward(t) ==
    \A i \in Positions :
        outcome'[t][i] # outcome[t][i] =>
            outcome[t][i] \notin Settled /\ outcome'[t][i] # "PENDING"

\* The target a worker is at is not settled before the worker settles it.
LEMMA PositionNotSettled ==
    ASSUME LedgerIInv, NEW t \in Tasks, phase[t] \notin {"ending", "ended"}
    PROVE  outcome[t][position[t]] \notin Settled
<1>1. TaskInv(t) /\ position[t] \in Positions
  BY DEF LedgerIInv, LedgerTypeOK
<1>2. ~ (position[t] < position[t])
  BY <1>1, LedgerAssumption DEF Positions
<1>3. QED
  BY <1>1, <1>2 DEF TaskInv, BehindInv

\* An outcome is written at the position of a worker that is under way.
LEMMA WrittenForward ==
    ASSUME LedgerIInv, NEW t \in Tasks, phase[t] \notin {"ending", "ended"},
           NEW s \in Settled \union {"RUNNING"},
           outcome' = [outcome EXCEPT ![t][position[t]] = s],
           NEW u \in Tasks
    PROVE  Forward(u)
<1> DEFINE i == position[t]
<1>1. /\ outcome \in [Tasks -> [Positions -> Settled \union {"PENDING", "RUNNING"}]]
      /\ i \in Positions
  BY DEF LedgerIInv, LedgerTypeOK
<1>2. s \in Settled \union {"PENDING", "RUNNING"} /\ s # "PENDING"
  BY DEF Settled
<1>3. /\ outcome'[t][i] = s
      /\ \A j \in Positions : j # i => outcome'[t][j] = outcome[t][j]
      /\ \A v \in Tasks : v # t => outcome'[v] = outcome[v]
  BY <1>1, <1>2, InnerEntryChanged
<1>4. outcome[t][i] \notin Settled
  BY PositionNotSettled
<1>5. QED
  BY <1>2, <1>3, <1>4 DEF Forward

LEMMA TaskForward ==
    ASSUME LedgerIInv, NEW t \in Tasks, Task(t), NEW u \in Tasks
    PROVE  Forward(u)
<1>1. CASE Cancel(t) \/ Deadline(t)
  BY <1>1 DEF Cancel, Deadline, receiptVars, Forward
<1>2. CASE Refuse(t) \/ Check(t) \/ WorkReturns(t)
  BY <1>2 DEF Refuse, Check, WorkReturns, receiptVars, Forward
<1>3. CASE End(t)
  BY <1>3 DEF End, receiptVars, Forward
<1>4. CASE Start(t)
  BY <1>4, WrittenForward DEF Start
<1>5. CASE Settle(t)
  <2>1. phase[t] = "returned"
    BY <1>5 DEF Settle
  <2>2. PICK s \in ResultState(Joined(t), t \in refused, attempted[t][position[t]]) :
             outcome' = [outcome EXCEPT ![t][position[t]] = s]
    BY <1>5 DEF Settle
  <2>3. s \in Settled
    <3>1. /\ attempted[t][position[t]] \in BOOLEAN /\ (t \in refused) \in BOOLEAN
          /\ t \in refused => ~ attempted[t][position[t]]
      BY DEF LedgerIInv, LedgerTypeOK, TaskInv, WorkInv
    <3>2. QED
      BY <2>2, <3>1, ResultStates
  <2>4. QED
    BY <2>1, <2>2, <2>3, WrittenForward
<1>6. ASSUME NEW w \in Writers,
             BeginWrite(t, w) \/ WriteFails(t, w) \/ AcceptWrite(t, w) \/ Publish(t, w)
      PROVE  Forward(u)
  BY <1>6 DEF BeginWrite, WriteFails, AcceptWrite, Publish, receiptVars, Forward
<1>7. QED
  BY <1>1, <1>2, <1>3, <1>4, <1>5, <1>6 DEF Task

\* Outcomes only move forward, and a settled one is final: whatever cancellations,
\* deadlines and other operations come in between (operationTask.start).
THEOREM OutcomesMoveForwardHolds == Spec => OutcomesMoveForward
<1>1. LedgerIInv /\ [Next]_vars =>
        [\A t \in Tasks, i \in Positions :
            outcome'[t][i] # outcome[t][i] =>
               /\ outcome[t][i] \notin Settled
               /\ outcome'[t][i] # "PENDING"]_vars
  <2> SUFFICES ASSUME LedgerIInv, Next, NEW u \in Tasks PROVE Forward(u)
    BY DEF Forward
  <2>1. CASE Submit
    BY <2>1 DEF Submit, receiptVars, Forward
  <2>2. ASSUME NEW t \in Tasks, Task(t) PROVE Forward(u)
    BY <2>2, TaskForward
  <2>3. QED
    BY <2>1, <2>2 DEF Next
<1>2. QED
  BY <1>1, LedgerInvariant, PTL DEF Spec, OutcomesMoveForward

-----------------------------------------------------------------------------
\* The context of operation t is over, and the worker has not begun the work of
\* target i, or refused it, or is past it: nothing was attempted for i.
Stopped(t, i) ==
    /\ t \in over /\ ~ attempted[t][i]
    /\ \/ i > position[t]
       \/ i < position[t]
       \/ i = position[t] /\ phase[t] \in {"next", "returned", "ending", "ended"}

\* What Stopped speaks of stays as it is.
LEMMA StoppedStays ==
    ASSUME NEW t \in Tasks, NEW i \in Positions, Stopped(t, i), over \subseteq over',
           position'[t] = position[t], attempted'[t][i] = attempted[t][i],
           phase'[t] = phase[t] \/ phase'[t] \in {"next", "returned", "ending", "ended"}
    PROVE  Stopped(t, i)'
BY DEF Stopped

\* A step of operation t keeps what was stopped: the only way out of "next" is to
\* refuse the target, since the context is over.
LEMMA TaskKeepsStopped ==
    ASSUME LedgerIInv, NEW t \in Tasks, NEW i \in Positions, Stopped(t, i), Task(t)
    PROVE  Stopped(t, i)'
<1>1. /\ LedgerTypeOK /\ t \in over /\ position[t] \in Positions
      /\ position \in [Tasks -> Positions]
      /\ attempted \in [Tasks -> [Positions -> BOOLEAN]]
  BY DEF LedgerIInv, LedgerTypeOK, Stopped
<1>2. CASE Cancel(t) \/ Deadline(t)
  BY <1>1, <1>2, StoppedStays DEF Cancel, Deadline, workVars, progressVars
<1>3. CASE Refuse(t) \/ WorkReturns(t)
  <2>1. GoTo(t, "returned")
    BY <1>3 DEF Refuse, WorkReturns
  <2>2. phase'[t] = "returned"
    BY <1>1, <2>1, GoToPhase
  <2>3. over' = over /\ position' = position /\ attempted' = attempted
    BY <1>3 DEF Refuse, WorkReturns, cancelVars, progressVars
  <2>4. QED
    BY <2>2, <2>3, StoppedStays
<1>4. CASE Check(t)
  BY <1>1, <1>4 DEF Check
<1>5. CASE Start(t)
  <2>1. position' = position /\ attempted' = attempted /\ over' = over /\ phase[t] = "checked"
    BY <1>5 DEF Start, workVars, progressVars, cancelVars
  <2>2. i > position[t] \/ i < position[t]
    BY <2>1 DEF Stopped
  <2>3. QED
    BY <2>1, <2>2 DEF Stopped
<1>6. CASE Settle(t)
  <2>1. phase[t] = "returned" /\ over' = over /\ attempted' = attempted
    BY <1>6 DEF Settle, cancelVars
  <2>2. CASE position[t] < Targets
    <3>1. position[t] \in Nat /\ i \in Nat /\ position[t] + 1 \in Positions
      BY <1>1, <2>2, LedgerAssumption DEF Positions
    <3>2. position'[t] = position[t] + 1
      BY <1>1, <1>6, <2>2 DEF Settle
    <3>3. phase'[t] = "next"
      <4>1. GoTo(t, "next")
        BY <1>6, <2>2 DEF Settle
      <4>2. QED
        BY <1>1, <4>1, GoToPhase
    <3>4. i > position[t] + 1 \/ i < position[t] + 1 \/ i = position[t] + 1
      BY <3>1
    <3>5. QED
      BY <2>1, <3>2, <3>3, <3>4 DEF Stopped
  <2>3. CASE ~ (position[t] < Targets)
    <3>1. GoTo(t, "ending") /\ position' = position
      BY <1>6, <2>3 DEF Settle, workVars
    <3>2. phase'[t] = "ending"
      BY <1>1, <3>1, GoToPhase
    <3>3. QED
      BY <2>1, <3>1, <3>2, StoppedStays
  <2>4. QED
    BY <2>2, <2>3
<1>7. CASE End(t)
  <2>1. GoTo(t, "ended") /\ position' = position /\ attempted' = attempted
        /\ over \subseteq over'
    BY <1>7 DEF End, workVars, progressVars
  <2>2. phase'[t] = "ended"
    BY <1>1, <2>1, GoToPhase
  <2>3. QED
    BY <2>1, <2>2, StoppedStays
<1>8. ASSUME NEW w \in Writers, BeginWrite(t, w) PROVE Stopped(t, i)'
  <2>1. /\ phase[t] = "working" /\ phase' = phase /\ position' = position /\ over' = over
        /\ attempted' = [attempted EXCEPT ![t][position[t]] = TRUE]
    BY <1>8 DEF BeginWrite, workVars, cancelVars
  <2>2. i # position[t]
    BY <1>1, <2>1, LedgerAssumption DEF Stopped, Positions
  <2>3. attempted'[t][i] = attempted[t][i]
    BY <1>1, <2>1, <2>2, InnerEntryChanged
  <2>4. QED
    BY <2>1, <2>3, StoppedStays
<1>9. ASSUME NEW w \in Writers, WriteFails(t, w) \/ AcceptWrite(t, w) \/ Publish(t, w)
      PROVE  Stopped(t, i)'
  BY <1>9, StoppedStays DEF WriteFails, AcceptWrite, Publish, workVars, cancelVars
<1>10. QED
  BY <1>2, <1>3, <1>4, <1>5, <1>6, <1>7, <1>8, <1>9 DEF Task

\* A step of another operation, or none, keeps it.
LEMMA OthersKeepStopped ==
    ASSUME LedgerIInv, NEW t \in Tasks, NEW i \in Positions, Stopped(t, i),
           NEW u \in Tasks, u # t, Task(u)
    PROVE  Stopped(t, i)'
<1>1. LedgerTypeOK
  BY DEF LedgerIInv
<1>2. over \subseteq over'
  BY DEF Task, Cancel, Deadline, Refuse, Check, Start, WorkReturns, Settle, End,
         BeginWrite, WriteFails, AcceptWrite, Publish, cancelVars
<1>3. phase' = phase \/ \E p : phase' = [phase EXCEPT ![u] = p]
  BY DEF Task, Cancel, Deadline, Refuse, Check, Start, WorkReturns, Settle, End,
         BeginWrite, WriteFails, AcceptWrite, Publish, GoTo
<1>4. position' = position \/ \E p : position' = [position EXCEPT ![u] = p]
  BY DEF Task, Cancel, Deadline, Refuse, Check, Start, WorkReturns, Settle, End,
         BeginWrite, WriteFails, AcceptWrite, Publish, workVars
<1>5. attempted' = attempted \/ \E j : attempted' = [attempted EXCEPT ![u][j] = TRUE]
  BY DEF Task, Cancel, Deadline, Refuse, Check, Start, WorkReturns, Settle, End,
         BeginWrite, WriteFails, AcceptWrite, Publish, progressVars
<1>6. phase'[t] = phase[t] /\ position'[t] = position[t] /\ attempted'[t] = attempted[t]
  BY <1>1, <1>3, <1>4, <1>5 DEF LedgerTypeOK
<1>7. QED
  BY <1>2, <1>6, StoppedStays

\* What was stopped stays so.
LEMMA StoppedForGood ==
    ASSUME LedgerIInv, [Next]_vars, NEW t \in Tasks, NEW i \in Positions, Stopped(t, i)
    PROVE  Stopped(t, i)'
<1>1. CASE Submit
  <2>1. /\ phase' = [phase EXCEPT ![next + 1] = "next"]
        /\ over' = over /\ position' = position /\ attempted' = attempted
    BY <1>1 DEF Submit, cancelVars, workVars, progressVars
  <2>2. phase'[t] = phase[t] \/ phase'[t] = "next"
    BY <2>1 DEF LedgerIInv, LedgerTypeOK
  <2>3. QED
    BY <2>1, <2>2, StoppedStays
<1>2. CASE \E u \in Tasks : Task(u)
  BY <1>2, TaskKeepsStopped, OthersKeepStopped
<1>3. CASE UNCHANGED vars
  BY <1>3, StoppedStays DEF vars, cancelVars, workVars, progressVars
<1>4. QED
  BY <1>1, <1>2, <1>3 DEF Next

\* Once a receipt's operation was cancelled or its deadline passed, no write is ever
\* attempted for a target after the one the worker was at (operationTask.start looks at
\* the context before each target).
THEOREM CancelStopsRemainingHolds == Spec => CancelStopsRemaining
<1>1. ASSUME NEW t \in Tasks, NEW i \in Positions
      PROVE  Spec => [](t \in over /\ i > position[t] => [](~ attempted[t][i]))
  <2>1. LedgerIInv /\ t \in over /\ i > position[t] => Stopped(t, i)
    BY DEF LedgerIInv, TaskInv, AheadInv, Stopped
  <2>2. LedgerIInv /\ [Next]_vars /\ Stopped(t, i) => Stopped(t, i)'
    BY StoppedForGood
  <2>3. Stopped(t, i) => ~ attempted[t][i]
    BY DEF Stopped
  <2>4. QED
    BY <2>1, <2>2, <2>3, LedgerInvariant, PTL DEF Spec
<1>2. QED
  BY <1>1 DEF CancelStopsRemaining
=============================================================================
