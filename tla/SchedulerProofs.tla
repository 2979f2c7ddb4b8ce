--------------------------- MODULE SchedulerProofs ---------------------------
(***************************************************************************)
(* What TLAPS proves of Scheduler for every document, cost gate, bound and *)
(* set of outside events, and of its cost gate as long as no node is       *)
(* removed and no other scheduler stores results: types, running tasks,    *)
(* the one auto-run, aborted runs, RunQueue, the cost gate, undisturbed    *)
(* runs.                                                                   *)
(***************************************************************************)
EXTENDS Scheduler, SequenceTheorems, WellFoundedInduction, TLAPS

-----------------------------------------------------------------------------
(* The operators *)

\* A node's key covers only nodes that can exist.
LEMMA KeyOfType ==
  ASSUME NEW d \in Document, NEW n \in Node
  PROVE  KeyOf(d, n) \in Key
<1>1. Ancestors(d, n) \subseteq Node
  BY DEF Ancestors, Document
<1>2. \A m \in Ancestors(d, n) \cup {n} : d.ver[m] \in Ver
  BY <1>1 DEF Document
<1>3. KeyOf(d, n) \in [Ancestors(d, n) \cup {n} -> Ver]
  BY <1>2 DEF KeyOf
<1> QED
  BY <1>1, <1>3 DEF Key

LEMMA NoKeyType == NoKey \in Key
<1>1. NoKey \in [{} -> Ver]
  BY DEF NoKey
<1> QED
  BY <1>1 DEF Key

\* Every key is a value: a value may also mix versions.
LEMMA KeyIsVal == Key \subseteq Val
<1> SUFFICES ASSUME NEW k \in Key PROVE k \in Val
  OBVIOUS
<1>1. PICK S \in SUBSET Node : k \in [S -> Ver]
  BY DEF Key
<1>2. k \in [S -> Ver \cup {Mixed}]
  BY <1>1
<1> QED
  BY <1>2 DEF Val

\* What a node computes from well-typed inputs is well typed.
LEMMA ComputedType ==
  ASSUME NEW n \in Node, NEW v \in Ver, NEW inputs \in SUBSET Val
  PROVE  Computed(n, v, inputs) \in Val
<1> DEFINE Known == UNION {DOMAIN x : x \in inputs}
           Seen(m) == {x[m] : x \in {y \in inputs : m \in DOMAIN y}}
           At(m) == IF m = n THEN v
                    ELSE IF \E w \in Ver : Seen(m) = {w}
                         THEN CHOOSE w \in Ver : Seen(m) = {w}
                         ELSE Mixed
<1>1. Known \cup {n} \in SUBSET Node
  BY DEF Val
<1>2. \A m \in Known \cup {n} : At(m) \in Ver \cup {Mixed}
  <2> SUFFICES ASSUME NEW m PROVE At(m) \in Ver \cup {Mixed}
    OBVIOUS
  <2> HIDE DEF Seen
  <2> QED
    OBVIOUS
<1>3. Computed(n, v, inputs) = [m \in Known \cup {n} |-> At(m)]
  BY DEF Computed
<1>4. Computed(n, v, inputs) \in [Known \cup {n} -> Ver \cup {Mixed}]
  <2> HIDE DEF At, Known
  <2> QED BY <1>2, <1>3
<1> QED
  <2> HIDE DEF Known
  <2> QED BY <1>1, <1>4 DEF Val

\* Storing one value keeps the cache well typed.
LEMMA StoreType ==
  ASSUME NEW c, DOMAIN c \subseteq Key, \A j \in DOMAIN c : c[j] \in Val,
         NEW k \in Key, NEW x \in Val
  PROVE  /\ DOMAIN Store(c, k, x) \subseteq Key
         /\ \A j \in DOMAIN Store(c, k, x) : Store(c, k, x)[j] \in Val
BY DEF Store

\* Withdrawing a run leaves a queue in which everything else kept its order.
LEMMA RemoveAtProperties ==
  ASSUME NEW S, NEW q \in Seq(S), NEW i \in 1..Len(q)
  PROVE  /\ RemoveAt(q, i) \in Seq(S)
         /\ Len(RemoveAt(q, i)) = Len(q) - 1
         /\ \A j \in 1..(Len(q) - 1) :
               RemoveAt(q, i)[j] = IF j < i THEN q[j] ELSE q[j + 1]
<1> DEFINE a == SubSeq(q, 1, i - 1)
           b == SubSeq(q, i + 1, Len(q))
<1>0. Len(q) \in Nat /\ \A j \in 1..Len(q) : q[j] \in S
  BY LenProperties, ElementOfSeq
<1>1. /\ a \in Seq(S) /\ Len(a) = i - 1
      /\ \A j \in 1..(i - 1) : a[j] = q[j]
  <2>1. \A j \in 1..(i - 1) : q[j] \in S
    BY <1>0
  <2> QED BY <1>0, <2>1, SubSeqProperties
<1>2. /\ b \in Seq(S) /\ Len(b) = Len(q) - i
      /\ \A j \in 1..(Len(q) - i) : b[j] = q[i + j]
  <2>1. \A j \in (i + 1)..Len(q) : q[j] \in S
    BY <1>0
  <2> QED BY <1>0, <2>1, SubSeqProperties
<1>3. RemoveAt(q, i) = a \o b
  BY DEF RemoveAt
<1> HIDE DEF a, b
<1>4. /\ a \o b \in Seq(S) /\ Len(a \o b) = Len(q) - 1
      /\ \A j \in 1..(Len(q) - 1) : (a \o b)[j] = IF j <= i - 1 THEN a[j] ELSE b[j - (i - 1)]
  <2>1. /\ a \o b \in Seq(S) /\ Len(a \o b) = Len(a) + Len(b)
        /\ \A j \in 1..(Len(a) + Len(b)) :
              (a \o b)[j] = IF j <= Len(a) THEN a[j] ELSE b[j - Len(a)]
    BY <1>1, <1>2, ConcatProperties
  <2>2. Len(a) + Len(b) = Len(q) - 1
    BY <1>0, <1>1, <1>2
  <2> QED BY <1>1, <2>1, <2>2
<1>5. ASSUME NEW j \in 1..(Len(q) - 1)
      PROVE  (a \o b)[j] = IF j < i THEN q[j] ELSE q[j + 1]
  <2>1. CASE j < i
    BY <1>0, <1>1, <1>4, <2>1
  <2>2. CASE ~(j < i)
    <3>1. j - (i - 1) \in 1..(Len(q) - i)
      BY <1>0, <2>2
    <3> QED BY <1>0, <1>2, <1>4, <2>2, <3>1
  <2> QED BY <2>1, <2>2
<1> QED
  BY <1>3, <1>4, <1>5
-----------------------------------------------------------------------------
(* Type correctness *)

LEMMA WithoutAutoProperties ==
  ASSUME NEW q \in Seq(Request), Autos(q) # {}
  PROVE  /\ WithoutAuto(q) \in Seq(Request)
         /\ \E i \in 1..Len(q) :
               /\ q[i].auto
               /\ WithoutAuto(q) = RemoveAt(q, i)
<1>1. DOMAIN q = 1..Len(q)
  BY LenProperties
<1>2. PICK i \in Autos(q) : WithoutAuto(q) = RemoveAt(q, i)
  BY DEF WithoutAuto
<1>3. i \in 1..Len(q) /\ q[i].auto
  BY <1>1, <1>2 DEF Autos
<1> QED
  BY <1>2, <1>3, RemoveAtProperties

LEMMA DebounceDroppedType ==
  ASSUME NEW q \in Seq(Request)
  PROVE  DebounceDropped(q) \in Seq(Request)
BY WithoutAutoProperties DEF DebounceDropped, WithoutAuto

LEMMA RecordTypes ==
  /\ NoRecord \in Record
  /\ IdleRecord \in Record
  /\ \A k \in Key : DirtyRecord(k) \in Record
BY NoKeyType DEF NoRecord, IdleRecord, DirtyRecord, Record, NodeState

LEMMA RecompiledType ==
  ASSUME TypeOK, NEW d \in Document, NEW n \in Node
  PROVE  Recompiled(d, n) \in Record
BY KeyOfType, RecordTypes DEF TypeOK, Recompiled

LEMMA SupersededType ==
  ASSUME TypeOK, NEW d \in Document, NEW n \in Node
  PROVE  Superseded(d, n) \in Task
<1>1. task[n] \in Task /\ rec[n].key \in Key
  BY DEF TypeOK, Record
<1> QED
  BY <1>1 DEF Superseded, Task

LEMMA RunKilledType ==
  ASSUME NEW r \in Run
  PROVE  /\ RunKilled(r) \in Run
         /\ Touched(r) \in Run
         /\ Touched(RunKilled(r)) \in Run
BY DEF RunKilled, Touched, Run

LEMMA UpdateType ==
  ASSUME TypeOK, NEW d \in Document, Update(d), edits' \in Nat
  PROVE  TypeOK'
<1>1. doc' \in Document /\ UNCHANGED <<cache, auto, asked>>
  BY DEF Update
<1>2. rec' \in [Node -> Record]
  BY RecompiledType DEF Update
<1>3. task' \in [Node -> Task]
  BY SupersededType DEF Update
<1>4. deb' \in {"off", "sleep", "queued", "running"}
  BY DEF Update, TypeOK
<1>5. queue' \in Seq(Request)
  BY DebounceDroppedType DEF Update, TypeOK
<1>6. run' \in Run
  BY RunKilledType DEF Update, TypeOK
<1> QED
  BY <1>1, <1>2, <1>3, <1>4, <1>5, <1>6 DEF TypeOK

LEMMA NoRunType == NoRun \in Run
BY DEF NoRun, Run, Phase

LEMMA TaskTypes ==
  /\ NoTask \in Task
  /\ TypeOK => \A n \in Node : NewTask(n) \in Task
<1>1. 0 \in Ver
  BY SchedulerAssumption DEF Ver
<1>2. NoTask \in Task
  BY <1>1, NoKeyType, KeyIsVal DEF NoTask, Task
<1>3. ASSUME TypeOK, NEW n \in Node PROVE NewTask(n) \in Task
  <2>1. doc.ver[n] \in Ver /\ SourcesIn(doc, n) \in SUBSET Node
    BY <1>3 DEF TypeOK, Document, SourcesIn
  <2> QED BY <1>2, <2>1 DEF NewTask, Task
<1> QED
  BY <1>2, <1>3

\* A pass, node by node: run stays well typed and so do the records and tasks.
LEMMA PassType ==
  ASSUME TypeOK, Pass
  PROVE  TypeOK'
<1> USE DEF PassUnchanged
<1>0. run \in Run /\ rec \in [Node -> Record] /\ task \in [Node -> Task]
  BY DEF TypeOK
<1>1. CASE BeginPass
  <2>1. run' \in Run
    BY <1>0, <1>1 DEF BeginPass, Run, Phase
  <2>2. rec' \in [Node -> Record]
    <3>1. \A n \in Node : [rec[n] EXCEPT !.state = "dirty"] \in Record
      BY <1>0 DEF Record, NodeState
    <3> QED BY <1>0, <1>1, <3>1 DEF BeginPass
  <2> QED BY <1>1, <2>1, <2>2 DEF BeginPass, TypeOK
<1>2. CASE EndPass
  <2>1. run' \in Run
    BY <1>0, <1>2 DEF EndPass, Run, Phase
  <2> QED BY <1>2, <2>1 DEF EndPass, TypeOK
<1>3. ASSUME NEW n \in Node PROVE Settled(run, n) \in Run
  BY <1>0, <1>3 DEF Settled, Run
<1>4. ASSUME NEW n \in Node
      PROVE  /\ [rec[n] EXCEPT !.stale = TRUE] \in Record
             /\ [rec[n] EXCEPT !.state = "done", !.stale = FALSE] \in Record
  BY <1>0, <1>4 DEF Record, NodeState
<1>5. ASSUME NEW n \in Node, DropNode(n) PROVE TypeOK'
  BY <1>3, <1>5 DEF DropNode, TypeOK
<1>6. ASSUME NEW n \in Node, SkipNode(n) PROVE TypeOK'
  <2>1. run' \in Run
    BY <1>3, <1>6 DEF SkipNode, Run
  <2>2. rec' \in [Node -> Record]
    BY <1>0, <1>4, <1>6 DEF SkipNode
  <2> QED BY <1>6, <2>1, <2>2 DEF SkipNode, TypeOK
<1>7. ASSUME NEW n \in Node, DeferNode(n) PROVE TypeOK'
  <2>1. run' \in Run
    BY <1>0, <1>7 DEF DeferNode, Run
  <2> QED BY <1>7, <2>1 DEF DeferNode, TypeOK
<1>8. ASSUME NEW n \in Node, TakeCached(n) PROVE TypeOK'
  <2>1. rec' \in [Node -> Record]
    BY <1>0, <1>4, <1>8 DEF TakeCached
  <2> QED BY <1>3, <1>8, <2>1 DEF TakeCached, TypeOK
<1>9. ASSUME NEW n \in Node, GateNode(n) PROVE TypeOK'
  <2>1. run' \in Run
    BY <1>3, <1>9 DEF GateNode, Run
  <2>2. rec' \in [Node -> Record]
    BY <1>0, <1>4, <1>9 DEF GateNode
  <2> QED BY <1>9, <2>1, <2>2 DEF GateNode, TypeOK
<1>10. ASSUME NEW n \in Node, LaunchNode(n) PROVE TypeOK'
  <2>1. run' \in Run
    BY <1>3, <1>10 DEF LaunchNode, Run
  <2>2. task' \in [Node -> Task]
    BY <1>0, <1>10, TaskTypes DEF LaunchNode
  <2> QED BY <1>10, <2>1, <2>2 DEF LaunchNode, TypeOK
<1> QED
  BY <1>1, <1>2, <1>5, <1>6, <1>7, <1>8, <1>9, <1>10 DEF Pass

LEMMA TaskStepType ==
  ASSUME TypeOK, NEW n \in Node, TaskStep(n)
  PROVE  TypeOK'
<1> USE DEF NodeUnchanged
<1>0. /\ rec \in [Node -> Record] /\ task \in [Node -> Task]
      /\ rec[n] \in Record /\ task[n] \in Task
      /\ DOMAIN cache \subseteq Key /\ \A k \in DOMAIN cache : cache[k] \in Val
  BY DEF TypeOK
<1>1. /\ [task EXCEPT ![n] = NoTask] \in [Node -> Task]
      /\ \A st \in NodeState : Mark(n, st) \in [Node -> Record]
  BY <1>0, TaskTypes DEF Mark, Record
<1>2. CASE TaskNeverStarts(n)
  BY <1>1, <1>2 DEF TaskNeverStarts, TypeOK
<1>3. CASE TaskStarts(n)
  <2>1. \A st \in NodeState :
          [rec EXCEPT ![n].state = st, ![n].stale = FALSE] \in [Node -> Record]
    BY <1>0 DEF Record
  <2>2. "error" \in NodeState /\ "running" \in NodeState
    BY DEF NodeState
  <2>3. CASE InputMissing(n)
    <3>1. rec' = [rec EXCEPT ![n].state = "error", ![n].stale = FALSE]
          /\ task' = [task EXCEPT ![n] = NoTask]
      BY <1>3, <2>3 DEF TaskStarts
    <3>2. rec' \in [Node -> Record] /\ task' \in [Node -> Task]
      BY <1>1, <2>1, <2>2, <3>1
    <3>3. UNCHANGED <<doc, cache, auto, deb, queue, run, edits, asked>>
      BY <1>3 DEF TaskStarts
    <3> QED
      BY <3>2, <3>3 DEF TypeOK
  <2>4. CASE ~InputMissing(n)
    <3>1. InputValues(n) \in SUBSET Val
      BY <1>0, <2>4 DEF InputMissing, InputValues
    <3>2. Computed(n, task[n].ver, InputValues(n)) \in Val
      BY <1>0, <3>1, ComputedType DEF Task
    <3>3. rec[n].key \in Key
      BY <1>0 DEF Record
    <3> DEFINE t == [task EXCEPT ![n].ph = "running", ![n].own = TRUE,
                                 ![n].key = rec[n].key,
                                 ![n].val = Computed(n, task[n].ver, InputValues(n))]
    <3>4. t \in [Node -> Task]
      BY <1>0, <3>2, <3>3 DEF Task
    <3>5. task' = t /\ rec' = [rec EXCEPT ![n].state = "running", ![n].stale = FALSE]
      BY <1>3, <2>4 DEF TaskStarts
    <3> HIDE DEF t
    <3>6. rec' \in [Node -> Record] /\ task' \in [Node -> Task]
      BY <2>1, <2>2, <3>4, <3>5
    <3>7. UNCHANGED <<doc, cache, auto, deb, queue, run, edits, asked>>
      BY <1>3 DEF TaskStarts
    <3> QED
      BY <3>6, <3>7 DEF TypeOK
  <2> QED BY <2>3, <2>4
<1>4. CASE TaskSucceeds(n)
  <2>1. StoreKey(n) \in Key /\ task[n].val \in Val
    BY <1>0 DEF StoreKey, Task, Record
  <2>2. /\ DOMAIN cache' \subseteq Key
        /\ \A k \in DOMAIN cache' : cache'[k] \in Val
    BY <1>0, <1>4, <2>1, StoreType DEF TaskSucceeds
  <2>3. "done" \in NodeState
    BY DEF NodeState
  <2> QED BY <1>1, <1>4, <2>2, <2>3 DEF TaskSucceeds, TypeOK
<1>5. CASE TaskFails(n)
  <2>1. "error" \in NodeState
    BY DEF NodeState
  <2> QED BY <1>1, <1>5, <2>1 DEF TaskFails, TypeOK
<1>6. CASE TaskCancelled(n)
  <2>1. "dirty" \in NodeState /\ "cancelled" \in NodeState
    BY DEF NodeState
  <2> QED BY <1>1, <1>6, <2>1 DEF TaskCancelled, TypeOK
<1> QED
  BY <1>2, <1>3, <1>4, <1>5, <1>6 DEF TaskStep

LEMMA CancelledType ==
  ASSUME NEW t \in Task, NEW c \in BOOLEAN
  PROVE  [t EXCEPT !.cancel = c] \in Task
BY DEF Task

LEMMA CancelTasksType ==
  ASSUME TypeOK, NEW S
  PROVE  CancelTasks(S) \in [Node -> Task]
<1>1. \A n \in Node : task[n] \in Task
  BY DEF TypeOK
<1>2. \A n \in Node : [task[n] EXCEPT !.cancel = TRUE] \in Task
  BY <1>1, CancelledType
<1> QED
  BY <1>1, <1>2 DEF CancelTasks

\* The user's steps; the saves all go through UpdateType.
LEMMA UserStepType ==
  ASSUME TypeOK, UserStep
  PROVE  TypeOK'
<1>0. /\ doc \in Document /\ run \in Run /\ queue \in Seq(Request)
      /\ edits \in Nat /\ asked \in Nat
      /\ DOMAIN cache \subseteq Key /\ \A k \in DOMAIN cache : cache[k] \in Val
  BY DEF TypeOK
<1>1. ASSUME NEW op, Outside(op) PROVE edits' \in Nat
  BY <1>0, <1>1 DEF Outside
<1>2. Touched(run) \in Run
  BY <1>0, RunKilledType
<1>3. CASE SaveUnchanged
  BY <1>0, <1>1, <1>3, UpdateType DEF SaveUnchanged
<1>4. CASE CancelRun
  <2>1. run' \in Run
    BY <1>0, <1>4 DEF CancelRun, Run
  <2> QED BY <1>1, <1>4, <2>1, CancelTasksType DEF CancelRun, TypeOK
<1>5. CASE Evict
  BY <1>0, <1>1, <1>2, <1>5 DEF Evict, TypeOK
<1>6. ASSUME NEW on \in BOOLEAN, SetAutoRun(on) PROVE TypeOK'
  <2>1. run' \in Run /\ queue' \in Seq(Request)
    BY <1>0, <1>6, RunKilledType, DebounceDroppedType DEF SetAutoRun
  <2> QED BY <1>1, <1>6, <2>1 DEF SetAutoRun, TypeOK
<1>7. ASSUME NEW t \in TargetSets, RequestRun(t) PROVE TypeOK'
  <2>1. t \in SUBSET Node
    BY SchedulerAssumption
  <2>2. [auto |-> FALSE, targets |-> t] \in Request
    BY <2>1 DEF Request
  <2>3. queue' \in Seq(Request) /\ asked' \in Nat
    BY <1>0, <1>7, <2>2 DEF RequestRun
  <2> QED BY <1>7, <2>3 DEF RequestRun, TypeOK
<1>8. ASSUME NEW n \in Node, EditParam(n) PROVE TypeOK'
  <2>1. PICK v \in Ver : Update([doc EXCEPT !.ver[n] = v])
    BY <1>8 DEF EditParam
  <2>2. [doc EXCEPT !.ver[n] = v] \in Document
    BY <1>0 DEF Document
  <2> QED BY <1>1, <1>8, <2>1, <2>2, UpdateType DEF EditParam
<1>9. ASSUME NEW n \in Node, RemoveOrRestore(n) PROVE TypeOK'
  <2>1. [doc EXCEPT !.in = IF n \in @ THEN @ \ {n} ELSE @ \cup {n}] \in Document
    BY <1>0 DEF Document
  <2> QED BY <1>1, <1>9, <2>1, UpdateType DEF RemoveOrRestore
<1>10. ASSUME NEW n \in Node, BreakOrRepair(n) PROVE TypeOK'
  <2>1. [doc EXCEPT !.bad = IF n \in @ THEN @ \ {n} ELSE @ \cup {n}] \in Document
    BY <1>0 DEF Document
  <2> QED BY <1>1, <1>10, <2>1, UpdateType DEF BreakOrRepair
<1>11. ASSUME NEW n \in Node, CancelNode(n) PROVE TypeOK'
  BY <1>1, <1>2, <1>11, CancelTasksType DEF CancelNode, TypeOK
<1>12. ASSUME NEW n \in Node, SharedStore(n) PROVE TypeOK'
  <2>1. rec[n].key \in Key /\ rec[n].key \in Val
    BY KeyIsVal DEF TypeOK, Record
  <2>2. /\ DOMAIN cache' \subseteq Key
        /\ \A k \in DOMAIN cache' : cache'[k] \in Val
    BY <1>0, <1>12, <2>1, StoreType DEF SharedStore
  <2> QED BY <1>1, <1>2, <1>12, <2>2 DEF SharedStore, TypeOK
<1> QED
  BY <1>3, <1>4, <1>5, <1>6, <1>7, <1>8, <1>9, <1>10, <1>11, <1>12 DEF UserStep

LEMMA RunStepType ==
  ASSUME TypeOK, RunStep
  PROVE  TypeOK'
<1>0. run \in Run /\ rec \in [Node -> Record] /\ queue \in Seq(Request)
  BY DEF TypeOK
<1>1. CASE BeginRun
  <2>0. Head(queue) \in Request
    BY <1>0, <1>1, HeadTailProperties DEF BeginRun
  <2>1. Head(queue).auto \in BOOLEAN
    BY <2>0 DEF Request
  <2>2. \A t, s : Plan(t, s) \subseteq Node
    BY DEF Plan, Leaves, Live, Ancestors, TypeOK, Document
  <2>3. run' \in Run
    <3>1. PICK plan \in SUBSET Node :
            run' = [NoRun EXCEPT !.ph = "start", !.auto = Head(queue).auto,
                                 !.plan = plan, !.pending = plan]
      BY <1>1, <2>2 DEF BeginRun
    <3> QED BY <2>1, <3>1, NoRunType DEF Run, Phase
  <2>4. queue' \in Seq(Request)
    BY <1>0, <1>1, HeadTailProperties DEF BeginRun
  <2> QED BY <1>1, <2>3, <2>4 DEF BeginRun, TypeOK
<1>2. CASE RunOver
  BY <1>2, NoRunType DEF RunOver, TypeOK
<1> QED
  BY <1>1, <1>2, PassType DEF RunStep, FinishRun, KillRun, Drained

LEMMA TypeInductive ==
  ASSUME TypeOK, [Next]_vars
  PROVE  TypeOK'
<1>1. CASE DebounceFires
  <2>1. [auto |-> TRUE, targets |-> {}] \in Request
    BY DEF Request
  <2>2. queue' \in Seq(Request)
    BY <1>1, <2>1 DEF DebounceFires, TypeOK
  <2> QED BY <1>1, <2>2 DEF DebounceFires, TypeOK
<1>2. CASE LimitReached
  <2>1. run' \in Run
    BY <1>2 DEF LimitReached, TypeOK, Run, Phase
  <2>2. task' \in [Node -> Task]
    <3>1. \A n \in Node : task[n] \in Task /\ Alive(n) \in BOOLEAN
      BY DEF TypeOK, Alive
    <3>2. \A n \in Node : [task[n] EXCEPT !.cancel = Alive(n)] \in Task
      BY <3>1, CancelledType
    <3> QED BY <1>2, <3>2 DEF LimitReached
  <2>3. edits' \in Nat
    BY <1>2 DEF LimitReached, Outside, TypeOK
  <2> QED BY <1>2, <2>1, <2>2, <2>3 DEF LimitReached, TypeOK
<1>3. CASE UNCHANGED vars
  BY <1>3 DEF vars, TypeOK
<1> QED
  BY <1>1, <1>2, <1>3, UserStepType, RunStepType, TaskStepType DEF Next

LEMMA TypeInit == Init => TypeOK
<1> SUFFICES ASSUME Init PROVE TypeOK
  OBVIOUS
<1>1. 0 \in Ver
  BY SchedulerAssumption DEF Ver
<1>2. doc \in Document
  BY <1>1 DEF Init, Document
<1>3. rec \in [Node -> Record]
  BY <1>2, KeyOfType, RecordTypes DEF Init
<1>4. task \in [Node -> Task]
  BY TaskTypes DEF Init
<1>5. run \in Run /\ queue \in Seq(Request)
  BY NoRunType DEF Init
<1>6. DOMAIN cache = {}
  BY DEF Init
<1>7. auto \in BOOLEAN /\ deb \in {"off", "sleep", "queued", "running"}
  BY DEF Init
<1> QED
  BY <1>2, <1>3, <1>4, <1>5, <1>6, <1>7 DEF Init, TypeOK

\* The records, tasks, cache, queue and run of the scheduler keep their types.
THEOREM TypeCorrect == Spec => []TypeOK
BY TypeInit, TypeInductive, PTL DEF Spec
-----------------------------------------------------------------------------
(* A running record has a live task behind it *)

\* A save drops or cancels tasks and never leaves a record running without one.
LEMMA UpdateKeepsTasks ==
  ASSUME TypeOK, RunningHasTask, NEW d \in Document, Update(d)
  PROVE  RunningHasTask'
<1> SUFFICES ASSUME NEW n \in Node, rec'[n].state = "running"
             PROVE  task'[n].ph = "running" /\ task'[n].own
  BY DEF RunningHasTask
<1>1. rec'[n] = Recompiled(d, n) /\ task'[n] = Superseded(d, n)
  BY DEF Update
<1>2. Live(d) \subseteq d.in
  BY DEF Live
<1>3. /\ NoRecord.state # "running" /\ IdleRecord.state # "running"
      /\ \A k : DirtyRecord(k).state # "running"
  BY DEF NoRecord, IdleRecord, DirtyRecord
<1>4. Recompiled(d, n) = rec[n] /\ n \in d.in
  BY <1>1, <1>2, <1>3 DEF Recompiled
<1>5. task[n].ph = "running" /\ task[n].own
  BY <1>1, <1>4 DEF RunningHasTask
<1> QED
  BY <1>1, <1>4, <1>5 DEF Superseded

LEMMA CancelKeepsTasks ==
  ASSUME TypeOK, RunningHasTask, NEW S, task' = CancelTasks(S), UNCHANGED rec
  PROVE  RunningHasTask'
<1> SUFFICES ASSUME NEW n \in Node, rec'[n].state = "running"
             PROVE  task'[n].ph = "running" /\ task'[n].own
  BY DEF RunningHasTask
<1>1. task[n] \in Task /\ task[n].ph = "running" /\ task[n].own
  BY DEF RunningHasTask, TypeOK
<1>2. task'[n] \in {task[n], [task[n] EXCEPT !.cancel = TRUE]}
  BY DEF CancelTasks
<1> QED
  BY <1>1, <1>2 DEF Task

LEMMA PassKeepsTasks ==
  ASSUME TypeOK, RunningHasTask, Pass
  PROVE  RunningHasTask'
<1>0. rec \in [Node -> Record] /\ task \in [Node -> Task]
  BY DEF TypeOK
<1>1. CASE UNCHANGED task /\ \A n \in Node : rec'[n].state = "running" => rec[n].state = "running"
  BY <1>1 DEF RunningHasTask
<1>2. CASE BeginPass
  <2>1. ASSUME NEW n \in Node, rec'[n].state = "running" PROVE rec[n].state = "running"
    <3>1. [rec[n] EXCEPT !.state = "dirty"].state = "dirty"
      BY <1>0 DEF Record
    <3> QED BY <1>2, <2>1, <3>1 DEF BeginPass
  <2> QED BY <1>1, <1>2, <2>1 DEF BeginPass
<1>3. CASE EndPass
  BY <1>1, <1>3 DEF EndPass
<1>4. ASSUME NEW n \in Node,
             DropNode(n) \/ SkipNode(n) \/ DeferNode(n) \/ TakeCached(n) \/ GateNode(n)
      PROVE  RunningHasTask'
  <2>1. ASSUME NEW m \in Node, rec'[m].state = "running" PROVE rec[m].state = "running"
    BY <1>0, <1>4, <2>1 DEF DropNode, SkipNode, DeferNode, TakeCached, GateNode, Record
  <2> QED BY <1>1, <1>4, <2>1 DEF DropNode, SkipNode, DeferNode, TakeCached, GateNode
<1>5. ASSUME NEW n \in Node, LaunchNode(n) PROVE RunningHasTask'
  <2> SUFFICES ASSUME NEW m \in Node, rec'[m].state = "running"
               PROVE  task'[m].ph = "running" /\ task'[m].own
    BY DEF RunningHasTask
  <2>1. task[m].ph = "running" /\ task[m].own
    BY <1>5 DEF RunningHasTask, LaunchNode
  <2>2. task'[m] = task[m]
    BY <1>0, <1>5, <2>1 DEF LaunchNode, Alive
  <2> QED BY <2>1, <2>2
<1> QED
  BY <1>2, <1>3, <1>4, <1>5 DEF Pass

LEMMA TaskStepKeepsTasks ==
  ASSUME TypeOK, RunningHasTask, NEW n \in Node, TaskStep(n)
  PROVE  RunningHasTask'
<1> SUFFICES ASSUME NEW m \in Node, rec'[m].state = "running"
             PROVE  task'[m].ph = "running" /\ task'[m].own
  BY DEF RunningHasTask
<1>0. /\ rec \in [Node -> Record] /\ task \in [Node -> Task]
      /\ rec[m].state = "running" => task[m].ph = "running" /\ task[m].own
  BY DEF TypeOK, RunningHasTask
<1>1. ASSUME NEW st, st # "running", rec' = Mark(n, st), task[n].ph = "running",
             task' = [task EXCEPT ![n] = NoTask]
      PROVE  task'[m].ph = "running" /\ task'[m].own
  <2>1. CASE m = n
    <3>1. task[n].own \/ rec[n].state # "running"
      BY <1>0, <2>1
    <3>2. rec'[n].state # "running"
      BY <1>0, <1>1, <3>1 DEF Mark, Record
    <3> QED BY <2>1, <3>2
  <2>2. CASE m # n
    <3>1. rec'[m] = rec[m] /\ task'[m] = task[m]
      BY <1>0, <1>1, <2>2 DEF Mark
    <3> QED BY <1>0, <3>1
  <2> QED BY <2>1, <2>2
<1>2. CASE TaskNeverStarts(n)
  BY <1>0, <1>2 DEF TaskNeverStarts, Runnable
<1>3. CASE TaskStarts(n)
  BY <1>0, <1>3 DEF TaskStarts, Record, Task
<1>4. CASE TaskSucceeds(n)
  BY <1>1, <1>4 DEF TaskSucceeds, Runnable
<1>5. CASE TaskFails(n)
  BY <1>1, <1>5 DEF TaskFails, Runnable
<1>6. CASE TaskCancelled(n)
  BY <1>1, <1>6 DEF TaskCancelled, Runnable
<1> QED
  BY <1>2, <1>3, <1>4, <1>5, <1>6 DEF TaskStep

LEMMA RunningHasTaskInductive ==
  ASSUME TypeOK, RunningHasTask, [Next]_vars
  PROVE  RunningHasTask'
<1>1. ASSUME UNCHANGED <<rec, task>> PROVE RunningHasTask'
  BY <1>1 DEF RunningHasTask
<1>2. CASE UserStep
  <2>0. doc \in Document
    BY DEF TypeOK
  <2>1. CASE SaveUnchanged
    BY <2>0, <2>1, UpdateKeepsTasks DEF SaveUnchanged
  <2>2. CASE CancelRun
    BY <2>2, CancelKeepsTasks DEF CancelRun
  <2>3. CASE Evict
    BY <1>1, <2>3 DEF Evict
  <2>4. ASSUME NEW on \in BOOLEAN, SetAutoRun(on) PROVE RunningHasTask'
    BY <1>1, <2>4 DEF SetAutoRun
  <2>5. ASSUME NEW t \in TargetSets, RequestRun(t) PROVE RunningHasTask'
    BY <1>1, <2>5 DEF RequestRun
  <2>6. ASSUME NEW n \in Node, EditParam(n) PROVE RunningHasTask'
    <3>1. PICK v \in Ver : Update([doc EXCEPT !.ver[n] = v])
      BY <2>6 DEF EditParam
    <3>2. [doc EXCEPT !.ver[n] = v] \in Document
      BY <2>0 DEF Document
    <3> QED BY <3>1, <3>2, UpdateKeepsTasks
  <2>7. ASSUME NEW n \in Node, RemoveOrRestore(n) PROVE RunningHasTask'
    <3>1. [doc EXCEPT !.in = IF n \in @ THEN @ \ {n} ELSE @ \cup {n}] \in Document
      BY <2>0 DEF Document
    <3> QED BY <2>7, <3>1, UpdateKeepsTasks DEF RemoveOrRestore
  <2>8. ASSUME NEW n \in Node, BreakOrRepair(n) PROVE RunningHasTask'
    <3>1. [doc EXCEPT !.bad = IF n \in @ THEN @ \ {n} ELSE @ \cup {n}] \in Document
      BY <2>0 DEF Document
    <3> QED BY <2>8, <3>1, UpdateKeepsTasks DEF BreakOrRepair
  <2>9. ASSUME NEW n \in Node, CancelNode(n) PROVE RunningHasTask'
    BY <2>9, CancelKeepsTasks DEF CancelNode
  <2>10. ASSUME NEW n \in Node, SharedStore(n) PROVE RunningHasTask'
    BY <1>1, <2>10 DEF SharedStore
  <2> QED
    BY <1>2, <2>1, <2>2, <2>3, <2>4, <2>5, <2>6, <2>7, <2>8, <2>9, <2>10 DEF UserStep
<1>3. CASE DebounceFires
  BY <1>1, <1>3 DEF DebounceFires
<1>4. CASE LimitReached
  <2> SUFFICES ASSUME NEW n \in Node, rec'[n].state = "running"
               PROVE  task'[n].ph = "running" /\ task'[n].own
    BY DEF RunningHasTask
  <2>1. task[n] \in Task /\ task[n].ph = "running" /\ task[n].own
    BY <1>4 DEF LimitReached, RunningHasTask, TypeOK
  <2>2. task'[n] = [task[n] EXCEPT !.cancel = Alive(n)]
    BY <1>4 DEF LimitReached
  <2> QED BY <2>1, <2>2 DEF Task
<1>5. CASE RunStep
  <2>1. CASE BeginRun
    BY <1>1, <2>1 DEF BeginRun
  <2>2. CASE RunOver
    BY <1>1, <2>2 DEF RunOver
  <2> QED
    BY <1>5, <2>1, <2>2, PassKeepsTasks DEF RunStep, FinishRun, KillRun, Drained
<1>6. CASE UNCHANGED vars
  BY <1>1, <1>6 DEF vars
<1> QED
  BY <1>2, <1>3, <1>4, <1>5, <1>6, TaskStepKeepsTasks DEF Next

LEMMA RunningHasTaskInit == Init => RunningHasTask
BY DEF Init, RunningHasTask, DirtyRecord

\* A node shown as running always has a live task of its own that will move it on.
THEOREM RunningHasTaskAlways == Spec => []RunningHasTask
<1>1. Init => TypeOK /\ RunningHasTask
  BY TypeInit, RunningHasTaskInit
<1>2. TypeOK /\ RunningHasTask /\ [Next]_vars => (TypeOK /\ RunningHasTask)'
  BY TypeInductive, RunningHasTaskInductive
<1> QED
  BY <1>1, <1>2, PTL DEF Spec
-----------------------------------------------------------------------------
(* At most one auto-run *)

\* Dropping the debounce leaves no auto-run behind in the line.
LEMMA DroppedLeavesNoAuto ==
  ASSUME TypeOK, OneAutoRun
  PROVE  \A i \in DOMAIN DebounceDropped(queue) : ~DebounceDropped(queue)[i].auto
<1>0. queue \in Seq(Request) /\ DOMAIN queue = 1..Len(queue) /\ Len(queue) \in Nat
  BY LenProperties DEF TypeOK
<1>1. CASE deb # "queued"
  BY <1>1 DEF OneAutoRun, DebounceDropped
<1>2. CASE deb = "queued"
  <2>1. Autos(queue) # {}
    BY <1>2 DEF OneAutoRun, Autos
  <2>2. PICK i \in 1..Len(queue) :
          queue[i].auto /\ WithoutAuto(queue) = RemoveAt(queue, i)
    BY <1>0, <2>1, WithoutAutoProperties
  <2> DEFINE q == RemoveAt(queue, i)
  <2>3. /\ q \in Seq(Request) /\ Len(q) = Len(queue) - 1
        /\ \A j \in 1..(Len(queue) - 1) :
              q[j] = IF j < i THEN queue[j] ELSE queue[j + 1]
    BY <1>0, RemoveAtProperties
  <2>4. DOMAIN q = 1..(Len(queue) - 1)
    BY <2>3, LenProperties
  <2>5. DebounceDropped(queue) = q
    BY <1>2, <2>2 DEF DebounceDropped
  <2>6. ASSUME NEW j \in 1..(Len(queue) - 1) PROVE ~q[j].auto
    <3>1. PICK k \in DOMAIN queue : k # i /\ q[j] = queue[k]
      <4>1. CASE j < i
        <5>1. j \in DOMAIN queue /\ j # i
          BY <1>0, <4>1
        <5>2. q[j] = queue[j]
          BY <2>3, <4>1
        <5> QED BY <5>1, <5>2
      <4>2. CASE ~(j < i)
        BY <1>0, <2>3, <4>2
      <4> QED BY <4>1, <4>2
    <3> QED BY <1>0, <2>2, <3>1 DEF OneAutoRun
  <2> QED BY <2>4, <2>5, <2>6
<1> QED
  BY <1>1, <1>2

\* Cancelling the debounce, then sleeping again or not, keeps the invariant.
LEMMA DropKeepsOneAuto ==
  ASSUME TypeOK, OneAutoRun,
         deb' \in {"sleep", "off"}, queue' = DebounceDropped(queue),
         run' = Touched(RunKilled(run))
  PROVE  OneAutoRun'
<1>0. run \in Run /\ deb \in {"off", "sleep", "queued", "running"}
  BY DEF TypeOK
<1>1. /\ run'.ph = run.ph /\ run'.auto = run.auto
      /\ run'.kill = (run.kill \/ deb = "running")
  BY <1>0 DEF Touched, RunKilled, Run
<1>2. ~(run'.ph # "off" /\ run'.auto /\ ~run'.kill)
  BY <1>0, <1>1 DEF OneAutoRun, InRun, Run
<1>3. \A i \in DOMAIN queue' : ~queue'[i].auto
  BY DroppedLeavesNoAuto
<1> QED
  BY <1>2, <1>3 DEF OneAutoRun, InRun

LEMMA SameRunKeepsOneAuto ==
  ASSUME TypeOK, OneAutoRun, UNCHANGED <<deb, queue>>,
         run'.ph # "off" <=> run.ph # "off", run'.auto = run.auto, run'.kill = run.kill
  PROVE  OneAutoRun'
BY DEF OneAutoRun, InRun

LEMMA UpdateKeepsOneAuto ==
  ASSUME TypeOK, OneAutoRun, NEW d, Update(d)
  PROVE  OneAutoRun'
<1> DEFINE arm == auto /\ AnyDirty([n \in Node |-> Recompiled(d, n)])
<1>1. CASE arm
  BY <1>1, DropKeepsOneAuto DEF Update
<1>2. CASE ~arm
  <2>1. UNCHANGED <<deb, queue>> /\ run' = Touched(run)
    BY <1>2 DEF Update
  <2>2. run'.ph = run.ph /\ run'.auto = run.auto /\ run'.kill = run.kill
    BY <2>1 DEF TypeOK, Touched, Run
  <2> QED BY <2>1, <2>2, SameRunKeepsOneAuto
<1> QED
  BY <1>1, <1>2

\* An entry joins the end of the line.
LEMMA AppendAutos ==
  ASSUME NEW q \in Seq(Request), NEW r \in Request
  PROVE  /\ DOMAIN Append(q, r) = DOMAIN q \cup {Len(q) + 1}
         /\ Len(q) + 1 \notin DOMAIN q
         /\ \A i \in DOMAIN q : Append(q, r)[i] = q[i]
         /\ Append(q, r)[Len(q) + 1] = r
BY DEF Request

LEMMA OneAutoRunInductive ==
  ASSUME TypeOK, OneAutoRun, [Next]_vars
  PROVE  OneAutoRun'
<1>0. run \in Run /\ queue \in Seq(Request)
  BY DEF TypeOK
<1>1. ASSUME UNCHANGED <<deb, queue>>,
             run'.ph # "off" <=> run.ph # "off", run'.auto = run.auto, run'.kill = run.kill
      PROVE  OneAutoRun'
  BY <1>1, SameRunKeepsOneAuto
<1>2. /\ Touched(run).ph = run.ph /\ Touched(run).auto = run.auto
      /\ Touched(run).kill = run.kill
  BY <1>0 DEF Touched, Run
<1>3. CASE UserStep
  <2>1. CASE SaveUnchanged
    BY <2>1, UpdateKeepsOneAuto DEF SaveUnchanged
  <2>2. CASE CancelRun
    BY <1>0, <1>1, <2>2 DEF CancelRun, Run
  <2>3. CASE Evict
    BY <1>1, <1>2, <2>3 DEF Evict
  <2>4. ASSUME NEW on \in BOOLEAN, SetAutoRun(on) PROVE OneAutoRun'
    <3>1. CASE on => AnyDirty(rec)
      BY <2>4, <3>1, DropKeepsOneAuto DEF SetAutoRun
    <3>2. CASE ~(on => AnyDirty(rec))
      BY <1>1, <2>4, <3>2 DEF SetAutoRun
    <3> QED BY <3>1, <3>2
  <2>5. ASSUME NEW t \in TargetSets, RequestRun(t) PROVE OneAutoRun'
    <3> DEFINE r == [auto |-> FALSE, targets |-> t]
    <3>1. r \in Request /\ ~r.auto
      BY SchedulerAssumption DEF Request
    <3>2. queue' = Append(queue, r) /\ UNCHANGED <<deb, run>>
      BY <2>5 DEF RequestRun
    <3> HIDE DEF r
    <3> QED BY <1>0, <3>1, <3>2, AppendAutos DEF OneAutoRun, InRun
  <2>6. ASSUME NEW n \in Node, EditParam(n) \/ RemoveOrRestore(n) \/ BreakOrRepair(n)
        PROVE  OneAutoRun'
    BY <2>6, UpdateKeepsOneAuto DEF EditParam, RemoveOrRestore, BreakOrRepair
  <2>7. ASSUME NEW n \in Node, CancelNode(n) \/ SharedStore(n) PROVE OneAutoRun'
    BY <1>1, <1>2, <2>7 DEF CancelNode, SharedStore
  <2> QED
    BY <1>3, <2>1, <2>2, <2>3, <2>4, <2>5, <2>6, <2>7 DEF UserStep
<1>4. CASE DebounceFires
  <2>1. CASE auto
    <3> DEFINE r == [auto |-> TRUE, targets |-> {}]
    <3>1. r \in Request /\ r.auto
      BY DEF Request
    <3>2. queue' = Append(queue, r) /\ deb = "sleep" /\ deb' = "queued" /\ UNCHANGED run
      BY <1>4, <2>1 DEF DebounceFires
    <3> HIDE DEF r
    <3>3. \A i \in DOMAIN queue : ~queue[i].auto
      BY <3>2 DEF OneAutoRun
    <3> QED BY <1>0, <3>1, <3>2, <3>3, AppendAutos DEF OneAutoRun, InRun
  <2>2. CASE ~auto
    BY <1>4, <2>2 DEF DebounceFires, OneAutoRun, InRun
  <2> QED BY <2>1, <2>2
<1>5. CASE LimitReached
  BY <1>0, <1>1, <1>5 DEF LimitReached, Run
<1>6. CASE BeginRun
  <2>1. /\ Head(queue) \in Request /\ Len(queue) \in Nat \ {0} /\ Head(queue) = queue[1]
        /\ Tail(queue) \in Seq(Request) /\ Len(Tail(queue)) = Len(queue) - 1
        /\ \A i \in 1..(Len(queue) - 1) : Tail(queue)[i] = queue[i + 1]
    BY <1>0, <1>6, HeadTailProperties, EmptySeq DEF BeginRun
  <2>2. DOMAIN queue = 1..Len(queue) /\ DOMAIN Tail(queue) = 1..(Len(queue) - 1)
    BY <1>0, <2>1, LenProperties
  <2>3. /\ run'.ph = "start" /\ run'.auto = Head(queue).auto /\ ~run'.kill
        /\ queue' = Tail(queue) /\ deb' = IF Head(queue).auto THEN "running" ELSE deb
        /\ deb # "running"
    BY <1>6 DEF BeginRun, NoRun, OneAutoRun
  <2>4. \A i, j \in DOMAIN queue' : queue'[i].auto /\ queue'[j].auto => i = j
    <3> SUFFICES ASSUME NEW i \in DOMAIN queue', NEW j \in DOMAIN queue',
                        queue'[i].auto, queue'[j].auto
                 PROVE  i = j
      OBVIOUS
    <3>1. i + 1 \in DOMAIN queue /\ j + 1 \in DOMAIN queue
      BY <2>1, <2>2, <2>3
    <3>2. queue[i + 1].auto /\ queue[j + 1].auto
      BY <2>1, <2>2, <2>3
    <3>3. i + 1 = j + 1
      BY <3>1, <3>2 DEF OneAutoRun
    <3> QED BY <2>2, <2>3, <3>3
  <2>5. CASE Head(queue).auto
    <3>1. \A i \in DOMAIN queue' : ~queue'[i].auto
      <4> SUFFICES ASSUME NEW i \in DOMAIN queue', queue'[i].auto PROVE FALSE
        OBVIOUS
      <4>1. i + 1 \in DOMAIN queue /\ queue[i + 1].auto /\ 1 \in DOMAIN queue
        BY <2>1, <2>2, <2>3
      <4>2. i + 1 = 1
        BY <2>1, <2>5, <4>1 DEF OneAutoRun
      <4> QED BY <2>2, <2>3, <4>2
    <3> QED BY <2>3, <2>4, <2>5, <3>1 DEF OneAutoRun, InRun
  <2>6. CASE ~Head(queue).auto
    <3>1. (\E i \in DOMAIN queue' : queue'[i].auto) <=> \E i \in DOMAIN queue : queue[i].auto
      <4>1. ASSUME NEW i \in DOMAIN queue', queue'[i].auto
            PROVE  \E k \in DOMAIN queue : queue[k].auto
        <5>1. i + 1 \in DOMAIN queue /\ queue[i + 1].auto
          BY <2>1, <2>2, <2>3, <4>1
        <5> QED BY <5>1
      <4>2. ASSUME NEW i \in DOMAIN queue, queue[i].auto
            PROVE  \E k \in DOMAIN queue' : queue'[k].auto
        <5>1. i # 1
          BY <2>1, <2>6, <4>2
        <5>2. i - 1 \in DOMAIN queue' /\ queue'[i - 1] = queue[i]
          BY <2>1, <2>2, <2>3, <5>1
        <5> QED BY <4>2, <5>2
      <4> QED BY <4>1, <4>2
    <3> QED BY <2>3, <2>4, <2>6, <3>1 DEF OneAutoRun, InRun
  <2> QED BY <2>5, <2>6
<1>7. CASE RunOver
  <2>1. run'.ph = "off" /\ UNCHANGED queue
    BY <1>7 DEF RunOver, NoRun
  <2> QED BY <1>7, <2>1 DEF RunOver, OneAutoRun, InRun
<1>8. CASE Pass
  <2>1. UNCHANGED <<deb, queue>>
    BY <1>8 DEF Pass, BeginPass, EndPass, DropNode, SkipNode, DeferNode, TakeCached,
                GateNode, LaunchNode, PassUnchanged
  <2>2. ASSUME NEW n \in Node
        PROVE  /\ Settled(run, n).ph = run.ph /\ Settled(run, n).auto = run.auto
               /\ Settled(run, n).kill = run.kill /\ Settled(run, n) \in Run
    BY <1>0 DEF Settled, Run
  <2>3. run'.ph # "off" /\ run.ph # "off" /\ run'.auto = run.auto /\ run'.kill = run.kill
    <3>1. CASE BeginPass
      BY <1>0, <3>1 DEF BeginPass, Run
    <3>2. CASE EndPass
      BY <1>0, <3>2 DEF EndPass, Run
    <3>3. ASSUME NEW n \in Node,
                 DropNode(n) \/ SkipNode(n) \/ DeferNode(n) \/ TakeCached(n)
                 \/ GateNode(n) \/ LaunchNode(n)
          PROVE  run'.ph # "off" /\ run.ph # "off"
                 /\ run'.auto = run.auto /\ run'.kill = run.kill
      BY <1>0, <2>2, <3>3 DEF DropNode, SkipNode, DeferNode, TakeCached, GateNode,
                              LaunchNode, Ready, Scanning, Run
    <3> QED BY <1>8, <3>1, <3>2, <3>3 DEF Pass
  <2> QED BY <1>1, <2>1, <2>3
<1>9. ASSUME NEW n \in Node, TaskStep(n) PROVE OneAutoRun'
  <2>1. UNCHANGED <<deb, queue, run>>
    BY <1>9 DEF TaskStep, TaskNeverStarts, TaskStarts, TaskSucceeds, TaskFails,
                TaskCancelled, NodeUnchanged
  <2> QED BY <1>1, <2>1
<1>10. CASE UNCHANGED vars
  BY <1>1, <1>10 DEF vars
<1> QED
  BY <1>3, <1>4, <1>5, <1>6, <1>7, <1>8, <1>9, <1>10
     DEF Next, RunStep, FinishRun, KillRun, Drained

LEMMA OneAutoRunInit == Init => OneAutoRun
BY DEF Init, OneAutoRun, InRun, NoRun

\* At most one auto-run waits for the lock and `_debounce` always points at it.
THEOREM OneAutoRunAlways == Spec => []OneAutoRun
<1>1. Init => TypeOK /\ OneAutoRun
  BY TypeInit, OneAutoRunInit
<1>2. TypeOK /\ OneAutoRun /\ [Next]_vars => (TypeOK /\ OneAutoRun)'
  BY TypeInductive, OneAutoRunInductive
<1> QED
  BY <1>1, <1>2, PTL DEF Spec
-----------------------------------------------------------------------------
(* An aborted run starts nothing *)

\* Why: every task that has not taken its first step is cancelled, and the pass
\* has no node left to look at.
AbortedTasks ==
  run.abort => /\ run.ph = "scan" => run.todo = {}
               /\ \A n \in Node : task[n].ph = "created" => task[n].cancel

LEMMA UpdateKeepsAborted ==
  ASSUME TypeOK, AbortedTasks, NEW d, Update(d)
  PROVE  AbortedTasks'
<1>1. run'.abort = run.abort /\ run'.ph = run.ph /\ run'.todo = run.todo
  BY DEF Update, TypeOK, Run, Touched, RunKilled
<1>2. ASSUME NEW n \in Node, task'[n].ph = "created", task[n].ph = "created" => task[n].cancel
      PROVE  task'[n].cancel
  <2>1. task'[n] = Superseded(d, n) /\ task[n] \in Task
    BY DEF Update, TypeOK
  <2> QED BY <1>2, <2>1 DEF Superseded, Task
<1> QED
  BY <1>1, <1>2 DEF AbortedTasks

LEMMA AbortedTasksInductive ==
  ASSUME TypeOK, AbortedTasks, [Next]_vars
  PROVE  AbortedTasks'
<1>0. run \in Run /\ task \in [Node -> Task]
  BY DEF TypeOK
<1>1. ASSUME UNCHANGED task, run'.abort = run.abort, run'.ph = run.ph, run'.todo = run.todo
      PROVE  AbortedTasks'
  BY <1>1 DEF AbortedTasks
<1>2. Touched(run).abort = run.abort /\ Touched(run).ph = run.ph /\ Touched(run).todo = run.todo
  BY <1>0 DEF Touched, Run
<1>3. \A S : \A n \in Node :
        /\ CancelTasks(S)[n].ph = task[n].ph
        /\ CancelTasks(S)[n].cancel = (task[n].cancel \/ (n \in S /\ Alive(n)))
  <2> TAKE S
  <2> SUFFICES ASSUME NEW n \in Node
               PROVE  /\ CancelTasks(S)[n].ph = task[n].ph
                      /\ CancelTasks(S)[n].cancel = (task[n].cancel \/ (n \in S /\ Alive(n)))
    OBVIOUS
  <2>1. task[n] \in Task /\ Alive(n) \in BOOLEAN
    BY <1>0 DEF Alive
  <2>2. CancelTasks(S)[n] = IF n \in S /\ Alive(n) THEN [task[n] EXCEPT !.cancel = TRUE] ELSE task[n]
    BY DEF CancelTasks
  <2> QED BY <2>1, <2>2 DEF Task
<1>4. CASE UserStep
  <2>1. CASE SaveUnchanged
    BY <2>1, UpdateKeepsAborted DEF SaveUnchanged
  <2>2. CASE CancelRun
    <3>1. run'.ph = run.ph /\ run.ph # "scan"
      BY <1>0, <2>2 DEF CancelRun, Outside, AtAwait, Run
    <3>2. \A n \in Node : task'[n].ph = "created" => task'[n].cancel
      BY <1>3, <2>2 DEF CancelRun, Alive
    <3> QED BY <3>1, <3>2 DEF AbortedTasks
  <2>3. CASE Evict
    BY <1>1, <1>2, <2>3 DEF Evict
  <2>4. ASSUME NEW on \in BOOLEAN, SetAutoRun(on) PROVE AbortedTasks'
    BY <1>0, <1>1, <2>4 DEF SetAutoRun, Touched, RunKilled, Run
  <2>5. ASSUME NEW t \in TargetSets, RequestRun(t) PROVE AbortedTasks'
    BY <1>1, <2>5 DEF RequestRun
  <2>6. ASSUME NEW n \in Node, EditParam(n) \/ RemoveOrRestore(n) \/ BreakOrRepair(n)
        PROVE  AbortedTasks'
    BY <2>6, UpdateKeepsAborted DEF EditParam, RemoveOrRestore, BreakOrRepair
  <2>7. ASSUME NEW n \in Node, CancelNode(n) PROVE AbortedTasks'
    BY <1>2, <1>3, <2>7 DEF CancelNode, AbortedTasks
  <2>8. ASSUME NEW n \in Node, SharedStore(n) PROVE AbortedTasks'
    BY <1>1, <1>2, <2>8 DEF SharedStore
  <2> QED
    BY <1>4, <2>1, <2>2, <2>3, <2>4, <2>5, <2>6, <2>7, <2>8 DEF UserStep
<1>5. CASE DebounceFires
  BY <1>1, <1>5 DEF DebounceFires
<1>6. CASE LimitReached
  <2>1. run'.ph = "drain"
    BY <1>0, <1>6 DEF LimitReached, Run
  <2>2. ASSUME NEW n \in Node, task'[n].ph = "created" PROVE task'[n].cancel
    <3>1. task[n] \in Task /\ task'[n] = [task[n] EXCEPT !.cancel = Alive(n)]
      BY <1>0, <1>6 DEF LimitReached
    <3>2. task[n].ph = "created"
      BY <2>2, <3>1 DEF Task
    <3>3. Alive(n)
      BY <3>2 DEF Alive
    <3> QED BY <3>1, <3>3 DEF Task
  <2> QED BY <2>1, <2>2 DEF AbortedTasks
<1>7. CASE BeginRun \/ RunOver
  <2>1. CASE BeginRun
    <3>1. PICK plan : run' = [NoRun EXCEPT !.ph = "start", !.auto = Head(queue).auto,
                                           !.plan = plan, !.pending = plan]
      BY <2>1 DEF BeginRun
    <3>2. run'.abort = FALSE
      BY <3>1 DEF NoRun
    <3> QED BY <3>2 DEF AbortedTasks
  <2>2. CASE RunOver
    <3>1. run'.abort = FALSE
      BY <2>2 DEF RunOver, NoRun
    <3> QED BY <3>1 DEF AbortedTasks
  <2> QED BY <1>7, <2>1, <2>2
<1>8. CASE Pass
  <2>1. CASE BeginPass
    <3>1. run'.abort = run.abort /\ UNCHANGED task
      BY <1>0, <2>1 DEF BeginPass, Run
    <3>2. run.abort => run'.ph = "end" \/ run'.todo = {}
      BY <1>0, <2>1 DEF BeginPass, Run
    <3> QED BY <3>1, <3>2 DEF AbortedTasks
  <2>2. CASE EndPass
    <3>1. run'.abort = run.abort /\ UNCHANGED task /\ run'.ph # "scan"
      BY <1>0, <2>2 DEF EndPass, Run
    <3> QED BY <3>1 DEF AbortedTasks
  <2>3. ASSUME NEW n \in Node,
               DropNode(n) \/ SkipNode(n) \/ DeferNode(n) \/ TakeCached(n)
               \/ GateNode(n) \/ LaunchNode(n)
        PROVE  AbortedTasks'
    <3>1. ~run.abort
      BY <2>3 DEF DropNode, SkipNode, DeferNode, TakeCached, GateNode, LaunchNode,
                  Ready, Scanning, AbortedTasks
    <3>2. run'.abort = run.abort
      BY <1>0, <2>3 DEF DropNode, SkipNode, DeferNode, TakeCached, GateNode,
                        LaunchNode, Settled, Run
    <3> QED BY <3>1, <3>2 DEF AbortedTasks
  <2> QED BY <1>8, <2>1, <2>2, <2>3 DEF Pass
<1>9. ASSUME NEW n \in Node, TaskStep(n) PROVE AbortedTasks'
  <2>1. UNCHANGED run
    BY <1>9 DEF TaskStep, TaskNeverStarts, TaskStarts, TaskSucceeds, TaskFails,
                TaskCancelled, NodeUnchanged
  <2>2. /\ task'[n].ph # "created"
        /\ \A m \in Node : m # n => task'[m] = task[m]
    <3>1. NoTask.ph # "created"
      BY DEF NoTask
    <3>2. task' = [task EXCEPT ![n] = NoTask] =>
            task'[n].ph # "created" /\ \A m \in Node : m # n => task'[m] = task[m]
      BY <1>0, <3>1
    <3>3. CASE TaskStarts(n) /\ ~InputMissing(n)
      BY <1>0, <3>3 DEF TaskStarts, Task
    <3> QED
      BY <1>9, <3>2, <3>3 DEF TaskStep, TaskNeverStarts, TaskStarts, TaskSucceeds,
                              TaskFails, TaskCancelled
  <2> QED BY <2>1, <2>2 DEF AbortedTasks
<1>10. CASE UNCHANGED vars
  BY <1>1, <1>10 DEF vars
<1> QED
  BY <1>4, <1>5, <1>6, <1>7, <1>8, <1>9, <1>10
     DEF Next, RunStep, FinishRun, KillRun, Drained

LEMMA StepStartsNothing ==
  ASSUME TypeOK, AbortedTasks, [Next]_vars, run.abort,
         NEW n \in Node, rec'[n].state = "running"
  PROVE  rec[n].state = "running"
<1>0. rec \in [Node -> Record]
  BY DEF TypeOK
<1>1. ASSUME NEW d, Update(d) PROVE rec[n].state = "running"
  <2>1. rec'[n] = Recompiled(d, n)
    BY <1>1 DEF Update
  <2> QED BY <2>1 DEF Recompiled, NoRecord, IdleRecord, DirtyRecord
<1>2. ASSUME NEW m \in Node, NEW st, rec' = Mark(m, st), st # "running"
      PROVE  rec[n].state = "running"
  BY <1>0, <1>2 DEF Mark, Record
<1>3. CASE UserStep
  BY <1>1, <1>3 DEF UserStep, SaveUnchanged, CancelRun, Evict, SetAutoRun, RequestRun,
                    EditParam, RemoveOrRestore, BreakOrRepair, CancelNode, SharedStore
<1>4. CASE DebounceFires \/ LimitReached \/ BeginRun \/ RunOver \/ UNCHANGED vars
  BY <1>4 DEF DebounceFires, LimitReached, BeginRun, RunOver, vars
<1>5. CASE Pass
  <2>1. CASE BeginPass
    <3>1. [rec[n] EXCEPT !.state = "dirty"].state = "dirty"
      BY <1>0 DEF Record
    <3> QED BY <2>1, <3>1 DEF BeginPass
  <2>2. CASE EndPass
    BY <2>2 DEF EndPass
  <2>3. ASSUME NEW m \in Node,
               DropNode(m) \/ SkipNode(m) \/ DeferNode(m) \/ TakeCached(m)
               \/ GateNode(m) \/ LaunchNode(m)
        PROVE  rec[n].state = "running"
    BY <2>3 DEF DropNode, SkipNode, DeferNode, TakeCached, GateNode, LaunchNode,
                Ready, Scanning, AbortedTasks
  <2> QED BY <1>5, <2>1, <2>2, <2>3 DEF Pass
<1>6. ASSUME NEW m \in Node, TaskStep(m) PROVE rec[n].state = "running"
  <2>1. ~TaskStarts(m)
    BY DEF TaskStarts, Runnable, AbortedTasks
  <2>2. CASE TaskNeverStarts(m)
    BY <2>2 DEF TaskNeverStarts
  <2>3. CASE TaskSucceeds(m)
    BY <1>2, <2>3 DEF TaskSucceeds
  <2>4. CASE TaskFails(m)
    BY <1>2, <2>4 DEF TaskFails
  <2>5. CASE TaskCancelled(m)
    BY <1>2, <2>5 DEF TaskCancelled
  <2> QED BY <1>6, <2>1, <2>2, <2>3, <2>4, <2>5 DEF TaskStep
<1> QED
  BY <1>3, <1>4, <1>5, <1>6 DEF Next, RunStep, FinishRun, KillRun, Drained

\* After a cancel or the wall-clock limit, no node starts before the run is over.
THEOREM AbortedRunStartsNothingAlways == Spec => AbortedRunStartsNothing
<1>1. Init => TypeOK /\ AbortedTasks
  <2>1. Init => AbortedTasks
    BY DEF Init, AbortedTasks, NoRun
  <2> QED BY <2>1, TypeInit
<1>2. TypeOK /\ AbortedTasks /\ [Next]_vars => (TypeOK /\ AbortedTasks)'
  BY TypeInductive, AbortedTasksInductive
<1>3. TypeOK /\ AbortedTasks /\ [Next]_vars
      => [run.abort => \A n \in Node :
            rec'[n].state = "running" => rec[n].state = "running"]_vars
  BY StepStartsNothing
<1> QED
  BY <1>1, <1>2, <1>3, PTL DEF Spec, AbortedRunStartsNothing
-----------------------------------------------------------------------------
(* The scheduler implements RunQueue *)

Holder == IF ~InRun THEN "none" ELSE IF run.auto THEN "auto" ELSE "explicit"

\* Cancelling the debounce withdraws the waiting auto-run, or changes nothing.
LEMMA DropWithdraws ==
  ASSUME TypeOK, OneAutoRun, queue' = DebounceDropped(queue),
         run'.ph # "off" <=> run.ph # "off", run'.auto = run.auto
  PROVE  Runs!WithdrawAuto \/ UNCHANGED <<queue, Holder>>
<1>0. queue \in Seq(Request) /\ DOMAIN queue = 1..Len(queue)
  BY LenProperties DEF TypeOK
<1>1. Holder' = Holder
  BY DEF Holder, InRun
<1>2. CASE deb = "queued" /\ Autos(queue) # {}
  <2>1. \E i \in DOMAIN queue : queue[i].auto /\ queue' = RemoveAt(queue, i)
    BY <1>0, <1>2, WithoutAutoProperties DEF DebounceDropped
  <2> QED BY <1>1, <2>1 DEF Runs!WithdrawAuto, Holder, RemoveAt, Runs!RemoveAt
<1>3. CASE ~(deb = "queued" /\ Autos(queue) # {})
  <2>1. UNCHANGED queue
    BY <1>3 DEF DebounceDropped, WithoutAuto
  <2> QED BY <1>1, <2>1
<1> QED
  BY <1>2, <1>3

LEMMA StepRefines ==
  ASSUME TypeOK, OneAutoRun, [Next]_vars
  PROVE  [Runs!Next]_(Runs!rqvars)
<1> DEFINE Stutter == UNCHANGED <<queue, Holder>>
<1> SUFFICES Runs!Next \/ Stutter
  BY DEF Runs!rqvars, Holder
<1>0. run \in Run /\ queue \in Seq(Request)
  BY DEF TypeOK
<1>1. ASSUME UNCHANGED queue, run'.ph # "off" <=> run.ph # "off", run'.auto = run.auto
      PROVE  Stutter
  BY <1>1 DEF Holder, InRun
<1>2. Touched(run).ph = run.ph /\ Touched(run).auto = run.auto
  BY <1>0 DEF Touched, Run
<1>3. Touched(RunKilled(run)).ph = run.ph /\ Touched(RunKilled(run)).auto = run.auto
  BY <1>0 DEF Touched, RunKilled, Run
<1>4. ASSUME NEW d, Update(d) PROVE Runs!Next \/ Stutter
  <2>1. CASE auto /\ AnyDirty([n \in Node |-> Recompiled(d, n)])
    BY <1>3, <1>4, <2>1, DropWithdraws DEF Update, Runs!Next
  <2>2. CASE ~(auto /\ AnyDirty([n \in Node |-> Recompiled(d, n)]))
    BY <1>1, <1>2, <1>4, <2>2 DEF Update
  <2> QED BY <2>1, <2>2
<1>5. CASE UserStep
  <2>1. CASE SaveUnchanged
    BY <1>4, <2>1 DEF SaveUnchanged
  <2>2. CASE CancelRun
    BY <1>0, <1>1, <2>2 DEF CancelRun, Run
  <2>3. CASE Evict
    BY <1>1, <1>2, <2>3 DEF Evict
  <2>4. ASSUME NEW on \in BOOLEAN, SetAutoRun(on) PROVE Runs!Next \/ Stutter
    <3>1. CASE on => AnyDirty(rec)
      BY <1>3, <2>4, <3>1, DropWithdraws DEF SetAutoRun, Runs!Next
    <3>2. CASE ~(on => AnyDirty(rec))
      BY <1>1, <2>4, <3>2 DEF SetAutoRun
    <3> QED BY <3>1, <3>2
  <2>5. ASSUME NEW t \in TargetSets, RequestRun(t) PROVE Runs!Next
    <3>1. Holder' = Holder
      BY <2>5 DEF RequestRun, Holder, InRun
    <3>2. Runs!AskExplicit(t)
      BY <2>5, <3>1 DEF RequestRun, Runs!AskExplicit, Holder
    <3> QED BY <3>2 DEF Runs!Next
  <2>6. ASSUME NEW n \in Node, EditParam(n) \/ RemoveOrRestore(n) \/ BreakOrRepair(n)
        PROVE  Runs!Next \/ Stutter
    BY <1>4, <2>6 DEF EditParam, RemoveOrRestore, BreakOrRepair
  <2>7. ASSUME NEW n \in Node, CancelNode(n) \/ SharedStore(n) PROVE Stutter
    BY <1>1, <1>2, <2>7 DEF CancelNode, SharedStore
  <2> QED
    BY <1>5, <2>1, <2>2, <2>3, <2>4, <2>5, <2>6, <2>7 DEF UserStep
<1>6. CASE DebounceFires
  <2>1. CASE auto
    <3>1. \A i \in DOMAIN queue : ~queue[i].auto
      BY <1>6, <2>1 DEF DebounceFires, OneAutoRun
    <3>2. Holder' = Holder
      BY <1>6 DEF DebounceFires, Holder, InRun
    <3>3. Runs!AskAuto
      BY <1>6, <2>1, <3>1, <3>2 DEF DebounceFires, Runs!AskAuto, Holder
    <3> QED BY <3>3 DEF Runs!Next
  <2>2. CASE ~auto
    BY <1>1, <1>6, <2>2 DEF DebounceFires
  <2> QED BY <2>1, <2>2
<1>7. CASE LimitReached
  BY <1>0, <1>1, <1>7 DEF LimitReached, Run
<1>8. CASE BeginRun
  <2>1. PICK plan : run' = [NoRun EXCEPT !.ph = "start", !.auto = Head(queue).auto,
                                         !.plan = plan, !.pending = plan]
    BY <1>8 DEF BeginRun
  <2>2. run'.ph = "start" /\ run'.auto = Head(queue).auto
    BY <2>1 DEF NoRun
  <2>3. Holder = "none" /\ Holder' = IF Head(queue).auto THEN "auto" ELSE "explicit"
    BY <1>8, <2>2 DEF BeginRun, Holder, InRun
  <2>4. Runs!Begin
    BY <1>8, <2>3 DEF BeginRun, Runs!Begin, Holder
  <2> QED BY <2>4 DEF Runs!Next
<1>9. ASSUME InRun, RunOver PROVE Runs!Next
  <2>1. Holder # "none" /\ Holder' = "none" /\ UNCHANGED queue
    BY <1>9 DEF RunOver, NoRun, Holder, InRun
  <2>2. Runs!End
    BY <2>1 DEF Runs!End, Holder
  <2> QED BY <2>2 DEF Runs!Next
<1>10. CASE FinishRun \/ KillRun \/ Drained
  BY <1>9, <1>10 DEF FinishRun, KillRun, Drained, InRun
<1>11. CASE Pass
  <2>1. UNCHANGED queue
    BY <1>11 DEF Pass, BeginPass, EndPass, DropNode, SkipNode, DeferNode, TakeCached,
                 GateNode, LaunchNode, PassUnchanged
  <2>2. ASSUME NEW n \in Node
        PROVE  /\ Settled(run, n).ph = run.ph /\ Settled(run, n).auto = run.auto
               /\ Settled(run, n) \in Run
    BY <1>0 DEF Settled, Run
  <2>3. run'.ph # "off" /\ run.ph # "off" /\ run'.auto = run.auto
    <3>1. CASE BeginPass
      BY <1>0, <3>1 DEF BeginPass, Run
    <3>2. CASE EndPass
      BY <1>0, <3>2 DEF EndPass, Run
    <3>3. ASSUME NEW n \in Node,
                 DropNode(n) \/ SkipNode(n) \/ DeferNode(n) \/ TakeCached(n)
                 \/ GateNode(n) \/ LaunchNode(n)
          PROVE  run'.ph # "off" /\ run.ph # "off" /\ run'.auto = run.auto
      BY <1>0, <2>2, <3>3 DEF DropNode, SkipNode, DeferNode, TakeCached, GateNode,
                              LaunchNode, Ready, Scanning, Run
    <3> QED BY <1>11, <3>1, <3>2, <3>3 DEF Pass
  <2> QED BY <1>1, <2>1, <2>3
<1>12. ASSUME NEW n \in Node, TaskStep(n) PROVE Stutter
  <2>1. UNCHANGED <<queue, run>>
    BY <1>12 DEF TaskStep, TaskNeverStarts, TaskStarts, TaskSucceeds, TaskFails,
                 TaskCancelled, NodeUnchanged
  <2> QED BY <1>1, <2>1
<1>13. CASE UNCHANGED vars
  BY <1>1, <1>13 DEF vars
<1> QED
  BY <1>5, <1>6, <1>7, <1>8, <1>10, <1>11, <1>12, <1>13 DEF Next, RunStep

\* The run lock, the debounce and the cancellations implement the queue of runs:
\* requests begin in order, one at a time, and only an auto-run is ever withdrawn.
THEOREM ImplementsRunQueueAlways == Spec => ImplementsRunQueue
<1>1. Init => Runs!Init
  BY DEF Init, Runs!Init, InRun, NoRun
<1>2. Init => TypeOK /\ OneAutoRun
  BY TypeInit, OneAutoRunInit
<1>3. TypeOK /\ OneAutoRun /\ [Next]_vars => (TypeOK /\ OneAutoRun)'
  BY TypeInductive, OneAutoRunInductive
<1>4. TypeOK /\ OneAutoRun /\ [Next]_vars => [Runs!Next]_(Runs!rqvars)
  BY StepRefines
<1> QED
  BY <1>1, <1>2, <1>3, <1>4, PTL DEF Spec, ImplementsRunQueue, Runs!Spec

-----------------------------------------------------------------------------
(* The cost gate *)

\* n is expensive, or depends on a node that is.
Behind(n) == ({n} \cup Ancestors(doc, n)) \cap Expensive # {}

LEMMA AncestorsClosed ==
  ASSUME NEW d, NEW n
  PROVE  /\ Ancestors(d, n) \subseteq d.in
         /\ SourcesIn(d, n) \subseteq Ancestors(d, n)
         /\ \A m \in Ancestors(d, n) : SourcesIn(d, m) \subseteq Ancestors(d, n)
BY DEF Ancestors, SourcesIn

LEMMA AncestorsLeast ==
  ASSUME NEW d, NEW n, NEW S \in SUBSET d.in, SourcesIn(d, n) \subseteq S,
         \A s \in S : SourcesIn(d, s) \subseteq S
  PROVE  Ancestors(d, n) \subseteq S
BY DEF Ancestors

LEMMA AncestorsTransitive ==
  ASSUME NEW d, NEW n, NEW m \in Ancestors(d, n)
  PROVE  Ancestors(d, m) \subseteq Ancestors(d, n)
BY AncestorsClosed, AncestorsLeast

\* What is behind an expensive node and not expensive has an input that is.
LEMMA BehindHasSource ==
  ASSUME NEW n, Behind(n), n \notin Expensive
  PROVE  \E s \in SourcesIn(doc, n) : Behind(s)
<1> DEFINE S == {m \in doc.in : ~Behind(m)}
<1>1. SUFFICES ASSUME SourcesIn(doc, n) \subseteq S PROVE FALSE
  BY DEF SourcesIn
<1>2. ASSUME NEW m \in S, NEW s \in SourcesIn(doc, m) PROVE s \in S
  <2>1. s \in Ancestors(doc, m) /\ Ancestors(doc, s) \subseteq Ancestors(doc, m) /\ s \in doc.in
    BY <1>2, AncestorsClosed, AncestorsTransitive
  <2> QED
    BY <1>2, <2>1 DEF Behind
<1>3. Ancestors(doc, n) \subseteq S
  <2>1. S \in SUBSET doc.in /\ \A m \in S : SourcesIn(doc, m) \subseteq S
    BY <1>2
  <2> HIDE DEF S
  <2> QED
    BY <1>1, <2>1, AncestorsLeast
<1>4. \A m \in S : m \notin Expensive
  BY DEF Behind
<1> QED
  BY <1>3, <1>4 DEF Behind

\* What a node depends on depends on the nodes there are.
LEMMA SameAncestors ==
  ASSUME NEW d, NEW e, d.in = e.in, NEW n
  PROVE  Ancestors(d, n) = Ancestors(e, n)
BY DEF Ancestors, SourcesIn

\* Where no node is removed, a record has the key of its node as soon as it compiles, and
\* a task that runs still has its record.
KeysCurrent ==
  \A n \in Node :
    /\ n \in Live(doc) => rec[n].key = KeyOf(doc, n)
    /\ DOMAIN rec[n].key \subseteq {n} \cup Ancestors(doc, n)
Owned == \A n \in Node : task[n].ph = "running" => task[n].own
NoneRemoved == doc.in = Node /\ KeysCurrent /\ Owned

LEMMA UpdateKeepsNodes ==
  ASSUME TypeOK, NoneRemoved, NEW d \in Document, d.in = Node, Update(d)
  PROVE  NoneRemoved'
<1>1. doc' = d /\ doc.in = Node
  BY DEF Update, NoneRemoved
<1>2. KeysCurrent'
  <2> SUFFICES ASSUME NEW n \in Node
               PROVE  /\ n \in Live(d) => rec'[n].key = KeyOf(d, n)
                      /\ DOMAIN rec'[n].key \subseteq {n} \cup Ancestors(d, n)
    BY <1>1 DEF KeysCurrent
  <2>1. rec'[n] = Recompiled(d, n)
    BY DEF Update
  <2>2. /\ \A k : DirtyRecord(k).key = k
        /\ DOMAIN IdleRecord.key = {} /\ DOMAIN NoRecord.key = {}
    BY DEF DirtyRecord, IdleRecord, NoRecord, NoKey
  <2>3. DOMAIN KeyOf(d, n) = {n} \cup Ancestors(d, n)
    BY DEF KeyOf
  <2>4. DOMAIN rec[n].key \subseteq {n} \cup Ancestors(d, n)
    BY <1>1, SameAncestors DEF NoneRemoved, KeysCurrent
  <2>5. n \in Live(d) => rec'[n].key = KeyOf(d, n)
    BY <2>1, <2>2 DEF Recompiled
  <2> QED
    BY <2>1, <2>2, <2>3, <2>4, <2>5 DEF Recompiled
<1>3. Owned'
  <2> SUFFICES ASSUME NEW n \in Node, task'[n].ph = "running" PROVE task'[n].own
    BY DEF Owned
  <2>1. task'[n] \in {task[n], [task[n] EXCEPT !.cancel = TRUE]} /\ task[n] \in Task
    BY DEF Update, Superseded, TypeOK
  <2> QED
    BY <2>1 DEF NoneRemoved, Owned, Task
<1> QED
  BY <1>1, <1>2, <1>3 DEF NoneRemoved

LEMMA NoneRemovedStep ==
  ASSUME TypeOK, NoneRemoved, "remove" \notin Ops, [Next]_vars
  PROVE  NoneRemoved'
<1>0. /\ rec \in [Node -> Record] /\ task \in [Node -> Task] /\ doc \in Document /\ doc.in = Node
  BY DEF TypeOK, NoneRemoved
\* Keys change only with the document, and only a first step makes a task run.
<1>1. ASSUME UNCHANGED doc, \A n \in Node : rec'[n].key = rec[n].key,
             \A n \in Node : task'[n].ph = "running" => task'[n].own
      PROVE  NoneRemoved'
  BY <1>1 DEF NoneRemoved, KeysCurrent, Owned
<1>2. ASSUME UNCHANGED <<doc, rec>>, \A n \in Node : task'[n].ph = "running" => task'[n].own
      PROVE  NoneRemoved'
  BY <1>1, <1>2
<1>3. UNCHANGED task => \A n \in Node : task'[n].ph = "running" => task'[n].own
  BY DEF NoneRemoved, Owned
<1>4. ASSUME NEW S, task' = CancelTasks(S) PROVE \A n \in Node : task'[n].ph = "running" => task'[n].own
  <2> TAKE n \in Node
  <2>1. task'[n] \in {task[n], [task[n] EXCEPT !.cancel = TRUE]} /\ task[n] \in Task
    BY <1>0, <1>4 DEF CancelTasks
  <2> QED
    BY <2>1 DEF NoneRemoved, Owned, Task
<1>5. CASE UserStep
  <2>1. CASE SaveUnchanged
    BY <1>0, <2>1, UpdateKeepsNodes DEF SaveUnchanged
  <2>2. CASE CancelRun
    BY <1>2, <1>4, <2>2 DEF CancelRun
  <2>3. CASE Evict \/ \E n \in Node : SharedStore(n)
    BY <1>2, <1>3, <2>3 DEF Evict, SharedStore
  <2>4. CASE (\E on \in BOOLEAN : SetAutoRun(on)) \/ \E t \in TargetSets : RequestRun(t)
    BY <1>2, <1>3, <2>4 DEF SetAutoRun, RequestRun
  <2>5. ASSUME NEW n \in Node, EditParam(n) PROVE NoneRemoved'
    <3>1. PICK v \in Ver : Update([doc EXCEPT !.ver[n] = v])
      BY <2>5 DEF EditParam
    <3>2. [doc EXCEPT !.ver[n] = v] \in Document /\ [doc EXCEPT !.ver[n] = v].in = Node
      BY <1>0 DEF Document
    <3> QED
      BY <3>1, <3>2, UpdateKeepsNodes
  <2>6. ASSUME NEW n \in Node, BreakOrRepair(n) PROVE NoneRemoved'
    <3> DEFINE d == [doc EXCEPT !.bad = IF n \in @ THEN @ \ {n} ELSE @ \cup {n}]
    <3>1. d \in Document /\ d.in = Node
      BY <1>0 DEF Document
    <3> QED
      BY <2>6, <3>1, UpdateKeepsNodes DEF BreakOrRepair
  <2>7. ASSUME NEW n \in Node, RemoveOrRestore(n) PROVE FALSE
    BY <2>7 DEF RemoveOrRestore, Outside
  <2>8. ASSUME NEW n \in Node, CancelNode(n) PROVE NoneRemoved'
    BY <1>2, <1>4, <2>8 DEF CancelNode
  <2> QED
    BY <1>5, <2>1, <2>2, <2>3, <2>4, <2>5, <2>6, <2>7, <2>8 DEF UserStep
<1>6. CASE DebounceFires
  BY <1>2, <1>3, <1>6 DEF DebounceFires
<1>7. CASE LimitReached
  <2>1. \A n \in Node : task'[n].ph = "running" => task'[n].own
    <3> TAKE n \in Node
    <3>1. task'[n] = [task[n] EXCEPT !.cancel = Alive(n)] /\ task[n] \in Task
      BY <1>0, <1>7 DEF LimitReached
    <3> QED
      BY <3>1 DEF NoneRemoved, Owned, Task
  <2> QED
    BY <1>2, <1>7, <2>1 DEF LimitReached
<1>8. CASE BeginRun \/ RunOver \/ EndPass
  BY <1>2, <1>3, <1>8 DEF BeginRun, RunOver, EndPass, PassUnchanged
<1>9. CASE BeginPass
  <2>1. \A n \in Node : rec'[n].key = rec[n].key
    <3> TAKE n \in Node
    <3>1. rec'[n] \in {rec[n], [rec[n] EXCEPT !.state = "dirty"]} /\ rec[n] \in Record
      BY <1>0, <1>9 DEF BeginPass
    <3> QED
      BY <3>1 DEF Record
  <2> QED
    BY <1>1, <1>3, <1>9, <2>1 DEF BeginPass
<1>10. ASSUME NEW n \in Node, DropNode(n) \/ SkipNode(n) \/ DeferNode(n) \/ TakeCached(n) \/ GateNode(n)
       PROVE  NoneRemoved'
  <2>1. \A m \in Node : rec'[m].key = rec[m].key
    BY <1>0, <1>10 DEF DropNode, SkipNode, DeferNode, TakeCached, GateNode, Record
  <2> QED
    BY <1>1, <1>3, <1>10, <2>1 DEF DropNode, SkipNode, DeferNode, TakeCached, GateNode, PassUnchanged
<1>11. ASSUME NEW n \in Node, LaunchNode(n) PROVE NoneRemoved'
  <2>1. NewTask(n).ph = "created"
    BY DEF NewTask, NoTask
  <2>2. \A m \in Node : task'[m].ph = "running" => task'[m].own
    BY <1>0, <1>11, <2>1 DEF LaunchNode, NoneRemoved, Owned
  <2> QED
    BY <1>2, <1>11, <2>2 DEF LaunchNode, PassUnchanged
<1>12. ASSUME NEW n \in Node, TaskStep(n) PROVE NoneRemoved'
  <2>0. NoTask.ph = "none"
    BY DEF NoTask
  <2>1. CASE TaskStarts(n)
    <3>1. \A m \in Node : rec'[m].key = rec[m].key
      BY <1>0, <2>1 DEF TaskStarts, Record
    <3>2. \A m \in Node : task'[m].ph = "running" => task'[m].own
      BY <1>0, <2>0, <2>1 DEF TaskStarts, NoneRemoved, Owned, Task
    <3> QED
      BY <1>1, <2>1, <3>1, <3>2 DEF TaskStarts, NodeUnchanged
  <2>2. CASE ~TaskStarts(n)
    <3>1. task' = [task EXCEPT ![n] = NoTask] /\ UNCHANGED doc
          /\ (rec' = rec \/ \E st : rec' = Mark(n, st))
      BY <1>12, <2>2 DEF TaskStep, TaskNeverStarts, TaskSucceeds, TaskFails, TaskCancelled, NodeUnchanged
    <3>2. \A m \in Node : task'[m].ph = "running" => task'[m].own
      BY <1>0, <2>0, <3>1 DEF NoneRemoved, Owned
    <3>3. \A m \in Node : rec'[m].key = rec[m].key
      BY <1>0, <3>1 DEF Mark, Record
    <3> QED
      BY <1>1, <3>1, <3>2, <3>3
  <2> QED
    BY <2>1, <2>2
<1>13. CASE UNCHANGED vars
  BY <1>2, <1>3, <1>13 DEF vars
<1> QED
  BY <1>5, <1>6, <1>7, <1>8, <1>9, <1>10, <1>11, <1>12, <1>13
  DEF Next, RunStep, Pass, FinishRun, KillRun, Drained

\* As long as nobody asked for a run: only auto-runs wait and run, what is behind an
\* expensive node has neither run nor started and is in no cache, and of what a run has
\* still to do each such node is expensive itself or waits for another.
Quiet(n) == ~Alive(n) /\ rec[n].state \in {"none", "idle", "dirty"}
OnlyAuto == (\A i \in DOMAIN queue : queue[i].auto) /\ (InRun => run.auto)
BehindQuiet == \A n \in Node : Behind(n) => Quiet(n)
CheapCache == \A k \in DOMAIN cache : DOMAIN k \cap Expensive = {}
WaitsFor(n, plan) == \E s \in SourcesIn(doc, n) \cap plan : Behind(s)
PlanWaits ==
  \A n \in run.pending \cup run.todo : Behind(n) => n \in Expensive \/ WaitsFor(n, run.plan)
GateInv == asked = 0 => OnlyAuto /\ BehindQuiet /\ CheapCache /\ PlanWaits

LEMMA DroppedStaysAuto ==
  ASSUME NEW q \in Seq(Request), \A i \in DOMAIN q : q[i].auto
  PROVE  \A i \in DOMAIN DebounceDropped(q) : DebounceDropped(q)[i].auto
<1>0. DOMAIN q = 1..Len(q) /\ Len(q) \in Nat
  BY LenProperties
<1>1. CASE DebounceDropped(q) = q
  BY <1>1
<1>2. CASE deb = "queued" /\ Autos(q) # {}
  <2>1. PICK i \in 1..Len(q) : WithoutAuto(q) = RemoveAt(q, i)
    BY <1>2, WithoutAutoProperties
  <2> DEFINE r == RemoveAt(q, i)
  <2>2. /\ r \in Seq(Request) /\ Len(r) = Len(q) - 1
        /\ \A j \in 1..(Len(q) - 1) : r[j] = IF j < i THEN q[j] ELSE q[j + 1]
    BY <1>0, RemoveAtProperties
  <2>3. DOMAIN r = 1..(Len(q) - 1)
    BY <2>2, LenProperties
  <2>4. DebounceDropped(q) = r
    BY <1>2, <2>1 DEF DebounceDropped
  <2> HIDE DEF r
  <2>5. ASSUME NEW j \in 1..(Len(q) - 1) PROVE r[j].auto
    <3>1. j \in DOMAIN q /\ j + 1 \in DOMAIN q
      BY <1>0
    <3> QED
      BY <2>2, <3>1
  <2> QED
    BY <2>3, <2>4, <2>5
<1> QED
  BY <1>1, <1>2 DEF DebounceDropped, WithoutAuto

\* Most steps touch neither the plan nor the inputs of a node.
LEMMA GateKept ==
  ASSUME TypeOK, NoneRemoved, GateInv, doc'.in = doc.in,
         asked' = 0 => asked = 0,
         asked' = 0 /\ OnlyAuto => OnlyAuto',
         \A n \in Node : asked' = 0 /\ Behind(n) /\ Quiet(n) => Quiet(n)',
         DOMAIN cache' \subseteq DOMAIN cache,
         run'.pending \cup run'.todo \subseteq run.pending \cup run.todo,
         run'.plan = run.plan \/ run'.pending \cup run'.todo = {}
  PROVE  GateInv'
<1> SUFFICES ASSUME asked' = 0
             PROVE  OnlyAuto' /\ BehindQuiet' /\ CheapCache' /\ PlanWaits'
  BY DEF GateInv
<1>1. OnlyAuto /\ BehindQuiet /\ CheapCache /\ PlanWaits
  BY DEF GateInv
<1>2. \A n : Behind(n)' <=> Behind(n)
  BY SameAncestors DEF Behind
<1>3. \A n : SourcesIn(doc, n)' = SourcesIn(doc, n)
  BY DEF SourcesIn
<1>4. OnlyAuto' /\ BehindQuiet'
  BY <1>1, <1>2 DEF BehindQuiet
<1>5. CheapCache'
  BY <1>1 DEF CheapCache
<1>6. PlanWaits'
  BY <1>1, <1>2, <1>3 DEF PlanWaits, WaitsFor
<1> QED
  BY <1>4, <1>5, <1>6

LEMMA UpdateKeepsGate ==
  ASSUME TypeOK, NoneRemoved, GateInv, NEW d \in Document, d.in = Node, Update(d)
  PROVE  GateInv'
<1>0. run \in Run /\ queue \in Seq(Request)
  BY DEF TypeOK
<1>1. doc'.in = doc.in /\ UNCHANGED <<cache, asked>>
  BY DEF Update, NoneRemoved
<1>2. /\ run'.ph = run.ph /\ run'.auto = run.auto /\ run'.plan = run.plan
      /\ run'.pending = run.pending /\ run'.todo = run.todo
  BY <1>0 DEF Update, Touched, RunKilled, Run
<1>3. OnlyAuto => OnlyAuto'
  BY <1>0, <1>2, DroppedStaysAuto DEF OnlyAuto, InRun, Update
<1>4. ASSUME NEW n \in Node, Quiet(n) PROVE Quiet(n)'
  <2>1. task'[n].ph = task[n].ph
    BY DEF Update, Superseded, TypeOK, Task
  <2>2. rec'[n] = Recompiled(d, n)
    BY DEF Update
  <2>3. rec'[n].state \in {"none", "idle", "dirty"}
    BY <1>4, <2>2 DEF Quiet, Recompiled, DirtyRecord, IdleRecord, NoRecord
  <2> QED
    BY <1>4, <2>1, <2>3 DEF Quiet, Alive
<1> QED
  BY <1>1, <1>2, <1>3, <1>4, GateKept

\* A run plans, with a node behind an expensive one, the input it has to wait for.
LEMMA BeginRunKeepsGate ==
  ASSUME TypeOK, NoneRemoved, GateInv, BeginRun
  PROVE  GateInv'
<1>0. run \in Run /\ queue \in Seq(Request) /\ doc.in = Node
  BY DEF TypeOK, NoneRemoved
<1>1. UNCHANGED <<doc, rec, task, cache, asked>> /\ queue # <<>> /\ queue' = Tail(queue)
  BY DEF BeginRun
<1>2. PICK onDisk :
        run' = [NoRun EXCEPT !.ph = "start", !.auto = Head(queue).auto,
                             !.plan = Plan(Head(queue).targets, onDisk),
                             !.pending = Plan(Head(queue).targets, onDisk)]
  BY DEF BeginRun
<1> DEFINE plan == Plan(Head(queue).targets, onDisk)
<1>3. run'.auto = Head(queue).auto /\ run'.plan = plan /\ run'.pending = plan /\ run'.todo = {}
  BY <1>2 DEF NoRun
<1> SUFFICES ASSUME asked = 0 PROVE OnlyAuto' /\ BehindQuiet' /\ CheapCache' /\ PlanWaits'
  BY <1>1 DEF GateInv
<1>4. OnlyAuto /\ BehindQuiet /\ CheapCache
  BY DEF GateInv
<1>5. OnlyAuto'
  <2>1. Head(queue) = queue[1] /\ 1 \in DOMAIN queue
    BY <1>0, <1>1
  <2>2. \A i \in DOMAIN queue' : i + 1 \in DOMAIN queue /\ queue'[i] = queue[i + 1]
    BY <1>0, <1>1
  <2> QED
    BY <1>3, <1>4, <2>1, <2>2 DEF OnlyAuto
<1>6. BehindQuiet' /\ CheapCache'
  BY <1>1, <1>4 DEF BehindQuiet, CheapCache, Behind, Quiet, Alive
<1>7. ASSUME NEW n \in plan, Behind(n), n \notin Expensive PROVE WaitsFor(n, plan)
  <2>1. PICK s \in SourcesIn(doc, n) : Behind(s)
    BY <1>7, BehindHasSource
  <2>2. s \in Node /\ rec[s].state # "done"
    BY <1>0, <1>4, <2>1 DEF SourcesIn, BehindQuiet, Quiet
  <2> DEFINE roots == IF Head(queue).targets = {} THEN Leaves(doc) ELSE Head(queue).targets \cap Live(doc)
  <2>3. n \in roots \/ \E r \in roots : n \in Ancestors(doc, r)
    BY DEF Plan
  <2>4. \E r \in roots : s \in Ancestors(doc, r)
    BY <2>1, <2>3, AncestorsClosed
  <2>5. s \in plan
    BY <2>2, <2>4 DEF Plan
  <2> QED
    BY <2>1, <2>5 DEF WaitsFor
<1>8. PlanWaits'
  <2>1. \A n : (Behind(n)' <=> Behind(n)) /\ (WaitsFor(n, plan) <=> \E s \in SourcesIn(doc', n) \cap plan : Behind(s)')
    BY <1>1 DEF Behind, WaitsFor
  <2> HIDE DEF plan
  <2> QED
    BY <1>1, <1>3, <1>7, <2>1 DEF PlanWaits, WaitsFor
<1> QED
  BY <1>5, <1>6, <1>8

\* A node behind an expensive one that is not expensive is never ready, and the cache has
\* nothing for an expensive one.
LEMMA NotReadyBehind ==
  ASSUME TypeOK, NoneRemoved, GateInv, asked = 0, NEW n \in Node, Ready(n), Behind(n)
  PROVE  Gated(n) /\ rec[n].key \notin DOMAIN cache
<1>1. OnlyAuto /\ BehindQuiet /\ CheapCache /\ PlanWaits /\ doc.in = Node
  BY DEF GateInv, NoneRemoved
<1>2. n \in Expensive
  <2> SUFFICES ASSUME n \notin Expensive PROVE FALSE
    OBVIOUS
  <2>1. n \in run.todo
    BY DEF Ready, Scanning
  <2>2. PICK s \in SourcesIn(doc, n) \cap run.plan : Behind(s)
    BY <1>1, <2>1 DEF PlanWaits, WaitsFor
  <2>3. rec[s].state # "done"
    BY <1>1, <2>2 DEF SourcesIn, BehindQuiet, Quiet
  <2> QED
    BY <2>2, <2>3 DEF Ready, DepPending, Deps
<1>3. run.auto
  BY <1>1 DEF OnlyAuto, InRun, Ready, Scanning
<1>4. rec[n].key = KeyOf(doc, n)
  BY DEF Ready, NoneRemoved, KeysCurrent
<1>5. n \in DOMAIN rec[n].key
  BY <1>4 DEF KeyOf
<1> QED
  BY <1>1, <1>2, <1>3, <1>5 DEF Gated, CheapCache

LEMMA PassKeepsGate ==
  ASSUME TypeOK, NoneRemoved, GateInv, Pass
  PROVE  GateInv'
<1>0. run \in Run /\ rec \in [Node -> Record] /\ task \in [Node -> Task]
  BY DEF TypeOK
<1>u. UNCHANGED <<doc, cache, queue, asked>>
  BY DEF Pass, BeginPass, EndPass, DropNode, SkipNode, DeferNode, TakeCached, GateNode, LaunchNode, PassUnchanged
<1>1. CASE BeginPass
  <2>1. /\ run'.auto = run.auto /\ run'.plan = run.plan /\ InRun
        /\ run'.pending \cup run'.todo \subseteq run.pending \cup run.todo
    BY <1>0, <1>1 DEF BeginPass, Run, InRun
  <2>2. OnlyAuto => OnlyAuto'
    BY <1>u, <2>1 DEF OnlyAuto
  <2>3. ASSUME NEW n \in Node, Quiet(n) PROVE Quiet(n)'
    <3>1. rec'[n] \in {rec[n], [rec[n] EXCEPT !.state = "dirty"]} /\ UNCHANGED task
      BY <1>0, <1>1 DEF BeginPass
    <3> QED
      BY <1>0, <2>3, <3>1 DEF Quiet, Alive, Record
  <2> QED
    BY <1>u, <2>1, <2>2, <2>3, GateKept
<1>2. CASE EndPass
  <2>1. /\ run'.auto = run.auto /\ run'.plan = run.plan /\ InRun
        /\ run'.pending = run.pending /\ run'.todo = run.todo /\ UNCHANGED <<rec, task>>
    BY <1>0, <1>2 DEF EndPass, Run, InRun
  <2>2. OnlyAuto => OnlyAuto'
    BY <1>u, <2>1 DEF OnlyAuto
  <2>3. \A n \in Node : Quiet(n) => Quiet(n)'
    BY <2>1 DEF Quiet, Alive
  <2> QED
    BY <1>u, <2>1, <2>2, <2>3, GateKept
<1>3. ASSUME NEW n \in Node,
             \/ DropNode(n) \/ SkipNode(n) \/ DeferNode(n)
             \/ TakeCached(n) \/ GateNode(n) \/ LaunchNode(n)
      PROVE  GateInv'
  <2>0. /\ Settled(run, n) \in Run
        /\ Settled(run, n).auto = run.auto /\ Settled(run, n).plan = run.plan
        /\ Settled(run, n).ph = run.ph
        /\ Settled(run, n).pending \cup Settled(run, n).todo \subseteq run.pending \cup run.todo
    BY <1>0 DEF Settled, Run
  <2>1. /\ run'.auto = run.auto /\ run'.plan = run.plan /\ InRun
        /\ run'.pending \cup run'.todo \subseteq run.pending \cup run.todo
    <3>1. CASE DropNode(n)
      BY <1>0, <2>0, <3>1 DEF DropNode, Scanning, InRun, Run
    <3>2. CASE SkipNode(n)
      BY <1>0, <2>0, <3>2 DEF SkipNode, Scanning, InRun, Run
    <3>3. CASE DeferNode(n)
      BY <1>0, <2>0, <3>3 DEF DeferNode, Scanning, InRun, Run
    <3>4. CASE TakeCached(n)
      BY <1>0, <2>0, <3>4 DEF TakeCached, Ready, Scanning, InRun, Run
    <3>5. CASE GateNode(n)
      BY <1>0, <2>0, <3>5 DEF GateNode, Ready, Scanning, InRun, Run
    <3>6. CASE LaunchNode(n)
      BY <1>0, <2>0, <3>6 DEF LaunchNode, Ready, Scanning, InRun, Run
    <3> QED
      BY <1>3, <3>1, <3>2, <3>3, <3>4, <3>5, <3>6
  <2>2. OnlyAuto => OnlyAuto'
    BY <1>u, <2>1 DEF OnlyAuto
  <2>3. ASSUME NEW m \in Node, asked' = 0, Behind(m), Quiet(m) PROVE Quiet(m)'
    <3>1. CASE DropNode(n) \/ SkipNode(n) \/ DeferNode(n) \/ GateNode(n)
      <4>1. UNCHANGED task /\ rec'[m].state = rec[m].state
        BY <1>0, <3>1 DEF DropNode, SkipNode, DeferNode, GateNode, Record
      <4> QED
        BY <2>3, <4>1 DEF Quiet, Alive
    <3>2. CASE TakeCached(n) \/ LaunchNode(n)
      <4>1. m # n
        BY <1>u, <2>3, <3>2, NotReadyBehind DEF TakeCached, LaunchNode
      <4>2. task'[m] = task[m] /\ rec'[m] = rec[m]
        BY <1>0, <3>2, <4>1 DEF TakeCached, LaunchNode
      <4> QED
        BY <2>3, <4>2 DEF Quiet, Alive
    <3> QED
      BY <1>3, <3>1, <3>2
  <2> QED
    BY <1>u, <2>1, <2>2, <2>3, GateKept
<1> QED
  BY <1>1, <1>2, <1>3 DEF Pass

LEMMA TaskStepKeepsGate ==
  ASSUME TypeOK, NoneRemoved, GateInv, NEW n \in Node, TaskStep(n)
  PROVE  GateInv'
<1>0. /\ rec \in [Node -> Record] /\ task \in [Node -> Task] /\ run \in Run /\ UNCHANGED <<doc, queue, run, asked>>
  BY DEF TypeOK, TaskStep, TaskNeverStarts, TaskStarts, TaskSucceeds, TaskFails, TaskCancelled, NodeUnchanged
<1> SUFFICES ASSUME asked = 0 PROVE GateInv'
  BY <1>0 DEF GateInv
<1>1. OnlyAuto /\ BehindQuiet /\ CheapCache /\ PlanWaits
  BY DEF GateInv
<1>2. Alive(n) /\ ~Behind(n)
  <2>1. Alive(n)
    BY DEF TaskStep, TaskNeverStarts, TaskStarts, TaskSucceeds, TaskFails, TaskCancelled, Runnable, Alive
  <2> QED
    BY <1>1, <2>1 DEF BehindQuiet, Quiet
<1>3. \A m : Behind(m)' <=> Behind(m)
  BY <1>0 DEF Behind
<1>4. OnlyAuto' /\ PlanWaits'
  BY <1>0, <1>1, <1>3 DEF OnlyAuto, InRun, PlanWaits, WaitsFor
<1>5. BehindQuiet'
  <2> SUFFICES ASSUME NEW m \in Node, Behind(m) PROVE Quiet(m)'
    BY <1>3 DEF BehindQuiet
  <2>1. m # n /\ Quiet(m)
    BY <1>1, <1>2 DEF BehindQuiet
  <2>2. task'[m] = task[m] /\ rec'[m] = rec[m]
    BY <1>0, <2>1 DEF TaskStep, TaskNeverStarts, TaskStarts, TaskSucceeds, TaskFails, TaskCancelled, Mark
  <2> QED
    BY <2>1, <2>2 DEF Quiet, Alive
<1>6. CheapCache'
  <2>1. CASE UNCHANGED cache
    BY <1>1, <2>1 DEF CheapCache
  <2>2. CASE TaskSucceeds(n)
    <3>1. StoreKey(n) = rec[n].key
      BY <2>2 DEF TaskSucceeds, Runnable, StoreKey, NoneRemoved, Owned
    <3>2. DOMAIN rec[n].key \cap Expensive = {}
      BY <1>2 DEF NoneRemoved, KeysCurrent, Behind
    <3>3. DOMAIN cache' = DOMAIN cache \cup {rec[n].key}
      BY <2>2, <3>1 DEF TaskSucceeds, Store
    <3> QED
      BY <1>1, <3>2, <3>3 DEF CheapCache
  <2> QED
    BY <2>1, <2>2 DEF TaskStep, TaskNeverStarts, TaskStarts, TaskFails, TaskCancelled
<1> QED
  BY <1>4, <1>5, <1>6 DEF GateInv

LEMMA GateInvStep ==
  ASSUME TypeOK, NoneRemoved, GateInv, Ops \cap {"remove", "share"} = {}, [Next]_vars
  PROVE  GateInv'
<1>0. /\ doc \in Document /\ doc.in = Node /\ run \in Run /\ queue \in Seq(Request)
      /\ task \in [Node -> Task]
  BY DEF TypeOK, NoneRemoved
<1>t. /\ Touched(run).auto = run.auto /\ Touched(run).ph = run.ph /\ Touched(run).plan = run.plan
      /\ Touched(run).pending = run.pending /\ Touched(run).todo = run.todo
  BY <1>0 DEF Touched, Run
\* A step that changes no record, and of the tasks only who is cancelled.
<1>1. ASSUME UNCHANGED <<doc, rec, asked>>, DOMAIN cache' \subseteq DOMAIN cache,
             \A n \in Node : task'[n].ph = task[n].ph,
             OnlyAuto => \A i \in DOMAIN queue' : queue'[i].auto,
             run'.ph # "off" => run.ph # "off" /\ run'.auto = run.auto,
             run'.pending \cup run'.todo \subseteq run.pending \cup run.todo,
             run'.plan = run.plan \/ run'.pending \cup run'.todo = {}
      PROVE  GateInv'
  <2>1. OnlyAuto => OnlyAuto'
    BY <1>1 DEF OnlyAuto, InRun
  <2>2. \A n \in Node : Quiet(n) => Quiet(n)'
    BY <1>1 DEF Quiet, Alive
  <2> QED
    BY <1>1, <2>1, <2>2, GateKept
<1>2. ASSUME NEW S PROVE \A n \in Node : CancelTasks(S)[n].ph = task[n].ph
  BY <1>0 DEF CancelTasks, Task
<1>3. CASE SaveUnchanged
  BY <1>0, <1>3, UpdateKeepsGate DEF SaveUnchanged
<1>4. CASE CancelRun
  <2>1. /\ run'.auto = run.auto /\ run'.ph = run.ph /\ run'.plan = run.plan
        /\ run'.pending = run.pending /\ run'.todo = run.todo
    BY <1>0, <1>4 DEF CancelRun, Run
  <2> QED
    BY <1>1, <1>2, <1>4, <2>1 DEF CancelRun, OnlyAuto
<1>5. CASE Evict
  BY <1>1, <1>t, <1>5 DEF Evict, OnlyAuto
<1>6. ASSUME NEW on \in BOOLEAN, SetAutoRun(on) PROVE GateInv'
  <2>1. /\ run'.auto = run.auto /\ run'.ph = run.ph /\ run'.plan = run.plan
        /\ run'.pending = run.pending /\ run'.todo = run.todo
    BY <1>0, <1>6 DEF SetAutoRun, Touched, RunKilled, Run
  <2>2. OnlyAuto => \A i \in DOMAIN queue' : queue'[i].auto
    BY <1>0, <1>6, DroppedStaysAuto DEF SetAutoRun, OnlyAuto
  <2> QED
    BY <1>1, <1>6, <2>1, <2>2 DEF SetAutoRun
<1>7. ASSUME NEW t \in TargetSets, RequestRun(t) PROVE GateInv'
  BY <1>7 DEF RequestRun, TypeOK, GateInv
<1>8. ASSUME NEW n \in Node, EditParam(n) PROVE GateInv'
  <2>1. PICK v \in Ver : Update([doc EXCEPT !.ver[n] = v])
    BY <1>8 DEF EditParam
  <2>2. [doc EXCEPT !.ver[n] = v] \in Document /\ [doc EXCEPT !.ver[n] = v].in = Node
    BY <1>0 DEF Document
  <2> QED
    BY <2>1, <2>2, UpdateKeepsGate
<1>9. ASSUME NEW n \in Node, BreakOrRepair(n) PROVE GateInv'
  <2> DEFINE d == [doc EXCEPT !.bad = IF n \in @ THEN @ \ {n} ELSE @ \cup {n}]
  <2>1. d \in Document /\ d.in = Node
    BY <1>0 DEF Document
  <2> QED
    BY <1>9, <2>1, UpdateKeepsGate DEF BreakOrRepair
<1>10. ASSUME NEW n \in Node PROVE ~RemoveOrRestore(n) /\ ~SharedStore(n)
  BY DEF RemoveOrRestore, SharedStore, Outside
<1>11. ASSUME NEW n \in Node, CancelNode(n) PROVE GateInv'
  BY <1>1, <1>2, <1>t, <1>11 DEF CancelNode, OnlyAuto
<1>12. CASE DebounceFires
  <2>1. [auto |-> TRUE, targets |-> {}] \in Request
    BY DEF Request
  <2>2. OnlyAuto => \A i \in DOMAIN queue' : queue'[i].auto
    BY <1>0, <1>12, <2>1, AppendAutos DEF DebounceFires, OnlyAuto
  <2> QED
    BY <1>1, <1>12, <2>2 DEF DebounceFires
<1>13. CASE LimitReached
  <2>1. /\ run'.auto = run.auto /\ run.ph # "off" /\ run'.plan = run.plan
        /\ run'.pending = run.pending /\ run'.todo = run.todo
    BY <1>0, <1>13 DEF LimitReached, Run
  <2>2. \A n \in Node : task'[n].ph = task[n].ph
    BY <1>0, <1>13 DEF LimitReached, Task
  <2> QED
    BY <1>1, <1>13, <2>1, <2>2 DEF LimitReached, OnlyAuto
<1>14. CASE RunOver
  <2>1. run'.ph = "off" /\ run'.pending = {} /\ run'.todo = {}
    BY <1>14 DEF RunOver, NoRun
  <2> QED
    BY <1>1, <1>14, <2>1 DEF RunOver, OnlyAuto
<1>15. CASE UNCHANGED vars
  BY <1>1, <1>15 DEF vars, OnlyAuto
<1>16. CASE UserStep
  BY <1>3, <1>4, <1>5, <1>6, <1>7, <1>8, <1>9, <1>10, <1>11, <1>16 DEF UserStep
<1>17. CASE RunStep
  BY <1>14, <1>17, BeginRunKeepsGate, PassKeepsGate DEF RunStep, FinishRun, KillRun, Drained
<1> QED
  BY <1>12, <1>13, <1>15, <1>16, <1>17, TaskStepKeepsGate DEF Next

\* The cost gate of _execute_plan: until a run is asked for, no expensive node and nothing
\* downstream of one is executed, whatever is edited, cancelled or evicted meanwhile.  A
\* removed node, or a result another scheduler stored, does open the gate.
THEOREM GatedUntilAskedAlways ==
  ASSUME Ops \cap {"remove", "share"} = {}
  PROVE  Spec => []GatedUntilAsked
<1>1. Init => TypeOK /\ NoneRemoved /\ GateInv
  <2> SUFFICES ASSUME Init PROVE NoneRemoved /\ GateInv
    BY TypeInit
  <2>1. /\ doc.in = Node /\ task = [n \in Node |-> NoTask]
        /\ rec = [n \in Node |-> DirtyRecord(KeyOf(doc, n))]
    BY DEF Init
  <2>2. \A n \in Node : rec[n].state = "dirty" /\ rec[n].key = KeyOf(doc, n) /\ task[n].ph = "none"
    BY <2>1 DEF DirtyRecord, NoTask
  <2>3. NoneRemoved
    BY <2>1, <2>2 DEF NoneRemoved, KeysCurrent, Owned, KeyOf
  <2>4. queue = <<>> /\ run.ph = "off" /\ run.pending = {} /\ run.todo = {} /\ DOMAIN cache = {}
    BY DEF Init, NoRun
  <2> QED
    BY <2>2, <2>3, <2>4 DEF GateInv, OnlyAuto, InRun, BehindQuiet, Quiet, Alive, CheapCache, PlanWaits
<1>2. TypeOK /\ NoneRemoved /\ GateInv /\ [Next]_vars => (TypeOK /\ NoneRemoved /\ GateInv)'
  BY TypeInductive, NoneRemovedStep, GateInvStep
<1>3. GateInv => GatedUntilAsked
  BY DEF GateInv, BehindQuiet, Behind, Quiet, GatedUntilAsked
<1> QED
  BY <1>1, <1>2, <1>3, PTL DEF Spec
-----------------------------------------------------------------------------
(* An undisturbed run completes *)

\* A node that compiles has a record that was compiled.
LiveCompiled == \A n \in Node : n \in Live(doc) => rec[n].state \notin {"none", "idle"}

\* The record a task still owns does not show a failure while the task runs.
OwnersRun == \A n \in Node : task[n].ph = "running" /\ task[n].own => ~Failed(rec[n])

\* A task that is still to take its first step is one the run waits for.
Fresh(n) == task[n].ph = "created" /\ ~task[n].cancel
CreatedActive == \A n \in Node : Fresh(n) => n \in run.active
EndsIdle == run.ph = "end" => \A n \in Node : ~Fresh(n)

RunShape ==
  /\ run.ph = "off" => run.active = {}
  /\ run.abort => run.touched
  /\ run.ph = "drain" => run.abort
  /\ run.active \cup run.pending \cup run.skipped \cup run.gated \subseteq run.plan
  /\ run.todo \subseteq run.pending
  /\ run.active \cap run.pending = {}
  /\ (run.skipped \cup run.gated) \cap (run.active \cup run.pending) = {}

RunBase == LiveCompiled /\ OwnersRun /\ CreatedActive /\ EndsIdle /\ RunShape

\* Every save is an update.
LEMMA SaveIsUpdate ==
  ASSUME SaveUnchanged \/ \E n \in Node : EditParam(n) \/ RemoveOrRestore(n) \/ BreakOrRepair(n)
  PROVE  AtAwait /\ \E d : Update(d)
BY DEF SaveUnchanged, EditParam, RemoveOrRestore, BreakOrRepair, Outside

LEMMA UpdateKeepsRecords ==
  ASSUME TypeOK, LiveCompiled, OwnersRun, NEW d, Update(d)
  PROVE  LiveCompiled' /\ OwnersRun'
<1>1. /\ NoRecord.state = "none" /\ IdleRecord.state = "idle"
      /\ \A k : DirtyRecord(k).state = "dirty"
  BY DEF NoRecord, IdleRecord, DirtyRecord
<1>2. ASSUME NEW n \in Node, n \in Live(d) PROVE rec'[n].state \notin {"none", "idle"}
  <2>1. rec'[n] = Recompiled(d, n)
    BY DEF Update
  <2> QED
    BY <1>1, <1>2, <2>1 DEF Recompiled
<1>3. ASSUME NEW n \in Node, task'[n].ph = "running", task'[n].own, Failed(rec'[n]) PROVE FALSE
  <2>1. rec'[n] = Recompiled(d, n) /\ task'[n] = Superseded(d, n) /\ task[n] \in Task
    BY DEF Update, TypeOK
  <2>2. rec'[n] = rec[n]
    BY <1>1, <1>3, <2>1 DEF Recompiled, Failed
  <2>3. task[n].ph = "running" /\ task[n].own
    BY <1>3, <2>1 DEF Superseded, Task
  <2> QED
    BY <1>3, <2>2, <2>3 DEF OwnersRun
<1>4. doc' = d
  BY DEF Update
<1> QED
  BY <1>2, <1>3, <1>4 DEF LiveCompiled, OwnersRun

LEMMA RecordsStep ==
  ASSUME TypeOK, LiveCompiled, OwnersRun, [Next]_vars
  PROVE  LiveCompiled' /\ OwnersRun'
<1>0. rec \in [Node -> Record] /\ task \in [Node -> Task]
  BY DEF TypeOK
<1>1. ASSUME UNCHANGED doc,
             \A n \in Node : \/ rec'[n].state = rec[n].state
                             \/ rec'[n].state \in {"dirty", "done", "running", "error", "cancelled"},
             \A n \in Node : task'[n].ph = "running" /\ task'[n].own => ~Failed(rec'[n])
      PROVE  LiveCompiled' /\ OwnersRun'
  BY <1>1 DEF LiveCompiled, OwnersRun
<1>2. ASSUME UNCHANGED <<doc, rec>>,
             \A n \in Node : task'[n].ph = task[n].ph /\ task'[n].own = task[n].own
      PROVE  LiveCompiled' /\ OwnersRun'
  BY <1>2 DEF LiveCompiled, OwnersRun, Failed
<1>3. ASSUME NEW S PROVE \A n \in Node : /\ CancelTasks(S)[n].ph = task[n].ph
                                         /\ CancelTasks(S)[n].own = task[n].own
  BY <1>0 DEF CancelTasks, Task
<1>4. CASE SaveUnchanged \/ \E n \in Node : EditParam(n) \/ RemoveOrRestore(n) \/ BreakOrRepair(n)
  BY <1>4, SaveIsUpdate, UpdateKeepsRecords
<1>5. CASE UserStep
  <2>1. CASE CancelRun \/ \E n \in Node : CancelNode(n)
    <3>1. UNCHANGED <<doc, rec>> /\ \E S : task' = CancelTasks(S)
      BY <2>1 DEF CancelRun, CancelNode
    <3> QED
      BY <1>2, <1>3, <3>1
  <2>2. CASE \/ Evict \/ \E on \in BOOLEAN : SetAutoRun(on)
             \/ \E t \in TargetSets : RequestRun(t)
             \/ \E n \in Node : SharedStore(n)
    BY <1>2, <2>2 DEF Evict, SetAutoRun, RequestRun, SharedStore
  <2> QED
    BY <1>4, <1>5, <2>1, <2>2 DEF UserStep
<1>6. CASE LimitReached
  <2>1. \A n \in Node : task'[n].ph = task[n].ph /\ task'[n].own = task[n].own
    BY <1>0, <1>6 DEF LimitReached, Task
  <2> QED
    BY <1>2, <1>6, <2>1 DEF LimitReached
<1>7. CASE DebounceFires \/ BeginRun \/ RunOver \/ EndPass \/ UNCHANGED vars
  BY <1>2, <1>7 DEF DebounceFires, BeginRun, RunOver, EndPass, PassUnchanged, vars
<1>8. CASE BeginPass
  <2>1. \A n \in Node : rec'[n] = rec[n] \/ rec'[n].state = "dirty"
    BY <1>0, <1>8 DEF BeginPass, Record
  <2> QED
    BY <1>1, <1>8, <2>1 DEF BeginPass, OwnersRun, Failed
<1>9. ASSUME NEW n \in Node, DropNode(n) \/ SkipNode(n) \/ DeferNode(n) \/ TakeCached(n) \/ GateNode(n)
      PROVE  LiveCompiled' /\ OwnersRun'
  <2>1. \A m \in Node : rec'[m].state = rec[m].state \/ rec'[m].state = "done"
    BY <1>0, <1>9 DEF DropNode, SkipNode, DeferNode, TakeCached, GateNode, Record
  <2>2. UNCHANGED <<doc, task>>
    BY <1>9 DEF DropNode, SkipNode, DeferNode, TakeCached, GateNode, PassUnchanged
  <2> QED
    BY <1>1, <2>1, <2>2 DEF OwnersRun, Failed
<1>10. ASSUME NEW n \in Node, LaunchNode(n) PROVE LiveCompiled' /\ OwnersRun'
  <2>1. NewTask(n).ph = "created"
    BY DEF NewTask, NoTask
  <2>2. \A m \in Node : task'[m].ph = "running" => task'[m] = task[m]
    BY <1>0, <1>10, <2>1 DEF LaunchNode
  <2> QED
    BY <1>1, <1>10, <2>2 DEF LaunchNode, PassUnchanged, OwnersRun
<1>11. ASSUME NEW n \in Node, TaskStep(n) PROVE LiveCompiled' /\ OwnersRun'
  <2>0. NoTask.ph = "none" /\ UNCHANGED doc
    BY <1>11 DEF NoTask, TaskStep, TaskNeverStarts, TaskStarts, TaskSucceeds, TaskFails, TaskCancelled, NodeUnchanged
  <2>1. \A m \in Node : \/ rec'[m].state = rec[m].state
                        \/ rec'[m].state \in {"dirty", "done", "running", "error", "cancelled"}
    BY <1>0, <1>11 DEF TaskStep, TaskNeverStarts, TaskStarts, TaskSucceeds, TaskFails, TaskCancelled, Mark, Record
  <2>2. ASSUME NEW m \in Node, task'[m].ph = "running", task'[m].own PROVE ~Failed(rec'[m])
    <3>1. CASE m # n
      <4>1. task'[m] = task[m] /\ rec'[m] = rec[m]
        BY <1>0, <1>11, <3>1 DEF TaskStep, TaskNeverStarts, TaskStarts, TaskSucceeds, TaskFails, TaskCancelled, Mark
      <4> QED
        BY <2>2, <4>1 DEF OwnersRun
    <3>2. CASE m = n
      <4>1. TaskStarts(n) /\ ~InputMissing(n)
        BY <1>0, <1>11, <2>0, <2>2, <3>2 DEF TaskStep, TaskNeverStarts, TaskStarts, TaskSucceeds, TaskFails, TaskCancelled
      <4>2. rec'[n].state = "running"
        BY <1>0, <4>1 DEF TaskStarts, Record
      <4> QED
        BY <3>2, <4>2 DEF Failed
    <3> QED
      BY <3>1, <3>2
  <2> QED
    BY <1>1, <2>0, <2>1, <2>2
<1> QED
  BY <1>4, <1>5, <1>6, <1>7, <1>8, <1>9, <1>10, <1>11
  DEF Next, RunStep, Pass, FinishRun, KillRun, Drained

\* The graph is closed under sources, and so is the plan of a run.
LEMMA LiveInNode == TypeOK => Live(doc) \subseteq Node
BY DEF TypeOK, Document, Live

LEMMA PlanIsLive ==
  ASSUME NEW targets, NEW onDisk
  PROVE  Plan(targets, onDisk) \subseteq Live(doc)
<1>1. ASSUME NEW n \in Live(doc), NEW m \in Ancestors(doc, n) PROVE m \in Live(doc)
  <2>1. m \in doc.in /\ Ancestors(doc, m) \subseteq Ancestors(doc, n)
    BY AncestorsClosed, AncestorsTransitive
  <2> QED
    BY <2>1 DEF Live
<1> QED
  BY <1>1 DEF Plan, Leaves

LEMMA RunShapeStep ==
  ASSUME TypeOK, AbortedTasks, CreatedActive, EndsIdle, RunShape, [Next]_vars
  PROVE  CreatedActive' /\ EndsIdle' /\ RunShape'
<1>0. run \in Run /\ task \in [Node -> Task]
  BY DEF TypeOK
\* A step that changes of the run at most its abort, kill and touched.
<1>1. ASSUME /\ run'.ph = run.ph /\ run'.plan = run.plan /\ run'.pending = run.pending
             /\ run'.todo = run.todo /\ run'.skipped = run.skipped /\ run'.gated = run.gated
             /\ run'.active = run.active,
             run.touched => run'.touched,
             run'.abort = run.abort \/ (run'.abort /\ run'.touched),
             \A n \in Node : Fresh(n)' => Fresh(n)
      PROVE  CreatedActive' /\ EndsIdle' /\ RunShape'
  BY <1>1 DEF CreatedActive, EndsIdle, RunShape
<1>2. ASSUME UNCHANGED task PROVE \A n \in Node : Fresh(n)' => Fresh(n)
  BY <1>2 DEF Fresh
<1>3. ASSUME NEW S, task' = CancelTasks(S) PROVE \A n \in Node : Fresh(n)' => Fresh(n)
  <2> TAKE n \in Node
  <2>1. task'[n] \in {task[n], [task[n] EXCEPT !.cancel = TRUE]} /\ task[n] \in Task
    BY <1>0, <1>3 DEF CancelTasks
  <2> QED
    BY <2>1 DEF Fresh, Task
<1>4. ASSUME NEW r, r = run \/ r = RunKilled(run), run' = Touched(r)
      PROVE  /\ run'.ph = run.ph /\ run'.plan = run.plan /\ run'.pending = run.pending
             /\ run'.todo = run.todo /\ run'.skipped = run.skipped /\ run'.gated = run.gated
             /\ run'.active = run.active /\ run'.abort = run.abort
             /\ (run.touched => run'.touched)
  <2>1. /\ r \in Run /\ r.ph = run.ph /\ r.plan = run.plan /\ r.pending = run.pending
        /\ r.todo = run.todo /\ r.skipped = run.skipped /\ r.gated = run.gated
        /\ r.active = run.active /\ r.abort = run.abort /\ r.touched = run.touched
    BY <1>0, <1>4 DEF RunKilled, Run
  <2> QED
    BY <1>4, <2>1 DEF Touched, Run
<1>5. ASSUME NEW d, Update(d) PROVE CreatedActive' /\ EndsIdle' /\ RunShape'
  <2>1. \A n \in Node : Fresh(n)' => Fresh(n)
    <3> TAKE n \in Node
    <3>1. task'[n] = Superseded(d, n) /\ task[n] \in Task
      BY <1>0, <1>5 DEF Update
    <3> QED
      BY <3>1 DEF Superseded, Fresh, Task
  <2>2. \E r : (r = run \/ r = RunKilled(run)) /\ run' = Touched(r)
    BY <1>5 DEF Update
  <2> QED
    BY <1>1, <1>4, <2>1, <2>2
<1>6. CASE CancelRun
  <2>1. /\ run'.ph = run.ph /\ run'.plan = run.plan /\ run'.pending = run.pending
        /\ run'.todo = run.todo /\ run'.skipped = run.skipped /\ run'.gated = run.gated
        /\ run'.active = run.active /\ run'.abort /\ run'.touched
    BY <1>0, <1>6 DEF CancelRun, Run
  <2> QED
    BY <1>1, <1>3, <1>6, <2>1 DEF CancelRun
<1>7. CASE UserStep /\ ~CancelRun
  <2>1. CASE Evict \/ \E n \in Node : SharedStore(n) \/ CancelNode(n)
    BY <1>1, <1>2, <1>3, <1>4, <2>1 DEF Evict, SharedStore, CancelNode
  <2>2. ASSUME NEW on \in BOOLEAN, SetAutoRun(on) PROVE CreatedActive' /\ EndsIdle' /\ RunShape'
    <3>1. UNCHANGED task /\ (run' = run \/ run' = Touched(RunKilled(run)))
      BY <2>2 DEF SetAutoRun
    <3> QED
      BY <1>1, <1>2, <1>4, <3>1
  <2>3. ASSUME NEW t \in TargetSets, RequestRun(t) PROVE CreatedActive' /\ EndsIdle' /\ RunShape'
    BY <1>1, <1>2, <2>3 DEF RequestRun
  <2>4. CASE SaveUnchanged \/ \E n \in Node : EditParam(n) \/ RemoveOrRestore(n) \/ BreakOrRepair(n)
    BY <1>5, <2>4, SaveIsUpdate
  <2> QED
    BY <1>7, <2>1, <2>2, <2>3, <2>4 DEF UserStep
<1>8. CASE DebounceFires \/ UNCHANGED vars
  BY <1>1, <1>2, <1>8 DEF DebounceFires, vars
<1>9. CASE LimitReached
  <2>1. /\ run'.ph = "drain" /\ run'.abort /\ run'.touched /\ run'.plan = run.plan
        /\ run'.pending = run.pending /\ run'.todo = run.todo /\ run'.skipped = run.skipped
        /\ run'.gated = run.gated /\ run'.active = run.active
    BY <1>0, <1>9 DEF LimitReached, Run
  <2>2. \A n \in Node : ~Fresh(n)'
    <3> TAKE n \in Node
    <3>1. task'[n] = [task[n] EXCEPT !.cancel = Alive(n)] /\ task[n] \in Task
      BY <1>0, <1>9 DEF LimitReached
    <3>2. task'[n].ph = "created" => Alive(n)
      BY <3>1 DEF Alive, Task
    <3> QED
      BY <3>1, <3>2 DEF Fresh, Task
  <2> QED
    BY <2>1, <2>2 DEF CreatedActive, EndsIdle, RunShape
<1>10. CASE BeginRun
  <2>1. PICK plan \in SUBSET Node :
               run' = [NoRun EXCEPT !.ph = "start", !.auto = Head(queue).auto,
                                    !.plan = plan, !.pending = plan]
    BY <1>10, PlanIsLive, LiveInNode DEF BeginRun
  <2>2. /\ run'.ph = "start" /\ ~run'.abort /\ run'.plan = plan /\ run'.pending = plan
        /\ run'.todo = {} /\ run'.skipped = {} /\ run'.gated = {} /\ run'.active = {}
    BY <2>1 DEF NoRun
  <2>3. \A n \in Node : ~Fresh(n)'
    BY <1>10 DEF BeginRun, InRun, RunShape, CreatedActive, Fresh
  <2> QED
    BY <2>2, <2>3 DEF CreatedActive, EndsIdle, RunShape
<1>11. CASE FinishRun \/ KillRun \/ Drained
  <2>1. /\ run'.ph = "off" /\ ~run'.abort /\ run'.plan = {} /\ run'.pending = {}
        /\ run'.todo = {} /\ run'.skipped = {} /\ run'.gated = {} /\ run'.active = {}
    BY <1>11 DEF FinishRun, KillRun, Drained, RunOver, NoRun
  <2>2. \A n \in Node : ~Fresh(n)'
    <3>1. \A n \in Node : ~Fresh(n)
      BY <1>11 DEF FinishRun, KillRun, Drained, EndsIdle, Fresh, Alive
    <3> QED
      BY <1>11, <3>1 DEF FinishRun, KillRun, Drained, RunOver, Fresh
  <2> QED
    BY <2>1, <2>2 DEF CreatedActive, EndsIdle, RunShape
<1>12. CASE BeginPass
  <2>1. UNCHANGED task
    BY <1>12 DEF BeginPass
  <2>2. CASE run.abort /\ Forgotten # {}
    <3>1. /\ run'.ph = "end" /\ run'.abort = run.abort /\ run'.touched = run.touched
          /\ run'.plan = run.plan /\ run'.pending = run.pending /\ run'.todo = run.todo
          /\ run'.skipped = run.skipped /\ run'.gated = run.gated /\ run'.active = run.active
      BY <1>0, <1>12, <2>2 DEF BeginPass, Run
    <3>2. \A n \in Node : ~Fresh(n)'
      BY <2>1, <2>2 DEF AbortedTasks, Fresh
    <3> QED
      BY <3>1, <3>2 DEF CreatedActive, EndsIdle, RunShape
  <2>3. CASE ~(run.abort /\ Forgotten # {})
    <3>1. /\ run'.ph = "scan" /\ run'.abort = run.abort /\ run'.touched = run.touched
          /\ run'.plan = run.plan /\ run'.pending \subseteq run.pending /\ run'.todo = run'.pending
          /\ run'.skipped = run.skipped /\ run'.gated = run.gated
          /\ run'.active = {n \in run.active : Alive(n)}
      BY <1>0, <1>12, <2>3 DEF BeginPass, Run
    <3>2. CreatedActive'
      BY <2>1, <3>1 DEF CreatedActive, Fresh, Alive
    <3>3. RunShape'
      BY <3>1 DEF RunShape
    <3> QED
      BY <3>1, <3>2, <3>3 DEF EndsIdle
  <2> QED
    BY <2>2, <2>3
<1>13. CASE EndPass
  <2>1. /\ run'.ph = (IF run.active = {} THEN "end" ELSE "wait")
        /\ run'.abort = run.abort /\ run'.touched = run.touched
        /\ run'.plan = run.plan /\ run'.pending = run.pending /\ run'.todo = run.todo
        /\ run'.skipped = run.skipped /\ run'.gated = run.gated /\ run'.active = run.active
        /\ UNCHANGED task
    BY <1>0, <1>13 DEF EndPass, Run
  <2> QED
    BY <2>1 DEF CreatedActive, EndsIdle, RunShape, Fresh
<1>14. ASSUME NEW n \in Node,
             \/ DropNode(n) \/ SkipNode(n) \/ DeferNode(n)
             \/ TakeCached(n) \/ GateNode(n) \/ LaunchNode(n)
      PROVE  CreatedActive' /\ EndsIdle' /\ RunShape'
  <2>1. n \in run.todo /\ run.ph = "scan"
    BY <1>14 DEF DropNode, SkipNode, DeferNode, TakeCached, GateNode, LaunchNode, Ready, Scanning
  <2>2. /\ run'.ph = run.ph /\ run'.abort = run.abort /\ run'.touched = run.touched
        /\ run'.plan = run.plan /\ run'.todo = run.todo \ {n}
        /\ \/ /\ run'.pending = run.pending
              /\ run'.skipped = run.skipped /\ run'.gated = run.gated /\ run'.active = run.active
           \/ /\ run'.pending = run.pending \ {n}
              /\ \/ run'.skipped = run.skipped /\ run'.gated = run.gated /\ run'.active = run.active
                 \/ run'.skipped = run.skipped \cup {n} /\ run'.gated = run.gated /\ run'.active = run.active
                 \/ run'.skipped = run.skipped /\ run'.gated = run.gated \cup {n} /\ run'.active = run.active
                 \/ run'.skipped = run.skipped /\ run'.gated = run.gated /\ run'.active = run.active \cup {n}
    <3>1. /\ Settled(run, n) \in Run
          /\ Settled(run, n).ph = run.ph /\ Settled(run, n).abort = run.abort
          /\ Settled(run, n).touched = run.touched /\ Settled(run, n).plan = run.plan
          /\ Settled(run, n).todo = run.todo \ {n} /\ Settled(run, n).pending = run.pending \ {n}
          /\ Settled(run, n).skipped = run.skipped /\ Settled(run, n).gated = run.gated
          /\ Settled(run, n).active = run.active
      BY <1>0 DEF Settled, Run
    <3>2. CASE DropNode(n) \/ TakeCached(n)
      BY <3>1, <3>2 DEF DropNode, TakeCached
    <3>3. CASE SkipNode(n)
      BY <3>1, <3>3 DEF SkipNode, Run
    <3>4. CASE DeferNode(n)
      BY <1>0, <3>4 DEF DeferNode, Run
    <3>5. CASE GateNode(n)
      BY <3>1, <3>5 DEF GateNode, Run
    <3>6. CASE LaunchNode(n)
      BY <3>1, <3>6 DEF LaunchNode, Run
    <3> QED
      BY <1>14, <3>2, <3>3, <3>4, <3>5, <3>6
  <2>3. RunShape'
    BY <2>1, <2>2 DEF RunShape
  <2>4. CreatedActive'
    <3>1. CASE LaunchNode(n)
      <4>1. run'.active = run.active \cup {n}
        BY <1>0, <3>1 DEF LaunchNode, Settled, Run
      <4>2. \A m \in Node : m # n => task'[m] = task[m]
        BY <1>0, <3>1 DEF LaunchNode
      <4> QED
        BY <4>1, <4>2 DEF CreatedActive, Fresh
    <3>2. CASE ~LaunchNode(n)
      <4>1. UNCHANGED task
        BY <1>14, <3>2 DEF DropNode, SkipNode, DeferNode, TakeCached, GateNode
      <4> QED
        BY <2>2, <4>1 DEF CreatedActive, Fresh
    <3> QED
      BY <3>1, <3>2
  <2> QED
    BY <2>1, <2>2, <2>3, <2>4 DEF EndsIdle
<1>15. ASSUME NEW n \in Node, TaskStep(n) PROVE CreatedActive' /\ EndsIdle' /\ RunShape'
  <2>0. NoTask.ph = "none" /\ UNCHANGED run
    BY <1>15 DEF NoTask, TaskStep, TaskNeverStarts, TaskStarts, TaskSucceeds, TaskFails, TaskCancelled, NodeUnchanged
  <2>1. \A m \in Node : Fresh(m)' => Fresh(m)
    <3>1. CASE TaskStarts(n) /\ ~InputMissing(n)
      BY <1>0, <3>1 DEF TaskStarts, Fresh, Task
    <3>2. CASE task' = [task EXCEPT ![n] = NoTask]
      BY <1>0, <2>0, <3>2 DEF Fresh
    <3> QED
      BY <1>15, <3>1, <3>2 DEF TaskStep, TaskNeverStarts, TaskStarts, TaskSucceeds, TaskFails, TaskCancelled
  <2> QED
    BY <1>1, <2>0, <2>1
<1> QED
  BY <1>6, <1>7, <1>8, <1>9, <1>10, <1>11, <1>12, <1>13, <1>14, <1>15 DEF Next, RunStep, Pass

\* What is known of a run that nothing outside has disturbed.  A node is excused when it
\* depends on a suspect (Lost), or when the run will not report "done" (Doomed).
Lost(n) == ({n} \cup Ancestors(doc, n)) \cap run.suspect # {}
Doomed == \E m \in run.plan \ (run.pending \cup run.suspect) : Failed(rec[m])
Excused(n) == Lost(n) \/ Doomed
Over == run.plan \ run.pending
Undisturbed == InRun /\ ~run.touched

PlanLive == run.plan \subseteq Live(doc)

\* A task that is to start finds no failure it could be taken for.
LaunchedAfresh ==
  \A n \in run.active \ run.suspect : task[n].ph = "created" => ~Failed(rec[n])

DyingIsSuspect == \A n \in Over : Dying(n) => n \in run.suspect

\* In a pass: a failure still ahead was seen when the pass began, and what was put off
\* has an input that is neither done nor failed, and that the pass has dealt with.
PutOff(n) == \E d \in Deps(n) : /\ rec[d].state # "done" /\ ~Failed(rec[d])
                                /\ d \notin run.skipped \cup run.gated
                                /\ \A m \in run.todo : d < m
PassSees ==
  run.ph = "scan" => /\ \A n \in run.pending : Failed(rec[n]) => n \in run.suspect
                     /\ \A n \in run.pending \ run.todo : PutOff(n)

\* Every node the run has dealt with is excused, stale behind the gate, done or under way.
Stale(n) == run.auto /\ rec[n].stale
UnderWay(n) == n \in run.active /\ Alive(n)
Accounted ==
  /\ \A n \in run.skipped : Excused(n) \/ Stale(n)
  /\ \A n \in run.gated : Stale(n)
  /\ \A n \in Over \ (run.skipped \cup run.gated) :
       Excused(n) \/ rec[n].state = "done" \/ UnderWay(n)

\* At the end nothing is under way, and what never became ready is excused.
EndsAccounted == run.ph = "end" => run.active = {} /\ \A n \in run.pending : Excused(n)

RunGoesOn == PlanLive /\ LaunchedAfresh /\ DyingIsSuspect /\ PassSees /\ Accounted /\ EndsAccounted
RunInv == Undisturbed => RunGoesOn

\* What depends on a lost node is lost.
LEMMA LostThrough ==
  ASSUME NEW n, NEW d \in SourcesIn(doc, n), Lost(d)
  PROVE  Lost(n)
<1>1. d \in Ancestors(doc, n) /\ Ancestors(doc, d) \subseteq Ancestors(doc, n)
  BY AncestorsClosed, AncestorsTransitive
<1> QED
  BY <1>1 DEF Lost

LEMMA ExcuseKept ==
  ASSUME UNCHANGED doc, run.suspect \subseteq run'.suspect, Doomed => Doomed', NEW n, Excused(n)
  PROVE  Excused(n)'
BY DEF Excused, Lost

\* The pass deals with n, and with n alone.
LEMMA PassDeals ==
  ASSUME TypeOK, RunShape, RunGoesOn, NEW n \in Node, Scanning(n), UNCHANGED doc,
         run'.ph = "scan", run'.plan = run.plan, run'.auto = run.auto,
         run'.pending = run.pending \ {n}, run'.todo = run.todo \ {n},
         run'.suspect = IF Dying(n) THEN run.suspect \cup {n} ELSE run.suspect,
         run'.skipped \in {run.skipped, run.skipped \cup {n}},
         run'.gated \in {run.gated, run.gated \cup {n}},
         run'.active \in {run.active, run.active \cup {n}},
         \A m \in Node \ {n} : task'[m] = task[m] /\ rec'[m] = rec[m],
         Dying(n)' => n \in run'.suspect,
         (n \in run'.active /\ task'[n].ph = "created") => (n \in run'.suspect \/ ~Failed(rec'[n])),
         n \in run'.skipped => Excused(n)' \/ Stale(n)',
         n \in run'.gated => Stale(n)',
         n \notin run'.skipped \cup run'.gated =>
           Excused(n)' \/ rec'[n].state = "done" \/ UnderWay(n)'
  PROVE  RunGoesOn'
<1>0. /\ run.plan \subseteq Node /\ run.pending \subseteq run.plan /\ run.active \subseteq run.plan
      /\ run.skipped \subseteq run.plan /\ run.gated \subseteq run.plan
      /\ n \in run.todo /\ n \in run.pending /\ run.todo \subseteq run.pending
      /\ n \notin run.active /\ n \notin run.skipped /\ n \notin run.gated
      /\ run.suspect \subseteq run'.suspect /\ run.ph = "scan"
  BY DEF TypeOK, Run, RunShape, Scanning
<1>1. Doomed => Doomed'
  <2> SUFFICES ASSUME NEW m \in run.plan \ (run.pending \cup run.suspect), Failed(rec[m])
               PROVE  Doomed'
    BY DEF Doomed
  <2>1. m # n /\ m \in Node
    BY <1>0
  <2>2. rec'[m] = rec[m] /\ m \in run'.plan \ (run'.pending \cup run'.suspect)
    BY <1>0, <2>1
  <2>3. Failed(rec'[m])
    BY <2>2
  <2> QED
    BY <2>2, <2>3 DEF Doomed
<1>2. \A m : Excused(m) => Excused(m)'
  BY <1>0, <1>1, ExcuseKept
<1>3. PlanLive'
  BY DEF RunGoesOn, PlanLive
<1>4. LaunchedAfresh'
  <2> SUFFICES ASSUME NEW m \in run'.active \ run'.suspect, task'[m].ph = "created", Failed(rec'[m])
               PROVE  FALSE
    BY DEF LaunchedAfresh
  <2>1. m # n
    OBVIOUS
  <2>2. m \in run.active \ run.suspect /\ m \in Node
    BY <1>0, <2>1
  <2>3. task'[m] = task[m] /\ rec'[m] = rec[m]
    BY <2>1, <2>2
  <2> QED
    BY <2>2, <2>3 DEF RunGoesOn, LaunchedAfresh
<1>5. DyingIsSuspect'
  <2> SUFFICES ASSUME NEW m \in Over', Dying(m)' PROVE m \in run'.suspect
    BY DEF DyingIsSuspect
  <2>1. CASE m # n
    <3>1. m \in Over /\ task'[m] = task[m]
      BY <1>0, <2>1 DEF Over
    <3> QED
      BY <1>0, <3>1 DEF RunGoesOn, DyingIsSuspect, Dying
  <2> QED
    BY <2>1
<1>6. PassSees'
  <2>1. ASSUME NEW m \in run'.pending, Failed(rec'[m]) PROVE m \in run'.suspect
    <3>1. m \in run.pending /\ rec'[m] = rec[m]
      BY <1>0
    <3> QED
      BY <1>0, <2>1, <3>1 DEF RunGoesOn, PassSees
  <2>2. ASSUME NEW m \in run'.pending \ run'.todo PROVE PutOff(m)'
    <3>1. m \in run.pending \ run.todo
      BY <1>0
    <3>2. PICK d \in Deps(m) : /\ rec[d].state # "done" /\ ~Failed(rec[d])
                               /\ d \notin run.skipped \cup run.gated
                               /\ \A k \in run.todo : d < k
      BY <1>0, <3>1 DEF RunGoesOn, PassSees, PutOff
    <3>3. d < n /\ d \in Node
      BY <1>0, <3>2 DEF Deps
    <3>4. d # n
      BY <3>3 DEF Node
    <3>5. /\ d \in Deps(m)' /\ rec'[d] = rec[d]
          /\ d \notin run'.skipped \cup run'.gated /\ \A k \in run'.todo : d < k
      BY <3>2, <3>3, <3>4 DEF Deps, SourcesIn
    <3> QED
      BY <3>2, <3>5 DEF PutOff
  <2> QED
    BY <2>1, <2>2 DEF PassSees
<1>7. Accounted'
  <2>1. ASSUME NEW m, m # n, m \in run'.plan
        PROVE  rec'[m] = rec[m] /\ task'[m] = task[m] /\ (Stale(m) => Stale(m)') /\ (UnderWay(m) => UnderWay(m)')
    <3>1. rec'[m] = rec[m] /\ task'[m] = task[m]
      BY <1>0, <2>1
    <3> QED
      BY <2>1, <3>1 DEF Stale, UnderWay, Alive
  <2>2. ASSUME NEW m \in run'.skipped, m # n PROVE Excused(m)' \/ Stale(m)'
    BY <1>0, <1>2, <2>1, <2>2 DEF RunGoesOn, Accounted
  <2>3. ASSUME NEW m \in run'.gated, m # n PROVE Stale(m)'
    BY <1>0, <2>1, <2>3 DEF RunGoesOn, Accounted
  <2>4. ASSUME NEW m \in Over' \ (run'.skipped \cup run'.gated), m # n
        PROVE  Excused(m)' \/ rec'[m].state = "done" \/ UnderWay(m)'
    <3>1. m \in Over \ (run.skipped \cup run.gated) /\ m \in run'.plan
      BY <1>0, <2>4 DEF Over
    <3> QED
      BY <1>2, <2>1, <2>4, <3>1 DEF RunGoesOn, Accounted
  <2> QED
    BY <2>2, <2>3, <2>4 DEF Accounted
<1> QED
  BY <1>3, <1>4, <1>5, <1>6, <1>7 DEF RunGoesOn, EndsAccounted

\* What the pass reads of its own run.
LEMMA SettledFields ==
  ASSUME TypeOK, NEW n \in Node
  PROVE  /\ Settled(run, n) \in Run
         /\ Settled(run, n).ph = run.ph /\ Settled(run, n).plan = run.plan
         /\ Settled(run, n).auto = run.auto
         /\ Settled(run, n).todo = run.todo \ {n} /\ Settled(run, n).pending = run.pending \ {n}
         /\ Settled(run, n).skipped = run.skipped /\ Settled(run, n).gated = run.gated
         /\ Settled(run, n).active = run.active
         /\ Settled(run, n).suspect = IF Dying(n) THEN run.suspect \cup {n} ELSE run.suspect
BY DEF TypeOK, Settled, Run

LEMMA SkipGoesOn ==
  ASSUME TypeOK, RunShape, RunGoesOn, NEW n \in Node, SkipNode(n)
  PROVE  RunGoesOn'
<1>0. /\ run \in Run /\ rec \in [Node -> Record] /\ Scanning(n) /\ n \in run.todo /\ run.ph = "scan"
      /\ run.plan \subseteq Node /\ run.todo \subseteq run.pending
      /\ UNCHANGED <<doc, task>>
  BY DEF TypeOK, Run, RunShape, SkipNode, Scanning, PassUnchanged
<1>1. /\ run'.ph = "scan" /\ run'.plan = run.plan /\ run'.auto = run.auto
      /\ run'.pending = run.pending \ {n} /\ run'.todo = run.todo \ {n}
      /\ run'.suspect = (IF Dying(n) THEN run.suspect \cup {n} ELSE run.suspect)
      /\ run'.skipped = run.skipped \cup {n} /\ run'.gated = run.gated /\ run'.active = run.active
  BY <1>0, SettledFields DEF SkipNode, Run
<1>2. \A m \in Node : rec'[m].state = rec[m].state /\ (m # n => rec'[m] = rec[m])
  BY <1>0 DEF SkipNode, Record
<1>3. n \notin run.active /\ n \notin run.gated /\ n \in run.pending
  BY <1>0 DEF RunShape
<1>4. Doomed => Doomed'
  BY <1>0, <1>1, <1>2 DEF Doomed, Failed
<1>5. PICK d \in Deps(n) : Failed(rec[d]) \/ d \in run.skipped \cup run.gated
  BY DEF SkipNode, DepFailed
<1>6. d \in SourcesIn(doc, n) /\ d \in run.plan /\ d \in Node
  BY <1>0, <1>5 DEF Deps
<1>7. ASSUME Excused(d) PROVE Excused(n)'
  <2>1. Excused(n)
    BY <1>6, <1>7, LostThrough DEF Excused
  <2> QED
    BY <1>0, <1>1, <1>4, <2>1, ExcuseKept
<1>8. ASSUME Stale(d) \/ d \in run.gated PROVE Stale(n)'
  <2>1. run.auto /\ (d \in run.gated \/ rec[d].stale)
    BY <1>8 DEF Stale, RunGoesOn, Accounted
  <2>2. rec' = [rec EXCEPT ![n].stale = TRUE]
    BY <1>5, <2>1 DEF SkipNode
  <2>3. rec'[n].stale = TRUE
    BY <1>0, <2>2 DEF Record
  <2> QED
    BY <1>1, <2>1, <2>3 DEF Stale
<1>9. ASSUME Failed(rec[d]) PROVE Excused(d)
  <2>1. CASE d \in run.suspect
    BY <2>1 DEF Excused, Lost
  <2>2. CASE d \notin run.suspect
    <3>1. d \notin run.pending
      BY <1>0, <1>9, <2>2 DEF RunGoesOn, PassSees
    <3> QED
      BY <1>6, <1>9, <2>2, <3>1 DEF Excused, Doomed
  <2> QED
    BY <2>1, <2>2
<1>10. Excused(n)' \/ Stale(n)'
  BY <1>5, <1>7, <1>8, <1>9 DEF RunGoesOn, Accounted
<1>11. Dying(n)' => n \in run'.suspect
  BY <1>0, <1>1 DEF Dying
<1>12. Scanning(n) /\ UNCHANGED doc
  BY <1>0
<1>13. \A m \in Node \ {n} : task'[m] = task[m] /\ rec'[m] = rec[m]
  BY <1>0, <1>2
<1> QED
  BY <1>1, <1>3, <1>10, <1>11, <1>12, <1>13, PassDeals

LEMMA DeferGoesOn ==
  ASSUME TypeOK, RunShape, RunGoesOn, NEW n \in Node, DeferNode(n)
  PROVE  RunGoesOn'
<1>0. /\ run \in Run /\ Scanning(n) /\ n \in run.todo /\ run.ph = "scan" /\ run.todo \subseteq Node
      /\ \A m \in run.todo : n <= m
      /\ UNCHANGED <<doc, rec, task>>
  BY DEF TypeOK, Run, DeferNode, Scanning, PassUnchanged
<1>1. /\ run'.ph = "scan" /\ run'.plan = run.plan /\ run'.auto = run.auto
      /\ run'.pending = run.pending /\ run'.todo = run.todo \ {n}
      /\ run'.suspect = run.suspect
      /\ run'.skipped = run.skipped /\ run'.gated = run.gated /\ run'.active = run.active
  BY <1>0 DEF DeferNode, Run
<1>2. PICK d \in Deps(n) : rec[d].state # "done"
  BY DEF DeferNode, DepPending
<1>3. d \in Sources[n] /\ d < n /\ d \in Node
  BY <1>2, SchedulerAssumption DEF Deps, SourcesIn
<1>4. \A m \in run.todo : d < m
  <2> TAKE m \in run.todo
  <2>1. n <= m /\ m \in Node
    BY <1>0
  <2> QED
    BY <1>3, <2>1 DEF Node
<1>5. PutOff(n)'
  <2>1. ~Failed(rec[d]) /\ d \notin run.skipped \cup run.gated
    BY <1>2 DEF DeferNode, DepFailed
  <2>2. d \in Deps(n)'
    BY <1>0, <1>1, <1>2 DEF Deps, SourcesIn
  <2> QED
    BY <1>0, <1>1, <1>2, <1>4, <2>1, <2>2 DEF PutOff
<1>6. ASSUME NEW m, PutOff(m) PROVE PutOff(m)'
  BY <1>0, <1>1, <1>6 DEF PutOff, Deps, SourcesIn
<1>7. PassSees'
  BY <1>0, <1>1, <1>5, <1>6 DEF RunGoesOn, PassSees
<1>8. \A m : (Excused(m) <=> Excused(m)') /\ (Stale(m) <=> Stale(m)') /\ (UnderWay(m) <=> UnderWay(m)')
  BY <1>0, <1>1 DEF Excused, Lost, Doomed, Stale, UnderWay, Alive
<1>9. Accounted' /\ EndsAccounted'
  BY <1>0, <1>1, <1>8 DEF RunGoesOn, Accounted, Over, EndsAccounted
<1>10. PlanLive' /\ LaunchedAfresh' /\ DyingIsSuspect'
  BY <1>0, <1>1 DEF RunGoesOn, PlanLive, LaunchedAfresh, DyingIsSuspect, Dying, Over
<1> QED
  BY <1>7, <1>9, <1>10 DEF RunGoesOn

\* TakeCached, GateNode and LaunchNode.
LEMMA ReadyGoesOn ==
  ASSUME TypeOK, RunShape, RunGoesOn, NEW n \in Node, TakeCached(n) \/ GateNode(n) \/ LaunchNode(n)
  PROVE  RunGoesOn'
<1>0. /\ run \in Run /\ rec \in [Node -> Record] /\ task \in [Node -> Task]
      /\ Scanning(n) /\ n \in run.todo /\ run.ph = "scan" /\ run.todo \subseteq run.pending
      /\ UNCHANGED doc
  BY DEF TypeOK, RunShape, TakeCached, GateNode, LaunchNode, Ready, Scanning, PassUnchanged
<1>1. n \in run.pending /\ n \notin run.active /\ n \notin run.skipped /\ n \notin run.gated
  BY <1>0 DEF RunShape
<1>2. CASE TakeCached(n)
  <2>1. /\ run'.ph = "scan" /\ run'.plan = run.plan /\ run'.auto = run.auto
        /\ run'.pending = run.pending \ {n} /\ run'.todo = run.todo \ {n}
        /\ run'.suspect = (IF Dying(n) THEN run.suspect \cup {n} ELSE run.suspect)
        /\ run'.skipped = run.skipped /\ run'.gated = run.gated /\ run'.active = run.active
    BY <1>0, <1>2, SettledFields DEF TakeCached
  <2>2. UNCHANGED task /\ rec'[n].state = "done" /\ \A m \in Node \ {n} : rec'[m] = rec[m]
    BY <1>0, <1>2 DEF TakeCached, Record
  <2>3. Dying(n)' => n \in run'.suspect
    BY <2>1, <2>2 DEF Dying
  <2> QED
    BY <1>0, <1>1, <2>1, <2>2, <2>3, PassDeals
<1>3. CASE GateNode(n)
  <2>1. /\ run'.ph = "scan" /\ run'.plan = run.plan /\ run'.auto = run.auto
        /\ run'.pending = run.pending \ {n} /\ run'.todo = run.todo \ {n}
        /\ run'.suspect = (IF Dying(n) THEN run.suspect \cup {n} ELSE run.suspect)
        /\ run'.skipped = run.skipped /\ run'.gated = run.gated \cup {n} /\ run'.active = run.active
    BY <1>0, <1>3, SettledFields DEF GateNode, Run
  <2>2. UNCHANGED task /\ rec'[n].stale /\ \A m \in Node \ {n} : rec'[m] = rec[m]
    BY <1>0, <1>3 DEF GateNode, Record
  <2>3. Dying(n)' => n \in run'.suspect
    BY <2>1, <2>2 DEF Dying
  <2>4. Stale(n)'
    BY <1>3, <2>1, <2>2 DEF Stale, GateNode, Gated
  <2> QED
    BY <1>0, <1>1, <2>1, <2>2, <2>3, <2>4, PassDeals
<1>4. CASE LaunchNode(n)
  <2>1. /\ run'.ph = "scan" /\ run'.plan = run.plan /\ run'.auto = run.auto
        /\ run'.pending = run.pending \ {n} /\ run'.todo = run.todo \ {n}
        /\ run'.suspect = (IF Dying(n) THEN run.suspect \cup {n} ELSE run.suspect)
        /\ run'.skipped = run.skipped /\ run'.gated = run.gated /\ run'.active = run.active \cup {n}
    BY <1>0, <1>4, SettledFields DEF LaunchNode, Run
  <2>2. UNCHANGED rec /\ \A m \in Node \ {n} : task'[m] = task[m]
    BY <1>0, <1>4 DEF LaunchNode
  <2>3. NewTask(n).ph = "created" /\ NewTask(n).cancel = FALSE
    BY DEF NewTask, NoTask
  <2>4. task'[n] = IF Alive(n) THEN task[n] ELSE NewTask(n)
    BY <1>0, <1>4 DEF LaunchNode
  <2>5. Dying(n)' => n \in run'.suspect
    BY <2>1, <2>3, <2>4 DEF Dying
  <2>6. UnderWay(n)'
    BY <2>1, <2>3, <2>4 DEF UnderWay, Alive
  <2>7. n \in run'.suspect \/ ~Failed(rec'[n])
    BY <1>0, <1>1, <2>1, <2>2 DEF RunGoesOn, PassSees
  <2> QED
    BY <1>0, <1>1, <2>1, <2>2, <2>5, <2>6, <2>7, PassDeals
<1> QED
  BY <1>2, <1>3, <1>4

LEMMA BeginPassGoesOn ==
  ASSUME TypeOK, RunShape, RunGoesOn, ~run.touched, BeginPass
  PROVE  RunGoesOn'
<1>0. run \in Run /\ rec \in [Node -> Record] /\ ~run.abort
  BY DEF TypeOK, RunShape
<1>1. /\ run'.ph = "scan" /\ run'.plan = run.plan /\ run'.auto = run.auto
      /\ run'.pending = run.pending /\ run'.todo = run.pending
      /\ run'.suspect = run.suspect \cup {n \in run.pending : Failed(rec[n])}
      /\ run'.skipped = run.skipped /\ run'.gated = run.gated
      /\ run'.active = {n \in run.active : Alive(n)}
  BY <1>0 DEF BeginPass, Run
<1>2. UNCHANGED <<doc, rec, task>>
  BY <1>0 DEF BeginPass
<1>3. Doomed => Doomed'
  BY <1>1, <1>2 DEF Doomed
<1>4. \A m : Excused(m) => Excused(m)'
  BY <1>1, <1>2, <1>3, ExcuseKept
<1>5. \A m : (Stale(m) => Stale(m)') /\ (UnderWay(m) => UnderWay(m)')
  BY <1>1, <1>2 DEF Stale, UnderWay, Alive
<1>6. PassSees'
  BY <1>1, <1>2 DEF PassSees
<1>7. Accounted' /\ EndsAccounted'
  BY <1>1, <1>2, <1>4, <1>5 DEF RunGoesOn, Accounted, Over, EndsAccounted
<1>8. PlanLive' /\ LaunchedAfresh' /\ DyingIsSuspect'
  BY <1>1, <1>2 DEF RunGoesOn, PlanLive, LaunchedAfresh, DyingIsSuspect, Dying, Over
<1> QED
  BY <1>6, <1>7, <1>8 DEF RunGoesOn

LEMMA LeastOf ==
  ASSUME NEW S \in SUBSET Nat, S # {}
  PROVE  \E x \in S : \A y \in S : x <= y
<1>1. PICK x \in S : \A y \in S : ~(<<y, x>> \in OpToRel(<, Nat))
  BY NatLessThanWellFounded, WFMin
<1>2. ASSUME NEW y \in S PROVE x <= y
  <2>1. x \in Nat /\ y \in Nat /\ <<y, x>> \in Nat \X Nat
    OBVIOUS
  <2>2. ~(y < x)
    BY <1>1, <2>1 DEF OpToRel
  <2> QED
    BY <2>1, <2>2
<1> QED
  BY <1>2

\* When a pass ends with nothing under way, whatever is still pending waits in vain: the
\* least such node would wait for one that the run has dealt with and that is not done.
LEMMA EndPassGoesOn ==
  ASSUME TypeOK, RunShape, RunGoesOn, EndPass
  PROVE  RunGoesOn'
<1>0. /\ run \in Run /\ run.pending \subseteq Node /\ run.ph = "scan" /\ run.todo = {}
      /\ UNCHANGED <<doc, rec, task>>
  BY DEF TypeOK, Run, EndPass, PassUnchanged
<1>1. /\ run'.ph = (IF run.active = {} THEN "end" ELSE "wait")
      /\ run'.plan = run.plan /\ run'.auto = run.auto
      /\ run'.pending = run.pending /\ run'.todo = run.todo /\ run'.suspect = run.suspect
      /\ run'.skipped = run.skipped /\ run'.gated = run.gated /\ run'.active = run.active
  BY <1>0 DEF EndPass, Run
<1>2. \A m : (Excused(m) <=> Excused(m)') /\ (Stale(m) <=> Stale(m)') /\ (UnderWay(m) <=> UnderWay(m)')
  BY <1>0, <1>1 DEF Excused, Lost, Doomed, Stale, UnderWay, Alive
<1>3. ASSUME run.active = {} PROVE \A n \in run.pending : Excused(n)
  <2> DEFINE Left == {n \in run.pending : ~Excused(n)}
  <2>1. SUFFICES ASSUME Left # {} PROVE FALSE
    OBVIOUS
  <2>2. PICK n \in Left : \A m \in Left : n <= m
    <3>1. Left \subseteq Nat
      BY <1>0 DEF Node
    <3> HIDE DEF Left
    <3> QED
      BY <2>1, <3>1, LeastOf
  <2>3. PICK d \in Deps(n) : /\ rec[d].state # "done" /\ ~Failed(rec[d])
                             /\ d \notin run.skipped \cup run.gated
    BY <1>0 DEF RunGoesOn, PassSees, PutOff
  <2>4. d \in SourcesIn(doc, n) /\ d \in run.plan /\ d < n /\ d \in Node /\ n \in Node
    BY <1>0, <2>3, SchedulerAssumption DEF Deps, SourcesIn
  <2>5. ~Excused(d)
    BY <2>4, LostThrough DEF Excused
  <2>6. d \notin run.pending
    <3>1. ~(n <= d)
      BY <2>4 DEF Node
    <3> QED
      BY <2>2, <2>5, <3>1
  <2> QED
    BY <1>3, <2>3, <2>4, <2>5, <2>6 DEF RunGoesOn, Accounted, Over, UnderWay
<1>4. PassSees' /\ EndsAccounted'
  BY <1>1, <1>2, <1>3 DEF PassSees, EndsAccounted
<1>5. Accounted'
  BY <1>0, <1>1, <1>2 DEF RunGoesOn, Accounted, Over
<1>6. PlanLive' /\ LaunchedAfresh' /\ DyingIsSuspect'
  BY <1>0, <1>1 DEF RunGoesOn, PlanLive, LaunchedAfresh, DyingIsSuspect, Dying, Over
<1> QED
  BY <1>4, <1>5, <1>6 DEF RunGoesOn

\* A step of one task, between two passes.
LEMMA TaskDeals ==
  ASSUME TypeOK, RunShape, RunGoesOn, NEW n \in Node, AtAwait, UNCHANGED <<doc, run>>,
         \A m \in Node \ {n} : task'[m] = task[m] /\ rec'[m] = rec[m],
         task'[n].ph # "created",
         Dying(n)' => Dying(n),
         n \notin run.active => rec'[n].stale = rec[n].stale,
         n \in Over \ run.suspect /\ Failed(rec[n]) => Failed(rec'[n]),
         (n \in Over \ (run.skipped \cup run.gated)) =>
           Excused(n)' \/ rec'[n].state = "done" \/ UnderWay(n)'
  PROVE  RunGoesOn'
<1>0. /\ run.plan \subseteq Node /\ run.pending \subseteq run.plan /\ run.active \subseteq run.plan
      /\ run.skipped \subseteq run.plan /\ run.gated \subseteq run.plan
      /\ (run.skipped \cup run.gated) \cap run.active = {}
  BY DEF TypeOK, Run, RunShape
<1>1. Doomed => Doomed'
  <2> SUFFICES ASSUME NEW m \in run.plan \ (run.pending \cup run.suspect), Failed(rec[m])
               PROVE  Doomed'
    BY DEF Doomed
  <2>1. m \in Node /\ m \in Over \ run.suspect
    BY <1>0 DEF Over
  <2>2. Failed(rec'[m])
    <3>1. CASE m = n
      BY <2>1, <3>1
    <3>2. CASE m # n
      BY <2>1, <3>2
    <3> QED
      BY <3>1, <3>2
  <2> QED
    BY <2>2 DEF Doomed
<1>2. \A m : Excused(m) => Excused(m)'
  BY <1>1, ExcuseKept
<1>3. PlanLive' /\ PassSees'
  BY DEF RunGoesOn, PlanLive, PassSees, AtAwait
<1>4. LaunchedAfresh'
  BY <1>0 DEF RunGoesOn, LaunchedAfresh
<1>5. DyingIsSuspect'
  <2> SUFFICES ASSUME NEW m \in Over, Dying(m)' PROVE m \in run.suspect
    BY DEF DyingIsSuspect, Over
  <2>1. m \in Node
    BY <1>0 DEF Over
  <2>2. Dying(m)
    BY <2>1 DEF Dying
  <2> QED
    BY <2>2 DEF RunGoesOn, DyingIsSuspect
<1>6. Accounted'
  <2>1. ASSUME NEW m \in run.skipped \cup run.gated, Stale(m) PROVE Stale(m)'
    <3>1. m \in Node /\ rec'[m].stale = rec[m].stale
      BY <1>0
    <3> QED
      BY <2>1, <3>1 DEF Stale
  <2>2. ASSUME NEW m \in Over \ (run.skipped \cup run.gated)
        PROVE  Excused(m)' \/ rec'[m].state = "done" \/ UnderWay(m)'
    <3>1. CASE m = n
      BY <2>2, <3>1
    <3>2. CASE m # n
      <4>1. task'[m] = task[m] /\ rec'[m] = rec[m]
        BY <1>0, <3>2 DEF Over
      <4>2. Excused(m) \/ rec[m].state = "done" \/ UnderWay(m)
        BY <2>2 DEF RunGoesOn, Accounted
      <4> QED
        BY <1>2, <4>1, <4>2 DEF UnderWay, Alive
    <3> QED
      BY <3>1, <3>2
  <2> QED
    BY <1>2, <2>1, <2>2 DEF RunGoesOn, Accounted, Over
<1>7. EndsAccounted'
  BY <1>2 DEF RunGoesOn, EndsAccounted
<1> QED
  BY <1>3, <1>4, <1>5, <1>6, <1>7 DEF RunGoesOn

LEMMA TaskStepGoesOn ==
  ASSUME TypeOK, RunBase, RunGoesOn, NEW n \in Node, TaskStep(n)
  PROVE  RunGoesOn'
<1>0. /\ rec \in [Node -> Record] /\ task \in [Node -> Task] /\ run.plan \subseteq Node
      /\ AtAwait /\ UNCHANGED <<doc, run>> /\ RunShape
  BY DEF TypeOK, Run, RunBase, TaskStep, TaskNeverStarts, TaskStarts, TaskSucceeds, TaskFails,
         TaskCancelled, Runnable, NodeUnchanged
<1>1. /\ \A m \in Node \ {n} : task'[m] = task[m] /\ rec'[m] = rec[m]
      /\ task'[n].ph # "created"
  BY <1>0 DEF TaskStep, TaskNeverStarts, TaskStarts, TaskSucceeds, TaskFails, TaskCancelled, Mark, NoTask, Task
<1>2. NoTask.ph = "none" /\ ~NoTask.cancel /\ ~NoTask.own
  BY DEF NoTask
<1>3. ASSUME n \in Over, n \in run.suspect PROVE Excused(n)'
  BY <1>0, <1>3 DEF Excused, Lost
<1>4. ASSUME n \in Over, Dying(n) PROVE n \in run.suspect
  BY <1>4 DEF RunGoesOn, DyingIsSuspect
<1>5. ASSUME n \in Over \ run.suspect, Failed(rec'[n]) PROVE Excused(n)'
  BY <1>0, <1>5 DEF Excused, Doomed, Over
<1>6. CASE TaskNeverStarts(n)
  <2>1. UNCHANGED rec /\ task'[n] = NoTask
    BY <1>0, <1>6 DEF TaskNeverStarts
  <2>2. ~Dying(n)'
    BY <1>2, <2>1 DEF Dying
  <2>3. n \in Over => Excused(n)'
    <3>1. n \in Over => rec[n].state # "none"
      BY DEF RunBase, LiveCompiled, RunGoesOn, PlanLive, Over
    <3>2. n \in Over => Dying(n)
      BY <1>6, <3>1 DEF TaskNeverStarts, Dying
    <3> QED
      BY <1>3, <1>4, <3>2
  <2> QED
    BY <1>0, <1>1, <2>1, <2>2, <2>3, TaskDeals
<1>7. CASE TaskStarts(n)
  <2>1. task[n].ph = "created" /\ n \in run.active
    BY <1>7 DEF TaskStarts, Runnable, RunBase, CreatedActive, Fresh
  <2>2. n \in Over
    BY <2>1 DEF RunBase, RunShape, Over
  <2>3. n \notin run.suspect => ~Failed(rec[n])
    BY <2>1 DEF RunGoesOn, LaunchedAfresh
  <2>4. CASE InputMissing(n)
    <3>1. task'[n] = NoTask /\ Failed(rec'[n])
      BY <1>0, <1>7, <2>4 DEF TaskStarts, Record, Failed
    <3>2. ~Dying(n)'
      BY <1>2, <3>1 DEF Dying
    <3>3. Excused(n)'
      BY <1>3, <1>5, <2>2, <3>1
    <3> QED
      BY <1>0, <1>1, <2>1, <2>3, <3>2, <3>3, TaskDeals
  <2>5. CASE ~InputMissing(n)
    <3>1. task'[n].ph = "running" /\ task'[n].own /\ ~task'[n].cancel
      BY <1>0, <1>7, <2>5 DEF TaskStarts, Task
    <3>2. ~Dying(n)' /\ UnderWay(n)'
      BY <1>0, <2>1, <3>1 DEF Dying, UnderWay, Alive
    <3> QED
      BY <1>0, <1>1, <2>1, <2>3, <3>2, TaskDeals
  <2> QED
    BY <2>4, <2>5
<1>8. CASE TaskSucceeds(n) \/ TaskFails(n) \/ TaskCancelled(n)
  <2>1. task'[n] = NoTask /\ task[n].ph = "running"
    BY <1>0, <1>8 DEF TaskSucceeds, TaskFails, TaskCancelled, Runnable
  <2>2. ~Dying(n)'
    BY <1>2, <2>1 DEF Dying
  <2>3. rec'[n].stale = rec[n].stale
    BY <1>0, <1>8 DEF TaskSucceeds, TaskFails, TaskCancelled, Mark, Record
  <2>4. ASSUME n \in Over, ~Dying(n)
        PROVE  /\ ~Failed(rec[n])
               /\ Excused(n)' \/ rec'[n].state = "done"
    <3>1. task[n].own /\ ~task[n].cancel
      BY <2>1, <2>4 DEF Dying
    <3>2. ~Failed(rec[n])
      BY <2>1, <3>1 DEF RunBase, OwnersRun
    <3>3. rec'[n].state \in {"done", "error"}
      BY <1>0, <1>8, <3>1 DEF TaskSucceeds, TaskFails, TaskCancelled, Mark, Record
    <3> QED
      BY <1>3, <1>5, <2>4, <3>2, <3>3 DEF Failed
  <2>5. n \in Over \ run.suspect => ~Dying(n)
    BY <1>4
  <2>6. n \in Over => Excused(n)' \/ rec'[n].state = "done"
    BY <1>3, <2>4, <2>5
  <2>7. n \in Over \ run.suspect => ~Failed(rec[n])
    BY <2>4, <2>5
  <2> QED
    BY <1>0, <1>1, <2>1, <1>2, <2>2, <2>3, <2>6, <2>7, TaskDeals
<1> QED
  BY <1>6, <1>7, <1>8 DEF TaskStep

LEMMA RunInvStep ==
  ASSUME TypeOK, RunBase, RunInv, [Next]_vars
  PROVE  RunInv'
<1>0. run \in Run
  BY DEF TypeOK
<1> SUFFICES ASSUME run'.ph # "off", ~run'.touched PROVE RunGoesOn'
  BY DEF RunInv, Undisturbed, InRun
<1>1. ASSUME run.ph # "off", ~run.touched PROVE RunGoesOn
  BY <1>1 DEF RunInv, Undisturbed, InRun
<1>2. ASSUME NEW r, r = run \/ r = RunKilled(run), run' = Touched(r) PROVE FALSE
  <2>1. r \in Run
    BY <1>0, <1>2 DEF RunKilled, Run
  <2> QED
    BY <1>2, <2>1 DEF Touched, Run
<1>3. ASSUME UNCHANGED <<doc, rec, task, run>> PROVE RunGoesOn'
  <2>1. RunGoesOn
    BY <1>1, <1>3
  <2>2. PlanLive' /\ LaunchedAfresh' /\ DyingIsSuspect'
    BY <1>3, <2>1 DEF RunGoesOn, PlanLive, LaunchedAfresh, DyingIsSuspect, Dying, Over
  <2>3. \A m : (Excused(m) <=> Excused(m)') /\ (Stale(m) <=> Stale(m)') /\ (UnderWay(m) <=> UnderWay(m)')
    BY <1>3 DEF Excused, Lost, Doomed, Stale, UnderWay, Alive
  <2>4. \A m : PutOff(m) <=> PutOff(m)'
    BY <1>3 DEF PutOff, Deps, SourcesIn
  <2>5. PassSees'
    BY <1>3, <2>1, <2>4 DEF RunGoesOn, PassSees
  <2>6. Accounted' /\ EndsAccounted'
    BY <1>3, <2>1, <2>3 DEF RunGoesOn, Accounted, Over, EndsAccounted
  <2> QED
    BY <2>2, <2>5, <2>6 DEF RunGoesOn
\* What the user does and the wall-clock limit disturb the run, or leave it alone.
<1>4. CASE UserStep
  <2>1. CASE SaveUnchanged \/ \E n \in Node : EditParam(n) \/ RemoveOrRestore(n) \/ BreakOrRepair(n)
    <3>1. PICK d : Update(d)
      BY <2>1, SaveIsUpdate
    <3>2. \E r : (r = run \/ r = RunKilled(run)) /\ run' = Touched(r)
      BY <3>1 DEF Update
    <3> QED
      BY <1>2, <3>2
  <2>2. CASE Evict \/ \E n \in Node : SharedStore(n) \/ CancelNode(n)
    BY <1>2, <2>2 DEF Evict, SharedStore, CancelNode
  <2>3. CASE CancelRun
    <3>1. run'.touched
      BY <1>0, <2>3 DEF CancelRun, Run
    <3> QED
      BY <3>1
  <2>4. ASSUME NEW on \in BOOLEAN, SetAutoRun(on) PROVE RunGoesOn'
    <3>1. UNCHANGED <<doc, rec, task>> /\ (run' = run \/ run' = Touched(RunKilled(run)))
      BY <2>4 DEF SetAutoRun
    <3> QED
      BY <1>2, <1>3, <3>1
  <2>5. ASSUME NEW t \in TargetSets, RequestRun(t) PROVE RunGoesOn'
    BY <1>3, <2>5 DEF RequestRun
  <2> QED
    BY <1>4, <2>1, <2>2, <2>3, <2>4, <2>5 DEF UserStep
<1>5. CASE DebounceFires \/ UNCHANGED vars
  BY <1>3, <1>5 DEF DebounceFires, vars
<1>6. CASE LimitReached
  <2>1. run'.touched
    BY <1>0, <1>6 DEF LimitReached, Run
  <2> QED
    BY <2>1
<1>7. CASE BeginRun
  <2>1. PICK plan \in SUBSET Live(doc) :
               run' = [NoRun EXCEPT !.ph = "start", !.auto = Head(queue).auto,
                                    !.plan = plan, !.pending = plan]
    BY <1>7, PlanIsLive DEF BeginRun
  <2>2. /\ run'.ph = "start" /\ run'.plan = plan /\ run'.pending = plan
        /\ run'.skipped = {} /\ run'.gated = {} /\ run'.active = {}
    BY <2>1 DEF NoRun
  <2>3. UNCHANGED doc
    BY <1>7 DEF BeginRun
  <2> QED
    BY <2>2, <2>3
       DEF RunGoesOn, PlanLive, LaunchedAfresh, DyingIsSuspect, PassSees, Accounted, Over, EndsAccounted
<1>8. CASE RunOver
  <2>1. run'.ph = "off"
    BY <1>8 DEF RunOver, NoRun
  <2> QED
    BY <2>1
<1>9. CASE Pass
  <2>1. CASE BeginPass
    <3>1. run'.touched = run.touched /\ run.ph # "off"
      BY <1>0, <2>1 DEF BeginPass, Run
    <3> QED
      BY <1>1, <2>1, <3>1, BeginPassGoesOn DEF RunBase
  <2>2. CASE EndPass
    <3>1. run'.touched = run.touched /\ run.ph # "off"
      BY <1>0, <2>2 DEF EndPass, Run
    <3> QED
      BY <1>1, <2>2, <3>1, EndPassGoesOn DEF RunBase
  <2>3. ASSUME NEW n \in Node,
               \/ DropNode(n) \/ SkipNode(n) \/ DeferNode(n)
               \/ TakeCached(n) \/ GateNode(n) \/ LaunchNode(n)
        PROVE  RunGoesOn'
    <3>1. run.ph = "scan" /\ n \in run.todo
      BY <2>3 DEF DropNode, SkipNode, DeferNode, TakeCached, GateNode, LaunchNode, Ready, Scanning
    <3>2. Settled(run, n).touched = run.touched /\ Settled(run, n) \in Run
      BY <1>0 DEF Settled, Run
    <3>3. run'.touched = run.touched
      BY <1>0, <2>3, <3>2 DEF DropNode, SkipNode, DeferNode, TakeCached, GateNode, LaunchNode, Run
    <3>4. RunGoesOn
      BY <1>1, <3>1, <3>3
    <3>5. ~DropNode(n)
      BY <3>1, <3>4 DEF DropNode, RunBase, RunShape, RunGoesOn, PlanLive
    <3> QED
      BY <2>3, <3>4, <3>5, SkipGoesOn, DeferGoesOn, ReadyGoesOn DEF RunBase
  <2> QED
    BY <1>9, <2>1, <2>2, <2>3 DEF Pass
<1>10. ASSUME NEW n \in Node, TaskStep(n) PROVE RunGoesOn'
  <2>1. UNCHANGED run
    BY <1>10 DEF TaskStep, TaskNeverStarts, TaskStarts, TaskSucceeds, TaskFails, TaskCancelled, NodeUnchanged
  <2> QED
    BY <1>1, <1>10, <2>1, TaskStepGoesOn
<1> QED
  BY <1>4, <1>5, <1>6, <1>7, <1>8, <1>9, <1>10 DEF Next, RunStep, FinishRun, KillRun, Drained

\* What the invariant says at the end of an undisturbed run that reports "done".
LEMMA DoneIsComplete ==
  ASSUME RunBase, RunInv, run.ph = "end", ~run.touched, Status(run) = "done", NEW n \in run.plan
  PROVE  \/ rec[n].state = "done"
         \/ run.auto /\ rec[n].stale
         \/ ({n} \cup Ancestors(doc, n)) \cap run.suspect # {}
<1>1. RunGoesOn
  BY DEF RunInv, Undisturbed, InRun
<1>2. ~Doomed
  <2> DEFINE states == {rec[m].state : m \in run.plan}
  <2>1. "cancelled" \notin states
    BY DEF Status
  <2>2. "error" \notin states
    BY DEF Status
  <2> QED
    BY <2>1, <2>2 DEF Doomed, Failed
<1>3. CASE n \in run.pending
  BY <1>1, <1>2, <1>3 DEF RunGoesOn, EndsAccounted, Excused, Lost
<1>4. CASE n \notin run.pending
  <2>1. run.active = {}
    BY <1>1 DEF RunGoesOn, EndsAccounted
  <2> QED
    BY <1>1, <1>2, <1>4, <2>1 DEF RunGoesOn, Accounted, Over, Excused, Lost, Stale, UnderWay
<1> QED
  BY <1>3, <1>4

\* A run that no save, switch, cancel, limit or change of the cache disturbed and that
\* reports "done" has done its plan: every node of it is done, is stale behind the cost
\* gate, or depends on a node that entered the run failed or dying (_execute_plan, _launch,
\* _final_status).
THEOREM UndisturbedRunCompletesAlways == Spec => UndisturbedRunCompletes
<1>1. Init => TypeOK /\ AbortedTasks /\ RunBase /\ RunInv
  <2> SUFFICES ASSUME Init PROVE AbortedTasks /\ RunBase /\ RunInv
    BY TypeInit
  <2>1. /\ run.ph = "off" /\ ~run.abort /\ run.active = {} /\ run.plan = {} /\ run.pending = {}
        /\ run.todo = {} /\ run.skipped = {} /\ run.gated = {}
    BY DEF Init, NoRun
  <2>2. \A n \in Node : rec[n].state = "dirty" /\ task[n].ph = "none"
    BY DEF Init, DirtyRecord, NoTask
  <2> QED
    BY <2>1, <2>2 DEF AbortedTasks, RunBase, LiveCompiled, OwnersRun, CreatedActive, Fresh, EndsIdle,
                      RunShape, RunInv, Undisturbed, InRun
<1>2. TypeOK /\ AbortedTasks /\ RunBase /\ RunInv /\ [Next]_vars
      => (TypeOK /\ AbortedTasks /\ RunBase /\ RunInv)'
  BY TypeInductive, AbortedTasksInductive, RecordsStep, RunShapeStep, RunInvStep DEF RunBase
<1>3. RunBase /\ RunInv
      => [(/\ run.ph = "end" /\ run'.ph = "off"
           /\ ~run.touched /\ Status(run) = "done")
          => \A n \in run.plan :
               \/ rec[n].state = "done"
               \/ run.auto /\ rec[n].stale
               \/ ({n} \cup Ancestors(doc, n)) \cap run.suspect # {}]_vars
  BY DoneIsComplete
<1> QED
  BY <1>1, <1>2, <1>3, PTL DEF Spec, UndisturbedRunCompletes
=============================================================================
