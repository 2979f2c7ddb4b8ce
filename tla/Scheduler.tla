------------------------------ MODULE Scheduler ------------------------------
(***************************************************************************)
(* The reactive engine of one workflow                                     *)
(* (backend/src/astro_canvas/engine/scheduler.py).                         *)
(*                                                                         *)
(* A document is recompiled at every save; nodes whose content-hash key    *)
(* changed become dirty; with auto-run on, a debounce task then starts an  *)
(* auto-run, and the user starts explicit runs.  One run at a time holds   *)
(* the run lock, walks its plan, and starts one asyncio task per node.     *)
(* Everything below runs on one event loop, so an action is the code       *)
(* between two awaits; a pass of `_execute_plan` over its pending nodes    *)
(* is one such stretch, taken node by node with every other action held    *)
(* back by AtAwait until the pass is over.                                 *)
(*                                                                         *)
(* Nodes are numbered in topological order.  A key is the function from a  *)
(* node and its ancestors to the parameter versions it was hashed from; a  *)
(* value is written the same way, by what it was really computed from, so  *)
(* a cached value is right exactly when it equals its key.                 *)
(***************************************************************************)
EXTENDS Integers, Sequences, SequencesExt

CONSTANTS
  N,            \* number of nodes the document can contain
  Sources,      \* Sources[n]: the nodes wired to n's (non-lazy) inputs
  Expensive,    \* nodes whose effective cost is "expensive"
  TargetSets,   \* target lists an explicit run may name ({}: every leaf)
  MaxVer,       \* bound: parameter versions are 0..MaxVer
  MaxEdits,     \* bound on saves, switches and cancels by the user
  MaxRequests,  \* bound on explicit run requests
  Ops           \* the kinds of outside events this instance explores

Node == 1..N
Ver == 0..MaxVer

ASSUME SchedulerAssumption ==
  /\ N \in Nat
  /\ MaxVer \in Nat
  /\ MaxEdits \in Nat
  /\ MaxRequests \in Nat
  /\ Sources \in [Node -> SUBSET Node]
  /\ \A n \in Node : \A s \in Sources[n] : s < n
  /\ Expensive \subseteq Node
  /\ TargetSets \subseteq SUBSET Node

VARIABLES
  doc,     \* the saved document: nodes present, their versions, the invalid ones
  rec,     \* Scheduler.records: one NodeRecord per node of the document
  task,    \* Scheduler._tasks: the asyncio task of each node
  cache,   \* OutputCache, by key
  auto,    \* Scheduler.auto_run
  deb,     \* the task behind Scheduler._debounce
  queue,   \* runs waiting for _run_lock, first come first served
  run,     \* the run that holds _run_lock (Scheduler._current)
  edits,   \* how many user events have happened (bound)
  asked    \* how many explicit runs were requested (bound)

vars == <<doc, rec, task, cache, auto, deb, queue, run, edits, asked>>
-----------------------------------------------------------------------------
(* Documents, keys and values *)

Mixed == -1    \* two inputs computed from different versions of one node

Key == UNION {[S -> Ver] : S \in SUBSET Node}
Val == UNION {[S -> Ver \cup {Mixed}] : S \in SUBSET Node}
NoKey == [m \in {} |-> 0]     \* NodeRecord.key before the first compile: ""

Document == [in : SUBSET Node, ver : [Node -> Ver], bad : SUBSET Node]

SourcesIn(d, n) == Sources[n] \cap d.in

\* ExecGraph.ancestors: the least set holding n's sources and closed under sources.
Ancestors(d, n) ==
  {m \in d.in : \A S \in SUBSET d.in :
      /\ SourcesIn(d, n) \subseteq S
      /\ \A s \in S : SourcesIn(d, s) \subseteq S
      => m \in S}

\* The nodes `compile` puts in the graph: a node with a validation error, and
\* every node downstream of one, is left out.
Live(d) == {n \in d.in : ({n} \cup Ancestors(d, n)) \cap d.bad = {}}

\* Scheduler._compute_keys
KeyOf(d, n) == [m \in Ancestors(d, n) \cup {n} |-> d.ver[m]]

\* What a node call with parameters v and the given input values computes.
Computed(n, v, inputs) ==
  LET Known == UNION {DOMAIN x : x \in inputs}
      Seen(m) == {x[m] : x \in {y \in inputs : m \in DOMAIN y}}
  IN [m \in Known \cup {n} |->
        IF m = n THEN v
        ELSE IF \E w \in Ver : Seen(m) = {w} THEN CHOOSE w \in Ver : Seen(m) = {w}
        ELSE Mixed]

Store(c, k, x) == [j \in DOMAIN c \cup {k} |-> IF j = k THEN x ELSE c[j]]
-----------------------------------------------------------------------------
(* Records, tasks, runs *)

NodeState == {"none", "idle", "dirty", "running", "done", "error", "cancelled"}
Record == [state : NodeState, key : Key, stale : BOOLEAN]
NoRecord == [state |-> "none", key |-> NoKey, stale |-> FALSE]
IdleRecord == [state |-> "idle", key |-> NoKey, stale |-> FALSE]
DirtyRecord(k) == [state |-> "dirty", key |-> k, stale |-> FALSE]

\* ver and src are the parameters and edges of the ExecNode the task was given;
\* val is what it is computing, key the key_at_start of its record (or, once the
\* record was deleted under it, the key that record still has), own whether its
\* record is still the one in `records`, cancel whether Task.cancel was called.
Task == [ph : {"none", "created", "running"}, ver : Ver, src : SUBSET Node,
         val : Val, key : Key, own : BOOLEAN, cancel : BOOLEAN]
NoTask == [ph |-> "none", ver |-> 0, src |-> {}, val |-> NoKey, key |-> NoKey,
           own |-> FALSE, cancel |-> FALSE]
NewTask(n) == [NoTask EXCEPT !.ph = "created", !.ver = doc.ver[n],
                             !.src = SourcesIn(doc, n)]

\* ph is where the run stands: "start" before the first pass, "scan" inside a
\* pass (todo: the pending nodes it has not looked at), "wait" in asyncio.wait,
\* "end" once the plan is worked off, "drain" after the wall-clock limit.
\* kill: the debounce task that is executing this run was cancelled.
\* touched and suspect only observe: whether an outside event hit the run, and
\* the nodes a pass found failed or cancelled while they still had to run, or
\* with an earlier task that is being cancelled or has lost its record.
Phase == {"off", "start", "scan", "wait", "end", "drain"}
Run == [ph : Phase, auto : BOOLEAN, plan : SUBSET Node, pending : SUBSET Node,
        todo : SUBSET Node, skipped : SUBSET Node, gated : SUBSET Node,
        active : SUBSET Node, abort : BOOLEAN, kill : BOOLEAN,
        touched : BOOLEAN, suspect : SUBSET Node]
NoRun == [ph |-> "off", auto |-> FALSE, plan |-> {}, pending |-> {}, todo |-> {},
          skipped |-> {}, gated |-> {}, active |-> {}, abort |-> FALSE,
          kill |-> FALSE, touched |-> FALSE, suspect |-> {}]
Request == [auto : BOOLEAN, targets : SUBSET Node]

AtAwait == run.ph # "scan"
InRun == run.ph # "off"
Alive(n) == task[n].ph # "none"
Dying(n) == task[n].cancel \/ (task[n].ph = "running" /\ ~task[n].own)
Failed(r) == r.state \in {"error", "cancelled"}
Touched(r) == IF r.ph = "off" THEN r ELSE [r EXCEPT !.touched = TRUE]
-----------------------------------------------------------------------------
(* The debounce *)

\* Mutant of WithoutAuto: drops whichever run has waited longest.
WithoutAutoHead(q) == IF \E i \in DOMAIN q : q[i].auto THEN Tail(q) ELSE q

Autos(q) == {i \in DOMAIN q : q[i].auto}
WithoutAuto(q) == IF Autos(q) = {} THEN q ELSE RemoveAt(q, CHOOSE i \in Autos(q) : TRUE)

\* _cancel_debounce: the task may be asleep, waiting for the run lock, or be the
\* very task that is executing the auto-run; the latter then takes CancelledError.
DebounceDropped(q) == IF deb = "queued" THEN WithoutAuto(q) ELSE q
RunKilled(r) == [r EXCEPT !.kill = @ \/ deb = "running"]

AnyDirty(r) == \E n \in Node : r[n].state = "dirty"

Init ==
  /\ doc \in [in : {Node}, ver : {[n \in Node |-> 0]}, bad : {{}}]
  /\ rec = [n \in Node |-> DirtyRecord(KeyOf(doc, n))]
  /\ task = [n \in Node |-> NoTask]
  /\ cache = [k \in {} |-> NoKey]
  /\ auto \in BOOLEAN
  /\ deb = IF auto /\ Node # {} THEN "sleep" ELSE "off"
  /\ queue = <<>>
  /\ run = NoRun
  /\ edits = 0
  /\ asked = 0

\* `_debounced` after its sleep: it goes for the lock, unless auto-run is off.
DebounceFires ==
  /\ AtAwait
  /\ deb = "sleep"
  /\ IF auto
     THEN /\ deb' = "queued"
          /\ queue' = Append(queue, [auto |-> TRUE, targets |-> {}])
     ELSE /\ deb' = "off"
          /\ UNCHANGED queue
  /\ UNCHANGED <<doc, rec, task, cache, auto, run, edits, asked>>

Outside(op) ==
  /\ AtAwait
  /\ op \in Ops
  /\ edits < MaxEdits
  /\ edits' = edits + 1
-----------------------------------------------------------------------------
(* Saving a document: Scheduler.update *)

\* The record of n once d is compiled: a changed key (or a node that was idle)
\* makes it dirty, a node that no longer compiles is idle, a removed one is gone.
Recompiled(d, n) ==
  IF n \in Live(d)
  THEN IF rec[n].state \in {"none", "idle"} \/ rec[n].key # KeyOf(d, n)
       THEN DirtyRecord(KeyOf(d, n))
       ELSE rec[n]
  ELSE IF n \notin d.in THEN NoRecord
  ELSE IF rec[n].state = "idle" THEN rec[n] ELSE IdleRecord

\* update cancels the task of a running node whose record changes; the task of
\* a removed node is left running with a record nobody can find any more.
Superseded(d, n) ==
  IF n \in d.in
  THEN IF /\ rec[n].state = "running"
          /\ Recompiled(d, n) # rec[n]
          /\ Alive(n)
       THEN [task[n] EXCEPT !.cancel = TRUE]
       ELSE task[n]
  ELSE IF task[n].ph = "running" /\ task[n].own
       THEN [task[n] EXCEPT !.own = FALSE, !.key = rec[n].key]
       ELSE task[n]

Update(d) ==
  LET compiled == [n \in Node |-> Recompiled(d, n)]
      arm == auto /\ AnyDirty(compiled)
  IN /\ doc' = d
     /\ rec' = compiled
     /\ task' = [n \in Node |-> Superseded(d, n)]
     /\ deb' = IF arm THEN "sleep" ELSE deb
     /\ queue' = IF arm THEN DebounceDropped(queue) ELSE queue
     /\ run' = Touched(IF arm THEN RunKilled(run) ELSE run)
     /\ UNCHANGED <<cache, auto, asked>>

EditParam(n) ==
  /\ Outside("edit")
  /\ n \in doc.in
  /\ \E v \in Ver \ {doc.ver[n]} : Update([doc EXCEPT !.ver[n] = v])

\* A save that changes no key: a moved or renamed node, a layout.
SaveUnchanged == Outside("save") /\ Update(doc)

RemoveOrRestore(n) ==
  /\ Outside("remove")
  /\ Update([doc EXCEPT !.in = IF n \in @ THEN @ \ {n} ELSE @ \cup {n}])

BreakOrRepair(n) ==
  /\ Outside("invalid")
  /\ n \in doc.in
  /\ Update([doc EXCEPT !.bad = IF n \in @ THEN @ \ {n} ELSE @ \cup {n}])

\* set_auto_run: off cancels the debounce, on arms it when something is dirty.
SetAutoRun(on) ==
  /\ Outside("switch")
  /\ auto' = on
  /\ IF on => AnyDirty(rec)
     THEN /\ deb' = IF on THEN "sleep" ELSE "off"
          /\ queue' = DebounceDropped(queue)
          /\ run' = Touched(RunKilled(run))
     ELSE UNCHANGED <<deb, queue, run>>
  /\ UNCHANGED <<doc, rec, task, cache, asked>>
-----------------------------------------------------------------------------
(* Runs: start_run, run, _plan *)

RequestRun(t) ==
  /\ AtAwait
  /\ asked < MaxRequests
  /\ asked' = asked + 1
  /\ queue' = Append(queue, [auto |-> FALSE, targets |-> t])
  /\ UNCHANGED <<doc, rec, task, cache, auto, deb, run, edits>>

Leaves(d) == {n \in Live(d) : \A m \in Live(d) : n \notin Sources[m]}

\* _plan: the targets (or every leaf) and their ancestors, minus what is done
\* and still in memory; a done node whose value is only on disk is planned.
Plan(targets, onDisk) ==
  LET roots == IF targets = {} THEN Leaves(doc) ELSE targets \cap Live(doc)
      wanted == roots \cup UNION {Ancestors(doc, n) : n \in roots}
  IN {n \in wanted : ~ (/\ rec[n].state = "done"
                        /\ rec[n].key \in DOMAIN cache
                        /\ n \notin onDisk)}

BeginRun ==
  /\ ~InRun
  /\ queue # <<>>
  /\ \E onDisk \in IF "disk" \in Ops THEN SUBSET Node ELSE {{}} :
       LET plan == Plan(Head(queue).targets, onDisk)
       IN run' = [NoRun EXCEPT
            !.ph = "start",
            !.auto = Head(queue).auto,
            !.plan = plan,
            !.pending = plan]
  /\ queue' = Tail(queue)
  /\ deb' = IF Head(queue).auto THEN "running" ELSE deb
  /\ UNCHANGED <<doc, rec, task, cache, auto, edits, asked>>
-----------------------------------------------------------------------------
(* A pass of _execute_plan over the pending nodes *)

\* The pass starts when the run does and whenever one of its tasks has ended.
\* An aborted run first gives its pending nodes back as dirty, up to one whose
\* record is gone: that lookup raises KeyError and ends the run where it stands.
Forgotten == {n \in run.pending : rec[n].state = "none"}

BeginPass ==
  /\ \/ run.ph = "start"
     \/ run.ph = "wait" /\ \E n \in run.active : ~Alive(n)
  /\ LET kept == IF run.abort THEN {} ELSE run.pending
         running == {n \in run.active : Alive(n)}
     IN run' = IF run.abort /\ Forgotten # {}
               THEN [run EXCEPT !.ph = "end"]
               ELSE [run EXCEPT !.ph = "scan", !.active = running,
                                !.pending = kept, !.todo = kept,
                                !.suspect = @ \cup {n \in kept : Failed(rec[n])}]
  /\ rec' = [n \in Node |->
               IF run.abort /\ n \in run.pending /\ \A m \in Forgotten : n < m
               THEN [rec[n] EXCEPT !.state = "dirty"] ELSE rec[n]]
  /\ UNCHANGED <<doc, task, cache, auto, deb, queue, edits, asked>>

\* Mutant of DepFailed: takes an input that is still being computed for lost.
DepUnfinished(n) ==
  \E d \in SourcesIn(doc, n) \cap run.plan :
     Failed(rec[d]) \/ rec[d].state = "running" \/ d \in run.skipped \cup run.gated

\* Mutant of Gated: an auto-run lets a node through that was stale already.
GatedOnce(n) == run.auto /\ n \in Expensive /\ ~rec[n].stale

\* The dependencies the pass looks at: those that are in the plan themselves.
Deps(n) == SourcesIn(doc, n) \cap run.plan
DepFailed(n) == \E d \in Deps(n) : \/ Failed(rec[d])
                                   \/ d \in run.skipped \cup run.gated
DepPending(n) == \E d \in Deps(n) : rec[d].state # "done"
Gated(n) == run.auto /\ n \in Expensive

\* n is the next node of the pass: pending nodes are taken in topological order.
Scanning(n) == run.ph = "scan" /\ n \in run.todo /\ \A m \in run.todo : n <= m
Settled(r, n) == [r EXCEPT !.todo = @ \ {n}, !.pending = @ \ {n},
                           !.suspect = IF Dying(n) THEN @ \cup {n} ELSE @]
PassUnchanged == UNCHANGED <<doc, cache, auto, deb, queue, edits, asked>>

\* No longer in the graph.
DropNode(n) ==
  /\ Scanning(n) /\ n \notin Live(doc)
  /\ run' = Settled(run, n)
  /\ UNCHANGED <<rec, task>> /\ PassUnchanged

\* An input will not arrive in this run; a cost-gated one leaves the node stale.
SkipNode(n) ==
  /\ Scanning(n) /\ n \in Live(doc) /\ DepFailed(n)
  /\ run' = [Settled(run, n) EXCEPT !.skipped = @ \cup {n}]
  /\ rec' = IF \E d \in Deps(n) : d \in run.gated \/ rec[d].stale
            THEN [rec EXCEPT ![n].stale = TRUE] ELSE rec
  /\ UNCHANGED task /\ PassUnchanged

\* An input is still being computed: look again after the next task ends.
DeferNode(n) ==
  /\ Scanning(n) /\ n \in Live(doc) /\ ~DepFailed(n) /\ DepPending(n)
  /\ run' = [run EXCEPT !.todo = @ \ {n}]
  /\ UNCHANGED <<rec, task>> /\ PassUnchanged

Ready(n) == Scanning(n) /\ n \in Live(doc) /\ ~DepFailed(n) /\ ~DepPending(n)

\* _finish_cached
TakeCached(n) ==
  /\ Ready(n) /\ rec[n].key \in DOMAIN cache
  /\ run' = Settled(run, n)
  /\ rec' = [rec EXCEPT ![n].state = "done", ![n].stale = FALSE]
  /\ UNCHANGED task /\ PassUnchanged

GateNode(n) ==
  /\ Ready(n) /\ rec[n].key \notin DOMAIN cache /\ Gated(n)
  /\ run' = [Settled(run, n) EXCEPT !.gated = @ \cup {n}]
  /\ rec' = [rec EXCEPT ![n].stale = TRUE]
  /\ UNCHANGED task /\ PassUnchanged

\* _launch: the node's unfinished task is joined, else one is created.  The
\* record is not touched before the task takes its first step.
LaunchNode(n) ==
  /\ Ready(n) /\ rec[n].key \notin DOMAIN cache /\ ~Gated(n)
  /\ run' = [Settled(run, n) EXCEPT !.active = @ \cup {n}]
  /\ task' = IF Alive(n) THEN task ELSE [task EXCEPT ![n] = NewTask(n)]
  /\ UNCHANGED rec /\ PassUnchanged

\* Mutant of EndPass: waits although no task is active.
EndPassWaits ==
  /\ run.ph = "scan" /\ run.todo = {}
  /\ run' = [run EXCEPT !.ph = "wait"]
  /\ UNCHANGED <<rec, task>> /\ PassUnchanged

EndPass ==
  /\ run.ph = "scan" /\ run.todo = {}
  /\ run' = [run EXCEPT !.ph = IF run.active = {} THEN "end" ELSE "wait"]
  /\ UNCHANGED <<rec, task>> /\ PassUnchanged

Pass == \/ BeginPass \/ EndPass
        \/ \E n \in Node : \/ DropNode(n) \/ SkipNode(n) \/ DeferNode(n)
                           \/ TakeCached(n) \/ GateNode(n) \/ LaunchNode(n)
-----------------------------------------------------------------------------
(* The end of a run: the finally block of run *)

\* _final_status
Status(r) ==
  LET states == {rec[n].state : n \in r.plan}
  IN IF r.abort \/ "cancelled" \in states THEN "cancelled"
     ELSE IF "error" \in states THEN "error" ELSE "done"

\* The run is over, and with it the debounce task if that was executing it.
RunOver ==
  /\ run' = NoRun
  /\ deb' = IF deb = "running" THEN "off" ELSE deb
  /\ UNCHANGED <<doc, rec, task, cache, auto, queue, edits, asked>>

FinishRun == run.ph = "end" /\ RunOver

\* CancelledError reaches the auto-run whose debounce task was cancelled.  Its
\* node tasks are tasks of their own and go on; those just created have taken
\* their first step by now, they were scheduled before the cancellation.
KillRun ==
  /\ InRun /\ AtAwait /\ run.kill
  /\ \A n \in Node : task[n].ph # "created"
  /\ RunOver

\* run_timeout_s: the run is aborted, every task cancelled, and awaited.
LimitReached ==
  /\ Outside("limit")
  /\ run.ph \in {"start", "wait"}
  /\ run' = [run EXCEPT !.ph = "drain", !.abort = TRUE, !.touched = TRUE]
  /\ task' = [n \in Node |-> [task[n] EXCEPT !.cancel = Alive(n)]]
  /\ UNCHANGED <<doc, rec, cache, auto, deb, queue, asked>>

Drained ==
  /\ run.ph = "drain"
  /\ \A n \in Node : ~Alive(n)
  /\ RunOver
-----------------------------------------------------------------------------
(* Node tasks: _execute_node *)

NodeUnchanged == UNCHANGED <<doc, auto, deb, queue, run, edits, asked>>

Runnable(n, ph) == AtAwait /\ task[n].ph = ph

\* Cancelled before its first step, or its record deleted by then: the coroutine
\* body never runs, or fails at its first line, and nothing changes.
TaskNeverStarts(n) ==
  /\ Runnable(n, "created")
  /\ task[n].cancel \/ rec[n].state = "none"
  /\ task' = [task EXCEPT ![n] = NoTask]
  /\ UNCHANGED <<rec, cache>> /\ NodeUnchanged

\* _upstream_value: what the cache holds under the source's current key.
InputMissing(n) == \E s \in task[n].src : \/ rec[s].key = NoKey
                                         \/ rec[s].key \notin DOMAIN cache
InputValues(n) == {cache[rec[s].key] : s \in task[n].src}

\* Up to its first await: queued, running, inputs resolved, the node called.
TaskStarts(n) ==
  /\ Runnable(n, "created") /\ ~task[n].cancel /\ rec[n].state # "none"
  /\ IF InputMissing(n)
     THEN /\ rec' = [rec EXCEPT ![n].state = "error", ![n].stale = FALSE]
          /\ task' = [task EXCEPT ![n] = NoTask]
     ELSE /\ rec' = [rec EXCEPT ![n].state = "running", ![n].stale = FALSE]
          /\ task' = [task EXCEPT ![n].ph = "running", ![n].own = TRUE,
                                  ![n].key = rec[n].key,
                                  ![n].val = Computed(n, task[n].ver, InputValues(n))]
  /\ UNCHANGED cache /\ NodeUnchanged

\* The task leaves its mark on its own record, which may not be in `records`.
Mark(n, state) == IF task[n].own THEN [rec EXCEPT ![n].state = state] ELSE rec

\* The output is stored under the key the record has by now.
StoreKey(n) == IF task[n].own THEN rec[n].key ELSE task[n].key

TaskSucceeds(n) ==
  /\ Runnable(n, "running") /\ ~task[n].cancel
  /\ cache' = Store(cache, StoreKey(n), task[n].val)
  /\ rec' = Mark(n, "done")
  /\ task' = [task EXCEPT ![n] = NoTask]
  /\ NodeUnchanged

TaskFails(n) ==
  /\ "fail" \in Ops
  /\ Runnable(n, "running") /\ ~task[n].cancel
  /\ rec' = Mark(n, "error")
  /\ task' = [task EXCEPT ![n] = NoTask]
  /\ UNCHANGED cache /\ NodeUnchanged

\* Mutant of TaskCancelled: only a superseded node's record is given back.
TaskCancelledQuietly(n) ==
  /\ Runnable(n, "running") /\ task[n].cancel
  /\ rec' = IF rec[n].key # task[n].key THEN Mark(n, "dirty") ELSE rec
  /\ task' = [task EXCEPT ![n] = NoTask]
  /\ UNCHANGED cache /\ NodeUnchanged

\* CancelledError: superseded by an edit (the key changed), or cancelled.
TaskCancelled(n) ==
  /\ Runnable(n, "running") /\ task[n].cancel
  /\ rec' = Mark(n, IF rec[n].key # task[n].key THEN "dirty" ELSE "cancelled")
  /\ task' = [task EXCEPT ![n] = NoTask]
  /\ UNCHANGED cache /\ NodeUnchanged

TaskStep(n) == \/ TaskNeverStarts(n) \/ TaskStarts(n)
               \/ TaskSucceeds(n) \/ TaskFails(n) \/ TaskCancelled(n)
-----------------------------------------------------------------------------
(* Cancellation by the user, and what others do to the shared cache *)

\* Mutant of CancelTasks: overlooks tasks that have not taken their first step.
CancelRunning(S) == [n \in Node |-> IF n \in S /\ task[n].ph = "running"
                                    THEN [task[n] EXCEPT !.cancel = TRUE] ELSE task[n]]

CancelTasks(S) == [n \in Node |-> IF n \in S /\ Alive(n)
                                  THEN [task[n] EXCEPT !.cancel = TRUE] ELSE task[n]]

\* cancel: the current run is aborted and every node task cancelled.
CancelRun ==
  /\ Outside("cancel")
  /\ InRun
  /\ run' = [run EXCEPT !.abort = TRUE, !.touched = TRUE]
  /\ task' = CancelTasks(Node)
  /\ UNCHANGED <<doc, rec, cache, auto, deb, queue, asked>>

CancelNode(n) ==
  /\ Outside("stop")
  /\ Alive(n)
  /\ task' = CancelTasks({n})
  /\ run' = Touched(run)
  /\ UNCHANGED <<doc, rec, cache, auto, deb, queue, asked>>

\* OutputCache evicts an entry from memory and disk.
Evict ==
  /\ Outside("evict")
  /\ \E k \in DOMAIN cache : cache' = [j \in DOMAIN cache \ {k} |-> cache[j]]
  /\ run' = Touched(run)
  /\ UNCHANGED <<doc, rec, task, auto, deb, queue, asked>>

\* Another scheduler on the same cache (a batch row) stores a node's output.
SharedStore(n) ==
  /\ Outside("share")
  /\ n \in Live(doc)
  /\ cache' = Store(cache, rec[n].key, rec[n].key)
  /\ run' = Touched(run)
  /\ UNCHANGED <<doc, rec, task, auto, deb, queue, asked>>
-----------------------------------------------------------------------------
UserStep ==
  \/ SaveUnchanged \/ CancelRun \/ Evict
  \/ \E on \in BOOLEAN : SetAutoRun(on)
  \/ \E t \in TargetSets : RequestRun(t)
  \/ \E n \in Node : \/ EditParam(n) \/ RemoveOrRestore(n) \/ BreakOrRepair(n)
                     \/ CancelNode(n) \/ SharedStore(n)

RunStep == BeginRun \/ Pass \/ FinishRun \/ KillRun \/ Drained

Next == \/ UserStep \/ DebounceFires \/ LimitReached \/ RunStep
        \/ \E n \in Node : TaskStep(n)

\* The event loop serves every ready callback, and node calls return.
Fairness == /\ WF_vars(DebounceFires)
            /\ WF_vars(RunStep)
            /\ \A n \in Node : WF_vars(TaskStep(n))

Spec == Init /\ [][Next]_vars
FairSpec == Spec /\ Fairness
-----------------------------------------------------------------------------
(* Properties *)

TypeOK ==
  /\ doc \in Document
  /\ rec \in [Node -> Record]
  /\ task \in [Node -> Task]
  /\ DOMAIN cache \subseteq Key
  /\ \A k \in DOMAIN cache : cache[k] \in Val
  /\ auto \in BOOLEAN
  /\ deb \in {"off", "sleep", "queued", "running"}
  /\ queue \in Seq(Request)
  /\ run \in Run
  /\ edits \in Nat
  /\ asked \in Nat

\* A node shown as running has a live task that will move it on: edits, removals
\* and restorations, cancels, time limits and killed auto-runs never leave a
\* record "running" with nothing behind it (records, _tasks, update, _cancel_node).
RunningHasTask ==
  \A n \in Node : rec[n].state = "running" => task[n].ph = "running" /\ task[n].own

\* However edits, switches and runs interleave, at most one auto-run waits for
\* the lock, and `_debounce` points at it; an auto-run holding the lock that it
\* no longer points at has been cancelled (_arm_debounce, _cancel_debounce, run).
OneAutoRun ==
  /\ \A i, j \in DOMAIN queue : queue[i].auto /\ queue[j].auto => i = j
  /\ deb = "queued" <=> \E i \in DOMAIN queue : queue[i].auto
  /\ deb = "running" <=> InRun /\ run.auto /\ ~run.kill

\* Once a run is aborted (cancel, the wall-clock limit), no node starts executing
\* before it is over (cancel, _execute_plan's abort branch, _launch).
AbortedRunStartsNothing ==
  [][run.abort => \A n \in Node :
        rec'[n].state = "running" => rec[n].state = "running"]_vars

\* A run that nothing outside disturbed and that reports "done" has left every
\* node of its plan done -- or stale behind the cost gate of an auto-run -- except
\* downstream of a node that entered the run failed, cancelled or dying.
UndisturbedRunCompletes ==
  [][(/\ run.ph = "end" /\ run'.ph = "off"
      /\ ~run.touched /\ Status(run) = "done")
     => \A n \in run.plan :
          \/ rec[n].state = "done"
          \/ run.auto /\ rec[n].stale
          \/ ({n} \cup Ancestors(doc, n)) \cap run.suspect # {}]_vars

\* As long as the user never asks for a run, no expensive node and nothing
\* downstream of one is executed (the cost gate of _execute_plan).
GatedUntilAsked ==
  asked = 0 =>
    \A n \in Node : ({n} \cup Ancestors(doc, n)) \cap Expensive # {}
                    => ~Alive(n) /\ rec[n].state \in {"none", "idle", "dirty"}

\* Every run that was accepted is eventually over, and the engine comes to rest
\* once the user does: no task, queue, lock or debounce waits on another forever.
ComesToRest ==
  <>[](deb = "off" /\ queue = <<>> /\ ~InRun /\ \A n \in Node : ~Alive(n))

\* The run lock, the debounce and the cancellations together implement RunQueue.
Runs == INSTANCE RunQueue
        WITH Targets <- TargetSets,
             waiting <- queue,
             holder <- IF ~InRun THEN "none" ELSE IF run.auto THEN "auto" ELSE "explicit"
ImplementsRunQueue == Runs!Spec
-----------------------------------------------------------------------------
(* What the documentation says and the code does not do *)

\* "A result is stored under the hash of everything that produced it".
StoredUnderItsKey == \A k \in DOMAIN cache : cache[k] = k

=============================================================================
