------------------------------ MODULE LazyInputs ------------------------------
(***************************************************************************)
(* Lazy inputs (backend/src/astro_canvas/engine/scheduler.py, its "lazy    *)
(* inputs" section, engine/context.py) on the thread pool of the server    *)
(* (engine/executors.py).                                                  *)
(*                                                                         *)
(* A node that is called with a lazy input asks for it from its thread:    *)
(* `ctx.needs` has the event loop run `_ensure`, which launches what the   *)
(* input depends on and awaits it, while the thread blocks -- and keeps    *)
(* its place in the pool that the launched nodes need as well.             *)
(* Cancelling a node ends its task at once; its thread goes on, and may    *)
(* still ask.                                                              *)
(*                                                                         *)
(* Keys do not change here (no edits: Scheduler has them), every node is   *)
(* cheap, and the nodes of the plan do not feed one another.               *)
(***************************************************************************)
EXTENDS Integers, Sequences, FiniteSets, SequencesExt

CONSTANTS
  N,          \* number of nodes, numbered in topological order
  Sources,    \* Sources[n]: the nodes wired to n's ordinary inputs
  Lazy,       \* Lazy[n]: the nodes wired to its lazy inputs
  Plan,       \* the leaves the runs execute
  Threads,    \* ThreadExecutor's max_workers
  MaxRuns, MaxCancels, MaxFaults  \* bounds: runs, cancels, failed calls and evictions

Node == 1..N
Thread == 1..Threads

ASSUME LazyAssumption ==
  /\ N \in Nat /\ Threads \in Nat \ {0}
  /\ Sources \in [Node -> SUBSET Node] /\ Lazy \in [Node -> SUBSET Node]
  /\ \A n \in Node : \A s \in Sources[n] \cup Lazy[n] : s < n
  /\ Plan \subseteq Node
  /\ \A n \in Plan : Sources[n] = {} /\ \A m \in Node : n \notin Sources[m] \cup Lazy[m]
  /\ {MaxRuns, MaxCancels, MaxFaults} \subseteq Nat

VARIABLES
  state,    \* NodeRecord.state
  kept,     \* the nodes whose outputs are in the cache
  task,     \* Scheduler._tasks: the asyncio task of each node
  line,     \* the pool's queue of calls, oldest first
  thread,   \* what each thread of the pool does
  ensure,   \* the _ensure coroutine that serves each thread's question
  run,      \* the run in progress: the nodes it waits for
  runs, cancels, faults,
  calls     \* observer: how often each node was called

vars == <<state, kept, task, line, thread, ensure, run, runs, cancels, faults, calls>>
bounds == <<runs, cancels, faults>>

NoTask == [ph |-> "none", cancel |-> FALSE]
\* mine: the node's task still awaits this call; left: the lazy inputs it may ask for.
IdleThread == [ph |-> "idle", node |-> 0, mine |-> FALSE, left |-> {}]
\* src is the node asked for, on the node whose task it awaits.
NoEnsure == [ph |-> "none", src |-> 0, on |-> 0]
NoRun == [on |-> FALSE, active |-> {}, abort |-> FALSE]

Alive(n) == task[n].ph # "none"

\* ExecGraph.ancestors, over the ordinary inputs, and the node itself.
Needed ==
  [n \in Node |-> {m \in Node : \A S \in SUBSET Node :
      n \in S /\ (\A s \in S : Sources[s] \subseteq S) => m \in S}]

Init ==
  /\ state = [n \in Node |-> "dirty"] /\ kept = {}
  /\ task = [n \in Node |-> NoTask]
  /\ line = <<>> /\ thread = [t \in Thread |-> IdleThread]
  /\ ensure = [t \in Thread |-> NoEnsure]
  /\ run = NoRun
  /\ runs = 0 /\ cancels = 0 /\ faults = 0
  /\ calls = [n \in Node |-> 0]
-----------------------------------------------------------------------------
(* Runs *)

\* Mutant of Launched: a node's unfinished task is replaced, not joined.
LaunchedAgain(tasks, S) ==
  [n \in Node |-> IF n \in S THEN [NoTask EXCEPT !.ph = "created"] ELSE tasks[n]]

\* _launch, for the nodes of S that have no unfinished task.
Launched(tasks, S) ==
  [n \in Node |-> IF n \in S /\ tasks[n].ph = "none" THEN [NoTask EXCEPT !.ph = "created"]
                  ELSE tasks[n]]

\* _plan and the one pass: what is done and in memory is left out, what is in the
\* cache is taken from it, the rest is launched or its unfinished task joined.
BeginRun ==
  /\ ~run.on /\ runs < MaxRuns
  /\ runs' = runs + 1
  /\ LET wanted == {n \in Plan : ~(state[n] = "done" /\ n \in kept)}
     IN /\ state' = [n \in Node |-> IF n \in wanted \cap kept THEN "done" ELSE state[n]]
        /\ task' = Launched(task, wanted \ kept)
        /\ run' = [on |-> TRUE, active |-> wanted \ kept, abort |-> FALSE]
  /\ UNCHANGED <<kept, line, thread, ensure, cancels, faults, calls>>

FinishRun ==
  /\ run.on /\ run.active = {}
  /\ run' = NoRun
  /\ UNCHANGED <<state, kept, task, line, thread, ensure, bounds, calls>>

\* cancel of the run: every task the scheduler knows, lazily launched or not.
CancelRun ==
  /\ run.on /\ cancels < MaxCancels
  /\ cancels' = cancels + 1
  /\ run' = [run EXCEPT !.abort = TRUE]
  /\ task' = [n \in Node |-> [task[n] EXCEPT !.cancel = Alive(n)]]
  /\ UNCHANGED <<state, kept, line, thread, ensure, runs, faults, calls>>

CancelNode(n) ==
  /\ Alive(n) /\ cancels < MaxCancels
  /\ cancels' = cancels + 1
  /\ task' = [task EXCEPT ![n].cancel = TRUE]
  /\ UNCHANGED <<state, kept, line, thread, ensure, run, runs, faults, calls>>

Evict(n) ==
  /\ n \in kept /\ faults < MaxFaults
  /\ faults' = faults + 1
  /\ kept' = kept \ {n}
  /\ UNCHANGED <<state, task, line, thread, ensure, run, runs, cancels, calls>>
-----------------------------------------------------------------------------
(* Node tasks: _execute_node and ThreadExecutor.run *)

\* Mutant of TaskEnds: only the run is told.
TaskEndsUnseen(n, how) ==
  /\ task' = [task EXCEPT ![n] = NoTask]
  /\ run' = [run EXCEPT !.active = @ \ {n}]
  /\ UNCHANGED ensure

\* The end of n's task wakes the run and every _ensure that awaits it; a task that
\* is cancelled before its first step makes them raise CancelledError.
TaskEnds(n, how) ==
  /\ task' = [task EXCEPT ![n] = NoTask]
  /\ run' = [run EXCEPT !.active = @ \ {n}]
  /\ ensure' = [t \in Thread |-> IF ensure[t].ph = "await" /\ ensure[t].on = n
                                 THEN [ensure[t] EXCEPT !.ph = how] ELSE ensure[t]]

TaskNeverStarts(n) ==
  /\ task[n].ph = "created" /\ task[n].cancel
  /\ TaskEnds(n, "broken")
  /\ UNCHANGED <<state, kept, line, thread, bounds, calls>>

\* The ordinary inputs are read, and the call goes to the pool.
TaskStarts(n) ==
  /\ task[n].ph = "created" /\ ~task[n].cancel
  /\ IF Sources[n] \subseteq kept
     THEN /\ state' = [state EXCEPT ![n] = "running"]
          /\ task' = [task EXCEPT ![n].ph = "calling"]
          /\ line' = Append(line, n)
          /\ UNCHANGED <<run, ensure>>
     ELSE /\ state' = [state EXCEPT ![n] = "error"]
          /\ TaskEnds(n, "woken")
          /\ UNCHANGED line
  /\ UNCHANGED <<kept, thread, bounds, calls>>

Queued(n) == {i \in DOMAIN line : line[i] = n}
Unqueued(n) ==
  IF Queued(n) = {} THEN line ELSE RemoveAt(line, CHOOSE i \in Queued(n) : TRUE)

\* CancelledError: a call still in the queue is taken out of it, a thread that has
\* begun with it is left to itself.
TaskCancelled(n) ==
  /\ task[n].ph = "calling" /\ task[n].cancel
  /\ state' = [state EXCEPT ![n] = "cancelled"]
  /\ TaskEnds(n, "woken")
  /\ line' = Unqueued(n)
  /\ thread' = [t \in Thread |-> IF thread[t].node = n THEN [thread[t] EXCEPT !.mine = FALSE]
                                 ELSE thread[t]]
  /\ UNCHANGED <<kept, bounds, calls>>
-----------------------------------------------------------------------------
(* The pool *)

\* The idle threads are alike: the first one takes the oldest call.
ThreadTakes(t) ==
  /\ thread[t].ph = "idle" /\ \A u \in Thread : u < t => thread[u].ph # "idle"
  /\ line # <<>>
  /\ LET n == Head(line)
     IN /\ thread' = [thread EXCEPT ![t] = [ph |-> "computing", node |-> n, mine |-> TRUE,
                                            left |-> Lazy[n]]]
        /\ calls' = [calls EXCEPT ![n] = @ + 1]
  /\ line' = Tail(line)
  /\ UNCHANGED <<state, kept, task, ensure, run, bounds>>

\* The call is over.  Its task, unless it was cancelled, stores and marks the node.
CallOver(t, outcome) ==
  LET n == thread[t].node
  IN /\ thread' = [thread EXCEPT ![t] = IdleThread]
     /\ IF thread[t].mine
        THEN /\ ~task[n].cancel
             /\ state' = [state EXCEPT ![n] = outcome]
             /\ kept' = IF outcome = "done" THEN kept \cup {n} ELSE kept
             /\ task' = [task EXCEPT ![n] = NoTask]
             /\ run' = [run EXCEPT !.active = @ \ {n}]
             /\ ensure' = [u \in Thread |->
                  IF u = t THEN NoEnsure
                  ELSE IF ensure[u].ph = "await" /\ ensure[u].on = n
                  THEN [ensure[u] EXCEPT !.ph = "woken"] ELSE ensure[u]]
        ELSE /\ UNCHANGED <<state, kept, task, run>>
             /\ ensure' = [ensure EXCEPT ![t] = NoEnsure]
     /\ UNCHANGED <<line, runs, cancels, calls>>

CallReturns(t) ==
  /\ thread[t].ph = "computing"
  /\ CallOver(t, "done") /\ UNCHANGED faults

CallFails(t) ==
  /\ thread[t].ph = "computing" /\ faults < MaxFaults
  /\ CallOver(t, "error") /\ faults' = faults + 1

\* ctx.needs, from the thread: nobody looks at cancel_event.
CallAsks(t) ==
  /\ thread[t].ph = "computing"
  /\ \E s \in thread[t].left :
       /\ thread' = [thread EXCEPT ![t].ph = "blocked", ![t].left = @ \ {s}]
       /\ ensure' = [ensure EXCEPT ![t] = [ph |-> "walk", src |-> s, on |-> 0]]
  /\ UNCHANGED <<state, kept, task, line, run, bounds, calls>>

\* future.result(): the input is there, or _ensure raised and so does the node; a
\* cancelled _ensure makes the node's own task end as cancelled.
CallAnswered(t) ==
  /\ thread[t].ph = "blocked" /\ ensure[t].ph = "found"
  /\ thread' = [thread EXCEPT ![t].ph = "computing"]
  /\ ensure' = [ensure EXCEPT ![t] = NoEnsure]
  /\ UNCHANGED <<state, kept, task, line, run, bounds, calls>>

CallUnanswered(t) ==
  /\ thread[t].ph = "blocked" /\ ensure[t].ph \in {"missing", "broken"}
  /\ CallOver(t, IF ensure[t].ph = "missing" THEN "error" ELSE "cancelled")
  /\ UNCHANGED faults
-----------------------------------------------------------------------------
(* _ensure *)

\* The loop over what s needs stops at the first that has no outputs in the cache,
\* or has an unfinished task; a kept one that has neither is marked done in passing.
Stops(a) == ~(a \in kept /\ (state[a] = "done" \/ ~Alive(a)))

Walk(t, rest) ==
  LET s == ensure[t].src
      open == {a \in rest : Stops(a)}
      first == CHOOSE a \in open : \A b \in open : a <= b
      passed == IF open = {} THEN rest ELSE {a \in rest : a < first}
  IN /\ state' = [n \in Node |-> IF n \in passed THEN "done" ELSE state[n]]
     /\ IF open = {}
        THEN /\ ensure' = [ensure EXCEPT ![t].ph = IF s \in kept THEN "found" ELSE "missing"]
             /\ UNCHANGED task
        ELSE /\ ensure' = [ensure EXCEPT ![t] = [ph |-> "await", src |-> s, on |-> first]]
             /\ task' = Launched(task, {first})

EnsureWalks(t) ==
  /\ ensure[t].ph = "walk"
  /\ Walk(t, Needed[ensure[t].src])
  /\ UNCHANGED <<kept, line, thread, run, bounds, calls>>

\* Mutant of EnsureResumes: a node that did not finish is awaited again.
EnsureResumesAgain(t) ==
  /\ ensure[t].ph = "woken"
  /\ IF state[ensure[t].on] = "done"
     THEN Walk(t, {a \in Needed[ensure[t].src] : a > ensure[t].on})
     ELSE /\ ensure' = [ensure EXCEPT ![t].ph = "await"]
          /\ UNCHANGED <<state, task>>
  /\ UNCHANGED <<kept, line, thread, run, bounds, calls>>

\* Past `await task`: the node it waited for must be done by now.
EnsureResumes(t) ==
  /\ ensure[t].ph = "woken"
  /\ IF state[ensure[t].on] = "done"
     THEN Walk(t, {a \in Needed[ensure[t].src] : a > ensure[t].on})
     ELSE /\ ensure' = [ensure EXCEPT ![t].ph = "missing"]
          /\ UNCHANGED <<state, task>>
  /\ UNCHANGED <<kept, line, thread, run, bounds, calls>>
-----------------------------------------------------------------------------
User == BeginRun \/ CancelRun \/ \E n \in Node : CancelNode(n) \/ Evict(n)
TaskStep(n) == TaskNeverStarts(n) \/ TaskStarts(n) \/ TaskCancelled(n)
ThreadStep(t) == \/ ThreadTakes(t) \/ CallReturns(t) \/ CallFails(t) \/ CallAsks(t)
                 \/ CallAnswered(t) \/ CallUnanswered(t)
EnsureStep(t) == EnsureWalks(t) \/ EnsureResumes(t)

SystemStep == \/ FinishRun
              \/ \E n \in Node : TaskStep(n)
              \/ \E t \in Thread : ThreadStep(t) \/ EnsureStep(t)

Next == User \/ SystemStep

Spec == Init /\ [][Next]_vars

\* The loop serves its callbacks, threads run, and node calls return: whatever the
\* user does or leaves, the server goes on as long as it can.
FairSpec == Spec /\ WF_vars(SystemStep)
-----------------------------------------------------------------------------
(* Properties *)

TypeOK ==
  /\ state \in [Node -> {"dirty", "running", "done", "error", "cancelled"}]
  /\ kept \subseteq Node
  /\ task \in [Node -> [ph : {"none", "created", "calling"}, cancel : BOOLEAN]]
  /\ line \in Seq(Node)
  /\ thread \in [Thread -> [ph : {"idle", "computing", "blocked"}, node : 0..N,
                            mine : BOOLEAN, left : SUBSET Node]]
  /\ ensure \in [Thread -> [ph : {"none", "walk", "await", "woken", "broken", "found", "missing"},
                            src : 0..N, on : 0..N]]
  /\ \A t \in Thread : /\ thread[t].ph # "idle" => thread[t].node # 0
                       /\ ensure[t].ph # "none" => ensure[t].src # 0
                       /\ ensure[t].ph \in {"await", "woken"} => ensure[t].on # 0
  /\ run \in [on : BOOLEAN, active : SUBSET Node, abort : BOOLEAN]
  /\ calls \in [Node -> Nat]
  /\ runs \in 0..MaxRuns /\ cancels \in 0..MaxCancels /\ faults \in 0..MaxFaults

EachCallHasAPlace ==
  \A n \in Node :
    Cardinality(Queued(n))
      + Cardinality({t \in Thread : thread[t].node = n /\ thread[t].mine})
    = IF task[n].ph = "calling" THEN 1 ELSE 0

\* Nobody waits for what has ended: the run and every _ensure await live tasks, and a
\* blocked thread has an _ensure that will answer it, also when its own node was
\* cancelled or what it waits for is cancelled before it began (_ensure, _execute_plan).
NobodyWaitsForNothing ==
  /\ \A n \in run.active : Alive(n)
  /\ \A t \in Thread : /\ thread[t].ph = "blocked" <=> ensure[t].ph # "none"
                       /\ ensure[t].ph = "await" => Alive(ensure[t].on)

ComputedOnce ==
  cancels + faults = 0 => \A n \in Node : calls[n] <= 1

\* A call that somebody awaits is in exactly one place, the pool's queue or a thread, and
\* a call nobody awaits any more is not queued, however calls are cancelled, joined and
\* launched again while a thread is still busy with an earlier one (ThreadExecutor.run,
\* _launch, _cancel_node).  And asked for by several threads, directly or on the way to
\* something else, over several runs, a node is called once -- unless a call failed or
\* was cancelled, or its outputs were evicted (_ensure).
EachCallIsSingle == EachCallHasAPlace /\ ComputedOnce

\* Every thread of the pool is blocked, and what they wait for is queued behind them.
AllBlocked == line # <<>> /\ \A t \in Thread : thread[t].ph = "blocked"
AtRest == ~run.on /\ \A t \in Thread : thread[t].ph = "idle"

\* Unless the pool is exhausted by threads that block each other, every run ends and
\* every thread comes back to the pool, whatever was cancelled, failed or evicted.
ComesToRest == <>[](AtRest \/ AllBlocked)
=============================================================================
