------------------------------- MODULE Runtime -------------------------------
(***************************************************************************)
(* One engine runtime (backend/src/astro_canvas/server/runtime.py) and the *)
(* requests that open, save and delete its workflows, switch its workspace *)
(* (server/workflows.py, workspace.py) and change what code is trusted     *)
(* (server/trust.py).                                                      *)
(*                                                                         *)
(* Handlers run on the event loop and interleave only at their awaits:     *)
(* closing schedulers and stopping the watcher.  The trust routes and the *)
(* pack routes are plain functions: each request runs on a thread of its   *)
(* own, and its recompile_all interleaves with everything, with that of    *)
(* another request and with the two halves of Scheduler.update on the loop *)
(* (the document is set and compiled with the trust decisions of the       *)
(* moment, and the graph is set).                                          *)
(*                                                                         *)
(* A document is its content; a scheduler is the number of its creation,   *)
(* and of one that has been dropped only its work is kept.                 *)
(* The watcher's, a run's and a debounce's own work is not modelled, and   *)
(* neither are the batch runner's part in a switch and a switch to the     *)
(* folder that is open.                                                    *)
(***************************************************************************)
EXTENDS Integers, Sequences, FiniteSets

CONSTANTS
  Folders,     \* workspace folders
  Home,        \* the one opened at start-up
  Flows,       \* workflow ids, the same in every folder
  Docs,        \* contents of a document
  Threads,     \* of the trust routes and the pack routes
  MaxMade,     \* bound on the schedulers created
  MaxSaves,    \* bound on the saved documents
  MaxTrust,    \* bound on the trust decisions of a folder
  MaxRequests  \* bound on the trust decisions, the switches, the deletions, the changes of packs
               \* and the documents that become unreadable, all together

NoDoc == 0
Unreadable == -1
ASSUME RuntimeAssumption ==
  /\ Home \in Folders /\ NoDoc \notin Docs /\ Unreadable \notin Docs
  /\ {MaxMade, MaxSaves, MaxTrust, MaxRequests} \subseteq Nat

VARIABLES
  folder,     \* the open workspace
  rows,       \* workflows table of each folder: the document and its hash (NoDoc: no row)
  newest,     \* workflow_versions: the document of the newest version
  trusted,    \* trust table of each folder: how many decisions it has seen
  open,       \* EngineRuntime.schedulers: workflow -> scheduler, 0 if it has none
  made,       \* the schedulers created so far
  loop,       \* the update the event loop is in the middle of
  thread,     \* what each thread is doing
  switches,   \* the switches begun: where each of them is
  deletes,    \* the deletions that wait for a scheduler to close
  watchers,   \* the watchers created: the folder, and whether it runs
  watcher,    \* EngineRuntime.watcher (0: None)
  saves, requests,
  crowded,    \* a request used a workflow between its closing and its dropping
  raced,      \* the schedulers two updates of which have overlapped since the last load that overlapped none
  owed        \* the decisions each workflow's graph must know: those there were when it was loaded,
              \* and those a trust route has made since

database == <<rows, newest, trusted>>
dict == <<open, made>>
watching == <<watchers, watcher>>
bounds == <<saves, requests>>
vars == <<folder, database, dict, loop, thread, switches, deletes, watching, bounds, crowded, raced, owed>>

NoRow == [doc |-> NoDoc, hash |-> NoDoc]
NoGraph == [doc |-> NoDoc, trust |-> 0]
NoUpdate == [scheduler |-> 0, graph |-> NoGraph]
NoRecompile == [pc |-> "idle", queue |-> {}, scheduler |-> 0, doc |-> NoDoc, graph |-> NoGraph]
Made(f) == [flow |-> f, folder |-> folder, doc |-> NoDoc, graph |-> NoGraph,
            work |-> {}]

Init ==
  /\ folder = Home
  /\ rows = [w \in Folders |-> [f \in Flows |-> NoRow]]
  /\ newest = [w \in Folders |-> [f \in Flows |-> NoDoc]]
  /\ trusted = [w \in Folders |-> 0]
  /\ open = [f \in Flows |-> 0] /\ made = <<>>
  /\ loop = NoUpdate /\ thread = [t \in Threads |-> NoRecompile]
  /\ switches = <<>> /\ deletes = {}
  /\ watchers = <<[folder |-> Home, running |-> TRUE]>> /\ watcher = 1
  /\ saves = 0 /\ requests = 0 /\ crowded = FALSE
  /\ raced = {} /\ owed = [f \in Flows |-> 0]

LoopIsFree == loop = NoUpdate
OneMore == requests < MaxRequests /\ requests' = requests + 1
Closing(s) == s.pc = "closing"
\* Between the closing of the workflow's scheduler and its dropping.
IsBeingDropped(f) ==
  \/ \E n \in DOMAIN switches : Closing(switches[n])
  \/ \E d \in deletes : d.flow = f

(***************************************************************************)
(* Scheduler.update.                                                       *)
(***************************************************************************)
Compiled(d, decisions) == [doc |-> d, trust |-> decisions[folder]]
Picked(i) == \E t \in Threads : thread[t].scheduler = i
IsOpen(i) == \E f \in Flows : open[f] = i

\* load(doc) on the loop: the workflow's scheduler, created on first access, takes
\* the document and starts compiling.
Load(f, d) ==
  LET i == IF open[f] # 0 THEN open[f] ELSE Len(made) + 1
  IN /\ i <= MaxMade
     /\ open' = [open EXCEPT ![f] = i]
     /\ made' = IF open[f] # 0 THEN [made EXCEPT ![i].doc = d] ELSE Append(made, [Made(f) EXCEPT !.doc = d])
     /\ loop' = [scheduler |-> i, graph |-> Compiled(d, trusted')]
     /\ raced' = IF Picked(i) THEN raced \cup {i} ELSE raced \ {i}
     /\ owed' = [owed EXCEPT ![f] = trusted'[folder]]

\* The graph is in place, and nodes may have to run after the debounce.
LoadEnds ==
  /\ ~LoopIsFree
  /\ made' = [made EXCEPT ![loop.scheduler].graph = loop.graph,
                         ![loop.scheduler].work = @ \cup {"armed"}]
  /\ loop' = NoUpdate
  /\ UNCHANGED <<folder, database, open, thread, switches, deletes, watching, bounds, crowded, raced, owed>>

\* Its run waits for the one in progress (the run lock).
DebounceFires(i) ==
  /\ LoopIsFree /\ made[i].work = {"armed"}
  /\ made' = [made EXCEPT ![i].work = {"running"}]
  /\ UNCHANGED <<folder, database, open, loop, thread, switches, deletes, watching, bounds, crowded, raced, owed>>

\* A run ends, and whoever waits for it to close the scheduler goes on.
RunEnds(i) ==
  /\ LoopIsFree /\ "running" \in made[i].work
  /\ made' = [made EXCEPT ![i].work = @ \ {"running"}]
  /\ switches' = [n \in DOMAIN switches |-> [switches[n] EXCEPT !.waits = @ \ {i}]]
  /\ deletes' = {[d EXCEPT !.waits = @ \ {i}] : d \in deletes}
  /\ UNCHANGED <<folder, database, open, loop, thread, watching, bounds, crowded, raced, owed>>

(***************************************************************************)
(* Requests for a workflow.                                                *)
(***************************************************************************)
\* One more decision about a snippet of this folder's workflows.
Trusts ==
  /\ trusted[folder] < MaxTrust /\ OneMore
  /\ trusted' = [trusted EXCEPT ![folder] = @ + 1]

\* A plausible bug: a version is written only for a new row.
PutUnversioned(f, d) ==
  /\ LoopIsFree /\ saves < MaxSaves
  /\ saves' = saves + 1
  /\ Trusts \/ UNCHANGED <<trusted, requests>>
  /\ rows' = [rows EXCEPT ![folder][f] = [doc |-> d, hash |-> d]]
  /\ newest' = IF rows[folder][f] = NoRow THEN [newest EXCEPT ![folder][f] = d] ELSE newest
  /\ Load(f, d)
  /\ crowded' = (crowded \/ IsBeingDropped(f))
  /\ UNCHANGED <<folder, thread, switches, deletes, watching>>

\* save: snippets written here are trusted (before_save; no other workflow is recompiled for
\* that), the row is upserted, a changed document is a new version, and it is loaded.
Put(f, d) ==
  /\ LoopIsFree /\ saves < MaxSaves
  /\ saves' = saves + 1
  /\ Trusts \/ UNCHANGED <<trusted, requests>>
  /\ rows' = [rows EXCEPT ![folder][f] = [doc |-> d, hash |-> d]]
  /\ newest' = IF rows[folder][f].hash # d THEN [newest EXCEPT ![folder][f] = d] ELSE newest
  /\ Load(f, d)
  /\ crowded' = (crowded \/ IsBeingDropped(f))
  /\ UNCHANGED <<folder, thread, switches, deletes, watching>>

\* Any request that needs the scheduler of a workflow that has none: get(id), load.
Access(f) ==
  /\ LoopIsFree /\ open[f] = 0 /\ rows[folder][f].doc \in Docs
  /\ UNCHANGED database
  /\ Load(f, rows[folder][f].doc)
  /\ crowded' = (crowded \/ IsBeingDropped(f))
  /\ UNCHANGED <<folder, thread, switches, deletes, watching, bounds>>

StartRun(f) ==
  /\ LoopIsFree /\ open[f] # 0 /\ "running" \notin made[open[f]].work
  /\ made' = [made EXCEPT ![open[f]].work = @ \cup {"running"}]
  /\ crowded' = (crowded \/ IsBeingDropped(f))
  /\ UNCHANGED <<folder, database, open, loop, thread, switches, deletes, watching, bounds, raced, owed>>

\* The stored document stops validating (a newer format, an edited row).
Damage(f) ==
  /\ OneMore /\ rows[folder][f].doc \in Docs
  /\ rows' = [rows EXCEPT ![folder][f].doc = Unreadable]
  /\ UNCHANGED <<folder, newest, trusted, dict, loop, thread, switches, deletes, watching,
                 saves, crowded, raced, owed>>

\* Scheduler.close: the debounce is cancelled, the run aborted and waited for.
Running(I) == {i \in I : "running" \in made[i].work}
Disarmed(I) ==
  [i \in DOMAIN made |-> IF i \in I THEN [made[i] EXCEPT !.work = @ \ {"armed"}] ELSE made[i]]
\* What dropped schedulers hold is not kept.
Forgotten(m, I) ==
  [i \in DOMAIN m |-> IF i \in I THEN [m[i] EXCEPT !.doc = NoDoc, !.graph = NoGraph] ELSE m[i]]
Opened == {open[f] : f \in Flows} \ {0}

\* A plausible bug: the scheduler is closed but stays in the dictionary.
BeginDeleteKeeping(f) ==
  /\ LoopIsFree /\ OneMore /\ \A d \in deletes : d.flow # f
  /\ made' = Disarmed({open[f]} \ {0})
  /\ deletes' = deletes \cup {[flow |-> f, waits |-> Running({open[f]} \ {0})]}
  /\ UNCHANGED <<folder, database, open, loop, thread, switches, watching, saves, crowded, raced, owed>>

BeginDelete(f) ==
  /\ LoopIsFree /\ OneMore /\ \A d \in deletes : d.flow # f
  /\ open' = [open EXCEPT ![f] = 0]
  /\ LET I == {open[f]} \ {0} IN
     /\ made' = Forgotten(Disarmed(I), I)
     /\ deletes' = deletes \cup {[flow |-> f, waits |-> Running(I)]}
  /\ UNCHANGED <<folder, database, loop, thread, switches, watching, saves, crowded, raced, owed>>

EndDelete(d) ==
  /\ LoopIsFree /\ d \in deletes /\ d.waits = {}
  /\ deletes' = deletes \ {d}
  /\ rows' = [rows EXCEPT ![folder][d.flow] = NoRow]
  /\ UNCHANGED <<folder, newest, trusted, dict, loop, thread, switches, watching, bounds, crowded, raced, owed>>

(***************************************************************************)
(* switch_workspace.                                                       *)
(***************************************************************************)
InSwitch == {n \in DOMAIN switches : switches[n].pc # "done"}

BeginSwitch(w) ==
  /\ LoopIsFree /\ OneMore
  /\ switches' = Append(switches,
       [pc |-> "stopping", to |-> w, alone |-> InSwitch = {}, held |-> watcher, waits |-> {},
        watching |-> watcher # 0 /\ watchers[watcher].running])
  /\ UNCHANGED <<folder, database, dict, loop, thread, deletes, watching, saves, crowded, raced, owed>>

\* A plausible bug: an armed debounce survives the closing.
CloseSchedulersArmed(n) ==
  /\ LoopIsFree /\ switches[n].pc = "stopping"
  /\ LET held == switches[n].held IN
     IF held = 0 THEN UNCHANGED watching
     ELSE watchers' = [watchers EXCEPT ![held].running = FALSE] /\ watcher' = 0
  /\ switches' = [switches EXCEPT ![n].pc = "closing", ![n].held = 0, ![n].waits = Running(Opened)]
  /\ UNCHANGED <<folder, database, dict, loop, thread, deletes, bounds, crowded, raced, owed>>

\* stop_watcher has stopped the watcher it found, and forgets the one there is now;
\* then every open scheduler is closed.
CloseSchedulers(n) ==
  /\ LoopIsFree /\ switches[n].pc = "stopping"
  /\ LET held == switches[n].held IN
     IF held = 0 THEN UNCHANGED watching
     ELSE watchers' = [watchers EXCEPT ![held].running = FALSE] /\ watcher' = 0
  /\ made' = Disarmed(Opened)
  /\ switches' = [switches EXCEPT ![n].pc = "closing", ![n].held = 0, ![n].waits = Running(Opened)]
  /\ UNCHANGED <<folder, database, open, loop, thread, deletes, bounds, crowded, raced, owed>>

\* start_watcher.
Watch(w, wanted) ==
  IF ~wanted THEN UNCHANGED watching
  ELSE IF watcher # 0 /\ watchers[watcher].folder = w
  THEN watchers' = [watchers EXCEPT ![watcher].running = TRUE] /\ UNCHANGED watcher
  ELSE /\ watchers' = Append(watchers, [folder |-> w, running |-> TRUE])
       /\ watcher' = Len(watchers) + 1

Ends(n, ok) ==
  switches' = [switches EXCEPT ![n].pc = IF ok THEN "done" ELSE "failed", ![n].to = Home,
                               ![n].watching = FALSE]

\* A plausible bug: the watcher is started before the workspace is opened.
EndSwitchWatchingOld(n, ok) ==
  /\ LoopIsFree /\ Closing(switches[n]) /\ switches[n].waits = {}
  /\ Ends(n, ok)
  /\ open' = [f \in Flows |-> 0] /\ made' = Forgotten(made, Opened)
  /\ Watch(folder, switches[n].watching)
  /\ folder' = IF ok THEN switches[n].to ELSE folder
  /\ owed' = [f \in Flows |-> 0]
  /\ UNCHANGED <<database, loop, thread, deletes, bounds, crowded, raced>>

\* All of them are closed: they are dropped and the folder is opened; if that fails
\* the old one stays, without a watcher.
EndSwitch(n, ok) ==
  /\ LoopIsFree /\ Closing(switches[n]) /\ switches[n].waits = {}
  /\ Ends(n, ok)
  /\ open' = [f \in Flows |-> 0] /\ made' = Forgotten(made, Opened)
  /\ IF ok THEN folder' = switches[n].to /\ Watch(switches[n].to, switches[n].watching)
     ELSE UNCHANGED <<folder, watching>>
  /\ owed' = [f \in Flows |-> 0]
  /\ UNCHANGED <<database, loop, thread, deletes, bounds, crowded, raced>>

(***************************************************************************)
(* The requests on threads.                                                *)
(***************************************************************************)
Goes(t, step) == thread' = [thread EXCEPT ![t] = step]

\* set_trust and forget_trust: every open workflow is to follow.
Decide(t) ==
  /\ thread[t].pc = "idle" /\ Trusts
  /\ Goes(t, [NoRecompile EXCEPT !.pc = "list"])
  /\ owed' = [f \in Flows |-> trusted'[folder]]
  /\ UNCHANGED <<folder, rows, newest, dict, loop, switches, deletes, watching, saves, crowded, raced>>

\* The pack routes: their change of the registry has every open workflow recompiled too.
PacksChange(t) ==
  /\ thread[t].pc = "idle" /\ OneMore
  /\ Goes(t, [NoRecompile EXCEPT !.pc = "list"])
  /\ UNCHANGED <<folder, database, dict, loop, switches, deletes, watching, saves, crowded, raced, owed>>

\* recompile_all: the schedulers of the moment (what it does to one dropped since is
\* not kept),
ListSchedulers(t) ==
  /\ thread[t].pc = "list"
  /\ Goes(t, IF Opened = {} THEN NoRecompile ELSE [thread[t] EXCEPT !.pc = "next", !.queue = Opened])
  /\ UNCHANGED <<folder, database, dict, loop, switches, deletes, watching, bounds, crowded, raced, owed>>

\* and for each of them its document,
PickScheduler(t, i) ==
  /\ thread[t].pc = "next" /\ i \in thread[t].queue
  /\ Goes(t, [thread[t] EXCEPT !.pc = "update", !.queue = @ \ {i}, !.scheduler = i, !.doc = made[i].doc])
  /\ raced' = IF loop.scheduler = i \/ Picked(i) THEN raced \cup {i} ELSE raced
  /\ UNCHANGED <<folder, database, dict, loop, switches, deletes, watching, bounds, crowded, owed>>

\* which is set and compiled,
Recompile(t) ==
  /\ thread[t].pc = "update"
  /\ Goes(t, [thread[t] EXCEPT !.pc = "graph", !.graph = Compiled(thread[t].doc, trusted)])
  /\ LET i == thread[t].scheduler
     IN made' = IF IsOpen(i) THEN [made EXCEPT ![i].doc = thread[t].doc] ELSE made
  /\ UNCHANGED <<folder, database, open, loop, switches, deletes, watching, bounds, crowded, raced, owed>>

NextRecompile(t) ==
  IF thread[t].queue = {} THEN NoRecompile ELSE [NoRecompile EXCEPT !.pc = "next", !.queue = thread[t].queue]

\* A plausible bug: the graph of the old decisions stays.
RecompiledNot(t) ==
  /\ thread[t].pc = "graph"
  /\ Goes(t, NextRecompile(t))
  /\ UNCHANGED <<folder, database, dict, loop, switches, deletes, watching, bounds, crowded, raced, owed>>

\* and its graph set; no debounce is armed, for the thread has no loop.
Recompiled(t) ==
  /\ thread[t].pc = "graph"
  /\ LET i == thread[t].scheduler
     IN made' = IF IsOpen(i) THEN [made EXCEPT ![i].graph = thread[t].graph] ELSE made
  /\ Goes(t, NextRecompile(t))
  /\ UNCHANGED <<folder, database, open, loop, switches, deletes, watching, bounds, crowded, raced, owed>>

OnThread(t) ==
  \/ Decide(t) \/ PacksChange(t) \/ ListSchedulers(t) \/ Recompile(t) \/ Recompiled(t)
  \/ \E i \in DOMAIN made : PickScheduler(t, i)

Next ==
  \/ LoadEnds \/ \E i \in DOMAIN made : DebounceFires(i) \/ RunEnds(i)
  \/ \E f \in Flows : Access(f) \/ StartRun(f) \/ Damage(f) \/ BeginDelete(f) \/ \E d \in Docs : Put(f, d)
  \/ \E d \in deletes : EndDelete(d)
  \/ \E w \in Folders \ {folder} : BeginSwitch(w)
  \/ \E n \in DOMAIN switches : CloseSchedulers(n) \/ \E ok \in BOOLEAN : EndSwitch(n, ok)
  \/ \E t \in Threads : OnThread(t)

Spec == Init /\ [][Next]_vars

(***************************************************************************)
(* Properties.                                                             *)
(***************************************************************************)
Schedulers == DOMAIN made
Graphs == [doc : Docs \cup {NoDoc}, trust : 0..MaxTrust]

\* Types; and a scheduler is in the dictionary under its own workflow only.
TypeOK ==
  /\ folder \in Folders /\ watcher \in 0..Len(watchers)
  /\ rows \in [Folders -> [Flows -> [doc : Docs \cup {NoDoc, Unreadable}, hash : Docs \cup {NoDoc}]]]
  /\ newest \in [Folders -> [Flows -> Docs \cup {NoDoc}]]
  /\ open \in [Flows -> 0..Len(made)]
  /\ \A i \in Schedulers : made[i].graph \in Graphs /\ made[i].doc \in Docs \cup {NoDoc}
  /\ \A f \in Flows : open[f] # 0 => made[open[f]].flow = f
  /\ loop.scheduler \in 0..Len(made) /\ \A t \in Threads : thread[t].scheduler \in 0..Len(made)
  /\ crowded \in BOOLEAN /\ raced \subseteq Nat /\ owed \in [Flows -> 0..MaxTrust]

OpenBelongsHere == \A f \in Flows : open[f] # 0 => made[open[f]].folder = folder
IsDropped(i) ==
  /\ ~IsOpen(i)
  /\ \A d \in deletes : i \notin d.waits
DroppedAtRest == ~crowded => \A i \in Schedulers : IsDropped(i) => made[i].work = {}

\* "Close every open workflow" (runtime.py:165).  Whatever requests and switches do during
\* each other's awaits, a workflow is never served by a scheduler of another workspace's
\* stores and cache; and unless a request used a workflow between its closing and its
\* dropping, a scheduler that has been dropped runs nothing and will run nothing.
SwitchIsClean == OpenBelongsHere /\ DroppedAtRest

\* "every node with that snippet follows" (trust.py:34): with no update in progress an open
\* workflow runs its stored document, compiled with the decisions made before it was loaded or
\* saved and with those of every trust request answered since, whichever requests and
\* switches came in between -- unless two updates of its scheduler have overlapped and
\* no later one from the editor has made up for it.
EngineRunsStored ==
  LoopIsFree /\ (\A t \in Threads : thread[t] = NoRecompile) =>
    \A f \in Flows :
      open[f] # 0 /\ open[f] \notin raced /\ rows[folder][f].doc \in Docs =>
        /\ made[open[f]].doc = rows[folder][f].doc
        /\ made[open[f]].graph.doc = rows[folder][f].doc
        /\ made[open[f]].graph.trust >= owed[f]

\* Unless it was used while it was being deleted, an open workflow is stored: its
\* next status, run or save does not bring a deleted one back.
OpenIsStored ==
  ~crowded /\ deletes = {} => \A f \in Flows : open[f] # 0 => rows[folder][f].doc # NoDoc

\* "every save is in workflow_versions" (workflows.py:79): whatever became of the row,
\* the version a recovery returns is the document saved last.
RecoversLastSave ==
  \A w \in Folders, f \in Flows : rows[w][f] # NoRow => newest[w][f] = rows[w][f].hash

\* After switches one after the other that could open their folder, the one watcher
\* that runs watches the open workspace.
WatcherFollows ==
  InSwitch = {} /\ (\A n \in DOMAIN switches : switches[n].alone) =>
    {v \in DOMAIN watchers : watchers[v].running} = {watcher} /\ watchers[watcher].folder = folder
=============================================================================
