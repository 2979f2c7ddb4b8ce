---------------------------- MODULE RuntimeProofs ----------------------------
(***************************************************************************)
(* What TLAPS proves of Runtime for every set of folders, workflows and    *)
(* documents and every bound.                                              *)
(*                                                                         *)
(* SwitchIsClean: a scheduler that is open is one of this folder's, for    *)
(* the step that changes the folder empties the dictionary.  As long as    *)
(* nobody uses a workflow between its closing and its dropping, what is    *)
(* closed stays closed: no debounce is armed on it and its run is one the  *)
(* switch or the deletion waits for (ClosedStay), so what is dropped when  *)
(* nobody waits any more is at rest (OrphansRest).                         *)
(*                                                                         *)
(* OpenIsStored: what is being deleted is not open (OpenStored).           *)
(* WatcherFollows: a switch in progress is the newest and has found the    *)
(* one watcher (WatchInv).  EngineRunsStored: a graph that lacks a         *)
(* decision it is owed is one a thread is still to compile or to set, and  *)
(* the one update a scheduler is in the middle of has read its stored      *)
(* document (EngineInv).                                                   *)
(***************************************************************************)
EXTENDS Runtime, SequenceTheorems, TLAPS

Work == {"armed", "running"}
SchedulerRecord == [flow : Flows, folder : Folders, doc : Docs \cup {NoDoc}, graph : Graphs, work : SUBSET Work]
SwitchRecord == [pc : {"stopping", "closing", "done", "failed"}, to : Folders, alone : BOOLEAN,
                 held : Nat, waits : SUBSET Nat, watching : BOOLEAN]
WatcherRecord == [folder : Folders, running : BOOLEAN]
RowRecord == [doc : Docs \cup {NoDoc, Unreadable}, hash : Docs \cup {NoDoc}]
UpdateRecord == [scheduler : Nat, graph : Graphs]
RecompileRecord == [pc : {"idle", "list", "next", "update", "graph"}, queue : SUBSET Nat,
                    scheduler : Nat, doc : Docs \cup {NoDoc}, graph : Graphs]

DatabaseTyped ==
  /\ rows \in [Folders -> [Flows -> RowRecord]]
  /\ newest \in [Folders -> [Flows -> Docs \cup {NoDoc}]]
  /\ trusted \in [Folders -> 0..MaxTrust]
SwitchesTyped ==
  /\ folder \in Folders
  /\ switches \in Seq(SwitchRecord) /\ deletes \subseteq [flow : Flows, waits : SUBSET Nat]
  /\ watchers \in Seq(WatcherRecord) /\ watcher \in 0..Len(watchers)
  /\ \A n \in 1..Len(switches) : switches[n].held <= Len(watchers)
MadeTyped ==
  /\ made \in Seq(SchedulerRecord) /\ open \in [Flows -> Nat]
  /\ \A f \in Flows : open[f] <= Len(made)
\* What a thread does is about schedulers there are: the first m.
StepTyped(r, m) ==
  /\ r.scheduler <= m
  /\ r.pc \in {"update", "graph"} => r.scheduler >= 1
  /\ r.queue \subseteq 1..m
UpdatesTyped ==
  /\ loop \in UpdateRecord
  /\ LoopIsFree \/ loop.scheduler \in 1..Len(made)
  /\ thread \in [Threads -> RecompileRecord]
  /\ \A t \in Threads : StepTyped(thread[t], Len(made))
FlagsTyped == crowded \in BOOLEAN /\ raced \subseteq Nat /\ owed \in [Flows -> 0..MaxTrust]

Typed == DatabaseTyped /\ SwitchesTyped /\ MadeTyped /\ UpdatesTyped /\ FlagsTyped

\* An open scheduler is its workflow's and this folder's, and the loop updates an open one.
OpenIsOwn ==
  \A f \in Flows : open[f] # 0 => made[open[f]].flow = f /\ made[open[f]].folder = folder
LoopIsOpen == LoopIsFree \/ IsOpen(loop.scheduler)

NobodyCloses == \A n \in DOMAIN switches : ~Closing(switches[n])
LoopQuiet == ~crowded /\ ~LoopIsFree => NobodyCloses
ClosedStay ==
  ~crowded => \A n \in DOMAIN switches : Closing(switches[n]) =>
    \A f \in Flows : open[f] # 0 =>
      /\ "armed" \notin made[open[f]].work
      /\ "running" \in made[open[f]].work => open[f] \in switches[n].waits
OrphansRest ==
  ~crowded => \A i \in DOMAIN made : ~IsOpen(i) =>
    /\ "armed" \notin made[i].work
    /\ "running" \in made[i].work => \E d \in deletes : i \in d.waits

RuntimeInv == Typed /\ OpenIsOwn /\ LoopIsOpen /\ LoopQuiet /\ ClosedStay /\ OrphansRest

-----------------------------------------------------------------------------
(* A request on a thread changes the trust decisions, what the schedulers  *)
(* compile, and what it is doing itself.                                   *)

LEMMA ThreadKeeps ==
  ASSUME NEW t \in Threads, OnThread(t)
  PROVE  UNCHANGED <<folder, rows, newest, open, loop, switches, deletes, watchers, watcher, crowded>>
BY DEF OnThread, Decide, PacksChange, ListSchedulers, PickScheduler, Recompile, Recompiled,
       database, dict, watching

-----------------------------------------------------------------------------
(* The database *)

LEMMA DatabaseTypedStep ==
  ASSUME Typed, [Next]_vars
  PROVE  DatabaseTyped'
<1>0. /\ DatabaseTyped /\ folder \in Folders /\ MaxTrust \in Nat
      /\ deletes \subseteq [flow : Flows, waits : SUBSET Nat]
  BY RuntimeAssumption DEF Typed, SwitchesTyped
<1>1. CASE UNCHANGED database
  BY <1>0, <1>1 DEF database, DatabaseTyped
<1>2. ASSUME NEW f \in Flows, NEW d \in Docs, Put(f, d) PROVE DatabaseTyped'
  <2>1. trusted' \in [Folders -> 0..MaxTrust]
    BY <1>0, <1>2 DEF Put, Trusts, DatabaseTyped
  <2> QED
    BY <1>0, <1>2, <2>1 DEF Put, DatabaseTyped, RowRecord
<1>3. ASSUME NEW f \in Flows, Damage(f) PROVE DatabaseTyped'
  <2>1. rows \in [Folders -> [Flows -> RowRecord]]
    BY <1>0 DEF DatabaseTyped
  <2>2. \A r \in RowRecord : [r EXCEPT !.doc = Unreadable] \in RowRecord
    BY DEF RowRecord
  <2>3. rows' = [rows EXCEPT ![folder][f].doc = Unreadable]
    BY <1>3 DEF Damage
  <2>4. rows' \in [Folders -> [Flows -> RowRecord]]
    BY <1>0, <2>1, <2>2, <2>3
  <2> QED
    BY <1>0, <1>3, <2>4 DEF Damage, DatabaseTyped
<1>4. ASSUME NEW d \in deletes, EndDelete(d) PROVE DatabaseTyped'
  BY <1>0, <1>4 DEF EndDelete, DatabaseTyped, RowRecord, NoRow
<1>5. ASSUME NEW t \in Threads, OnThread(t) PROVE DatabaseTyped'
  <2>1. UNCHANGED <<rows, newest>>
    BY <1>5, ThreadKeeps
  <2>2. trusted' \in [Folders -> 0..MaxTrust]
    <3>1. CASE Decide(t)
      BY <1>0, <3>1 DEF Decide, Trusts, DatabaseTyped
    <3>2. CASE ~Decide(t)
      <4>1. UNCHANGED trusted
        BY <1>5, <3>2 DEF OnThread, PacksChange, ListSchedulers, PickScheduler, Recompile, Recompiled, database
      <4> QED
        BY <1>0, <4>1 DEF DatabaseTyped
    <3> QED
      BY <3>1, <3>2
  <2> QED
    BY <1>0, <2>1, <2>2 DEF DatabaseTyped
<1>6. ASSUME NEW f \in Flows, Access(f) \/ StartRun(f) \/ BeginDelete(f) PROVE DatabaseTyped'
  BY <1>1, <1>6 DEF Access, StartRun, BeginDelete
<1>7. ASSUME NEW n \in DOMAIN switches, NEW ok \in BOOLEAN, CloseSchedulers(n) \/ EndSwitch(n, ok)
      PROVE  DatabaseTyped'
  BY <1>1, <1>7 DEF CloseSchedulers, EndSwitch
<1>8. ASSUME NEW i \in DOMAIN made, DebounceFires(i) \/ RunEnds(i) PROVE DatabaseTyped'
  BY <1>1, <1>8 DEF DebounceFires, RunEnds
<1>9. ASSUME NEW w \in Folders, BeginSwitch(w) PROVE DatabaseTyped'
  BY <1>1, <1>9 DEF BeginSwitch
<1>10. CASE LoadEnds \/ UNCHANGED vars
  BY <1>1, <1>10 DEF LoadEnds, vars
<1> QED
  BY <1>2, <1>3, <1>4, <1>5, <1>6, <1>7, <1>8, <1>9, <1>10 DEF Next

LEMMA RecoversStep ==
  ASSUME Typed, RecoversLastSave, [Next]_vars
  PROVE  RecoversLastSave'
<1>0. /\ rows \in [Folders -> [Flows -> RowRecord]] /\ newest \in [Folders -> [Flows -> Docs \cup {NoDoc}]]
      /\ folder \in Folders /\ deletes \subseteq [flow : Flows, waits : SUBSET Nat]
      /\ NoDoc \notin Docs
  BY RuntimeAssumption DEF Typed, DatabaseTyped, SwitchesTyped
<1>1. CASE UNCHANGED <<rows, newest>>
  BY <1>1 DEF RecoversLastSave
\* A save that writes no version saves what the newest version holds.
<1>2. ASSUME NEW f \in Flows, NEW d \in Docs, Put(f, d) PROVE RecoversLastSave'
  <2>1. rows' = [rows EXCEPT ![folder][f] = [doc |-> d, hash |-> d]]
    BY <1>2 DEF Put
  <2>2. CASE rows[folder][f].hash # d
    BY <1>0, <1>2, <2>1, <2>2 DEF Put, RecoversLastSave
  <2>3. CASE rows[folder][f].hash = d
    <3>1. rows[folder][f] # NoRow
      BY <1>0, <2>3 DEF NoRow
    <3>2. newest' = newest
      BY <1>2, <2>3 DEF Put
    <3> QED
      BY <1>0, <2>1, <2>3, <3>1, <3>2 DEF RecoversLastSave
  <2> QED
    BY <2>2, <2>3
<1>3. ASSUME NEW f \in Flows, Damage(f) PROVE RecoversLastSave'
  <2>1. rows[folder][f] # NoRow
    BY <1>0, <1>3 DEF Damage, NoRow
  <2>2. \A w \in Folders, g \in Flows : rows'[w][g].hash = rows[w][g].hash
                                        /\ (rows[w][g] = rows'[w][g] \/ (w = folder /\ g = f))
    BY <1>0, <1>3 DEF Damage, RowRecord
  <2>3. newest' = newest
    BY <1>3 DEF Damage
  <2> QED
    BY <2>1, <2>2, <2>3 DEF RecoversLastSave
<1>4. ASSUME NEW d \in deletes, EndDelete(d) PROVE RecoversLastSave'
  <2>1. d.flow \in Flows
    BY <1>0
  <2> QED
    BY <1>0, <1>4, <2>1 DEF EndDelete, RecoversLastSave
<1>5. ASSUME NEW t \in Threads, OnThread(t) PROVE RecoversLastSave'
  BY <1>1, <1>5, ThreadKeeps
<1>6. ASSUME NEW f \in Flows, Access(f) \/ StartRun(f) \/ BeginDelete(f) PROVE RecoversLastSave'
  BY <1>1, <1>6 DEF Access, StartRun, BeginDelete, database
<1>7. ASSUME NEW n \in DOMAIN switches, NEW ok \in BOOLEAN, CloseSchedulers(n) \/ EndSwitch(n, ok)
      PROVE  RecoversLastSave'
  BY <1>1, <1>7 DEF CloseSchedulers, EndSwitch, database
<1>8. ASSUME NEW i \in DOMAIN made, DebounceFires(i) \/ RunEnds(i) PROVE RecoversLastSave'
  BY <1>1, <1>8 DEF DebounceFires, RunEnds, database
<1>9. ASSUME NEW w \in Folders, BeginSwitch(w) PROVE RecoversLastSave'
  BY <1>1, <1>9 DEF BeginSwitch, database
<1>10. CASE LoadEnds \/ UNCHANGED vars
  BY <1>1, <1>10 DEF LoadEnds, vars, database
<1> QED
  BY <1>2, <1>3, <1>4, <1>5, <1>6, <1>7, <1>8, <1>9, <1>10 DEF Next

-----------------------------------------------------------------------------
(* Switches and their watchers *)

LEMMA WatchTyped ==
  ASSUME watchers \in Seq(WatcherRecord), watcher \in 0..Len(watchers),
         NEW w \in Folders, NEW wanted \in BOOLEAN, Watch(w, wanted)
  PROVE  watchers' \in Seq(WatcherRecord) /\ watcher' \in 0..Len(watchers') /\ Len(watchers') >= Len(watchers)
<1>1. CASE ~wanted
  BY <1>1 DEF Watch, watching
<1>2. CASE wanted /\ watcher # 0 /\ watchers[watcher].folder = w
  <2>1. watchers' = [watchers EXCEPT ![watcher].running = TRUE] /\ watcher' = watcher
    BY <1>2 DEF Watch
  <2>2. watcher \in 1..Len(watchers)
    BY <1>2
  <2>0. \A r \in WatcherRecord : [r EXCEPT !.running = TRUE] \in WatcherRecord
    BY DEF WatcherRecord
  <2>3. [watchers[watcher] EXCEPT !.running = TRUE] \in WatcherRecord
    BY <2>0, <2>2
  <2>4. watchers' = [watchers EXCEPT ![watcher] = [watchers[watcher] EXCEPT !.running = TRUE]]
    BY <2>1
  <2> QED
    BY <2>1, <2>2, <2>3, <2>4
<1>3. CASE wanted /\ ~(watcher # 0 /\ watchers[watcher].folder = w)
  <2>1. /\ watchers' = Append(watchers, [folder |-> w, running |-> TRUE])
        /\ watcher' = Len(watchers) + 1
    BY <1>3 DEF Watch
  <2>2. [folder |-> w, running |-> TRUE] \in WatcherRecord
    BY DEF WatcherRecord
  <2> QED
    BY <2>1, <2>2
<1> QED
  BY <1>1, <1>2, <1>3

LEMMA SwitchesTypedStep ==
  ASSUME Typed, [Next]_vars
  PROVE  SwitchesTyped'
<1>0. /\ folder \in Folders /\ Home \in Folders
      /\ switches \in Seq(SwitchRecord) /\ deletes \subseteq [flow : Flows, waits : SUBSET Nat]
      /\ watchers \in Seq(WatcherRecord) /\ watcher \in 0..Len(watchers)
      /\ \A n \in 1..Len(switches) : switches[n].held <= Len(watchers)
      /\ open \in [Flows -> Nat]
  BY RuntimeAssumption DEF Typed, SwitchesTyped, MadeTyped
<1>r. \A I : I \subseteq Nat => Running(I) \in SUBSET Nat
  BY DEF Running
<1>o. Opened \subseteq Nat
  BY <1>0 DEF Opened
<1>1. CASE UNCHANGED <<folder, switches, deletes, watching>>
  BY <1>0, <1>1 DEF watching, SwitchesTyped
<1>2. ASSUME NEW i \in DOMAIN made, RunEnds(i) PROVE SwitchesTyped'
  <2>0. \A s \in SwitchRecord : [s EXCEPT !.waits = @ \ {i}] \in SwitchRecord
                              /\ [s EXCEPT !.waits = @ \ {i}].held = s.held
    BY DEF SwitchRecord
  <2>1. \A n \in 1..Len(switches) : [switches[n] EXCEPT !.waits = @ \ {i}] \in SwitchRecord
                                    /\ [switches[n] EXCEPT !.waits = @ \ {i}].held = switches[n].held
    BY <1>0, <2>0
  <2>2. \A d \in deletes : [d EXCEPT !.waits = @ \ {i}] \in [flow : Flows, waits : SUBSET Nat]
    BY <1>0
  <2>3. switches' = [n \in 1..Len(switches) |-> [switches[n] EXCEPT !.waits = @ \ {i}]]
    BY <1>0, <1>2 DEF RunEnds
  <2>4. switches' \in Seq(SwitchRecord) /\ Len(switches') = Len(switches)
    BY <1>0, <2>1, <2>3
  <2>5. deletes' \subseteq [flow : Flows, waits : SUBSET Nat]
    BY <1>2, <2>2 DEF RunEnds
  <2> QED
    BY <1>0, <1>2, <2>1, <2>3, <2>4, <2>5 DEF RunEnds, watching, SwitchesTyped
<1>3. ASSUME NEW f \in Flows, BeginDelete(f) PROVE SwitchesTyped'
  <2>1. [flow |-> f, waits |-> Running({open[f]} \ {0})] \in [flow : Flows, waits : SUBSET Nat]
    BY <1>0, <1>r
  <2> QED
    BY <1>0, <1>3, <2>1 DEF BeginDelete, watching, SwitchesTyped
<1>4. ASSUME NEW d \in deletes, EndDelete(d) PROVE SwitchesTyped'
  BY <1>0, <1>4 DEF EndDelete, watching, SwitchesTyped
<1>5. ASSUME NEW w \in Folders, BeginSwitch(w) PROVE SwitchesTyped'
  <2> DEFINE s == [pc |-> "stopping", to |-> w, alone |-> InSwitch = {}, held |-> watcher, waits |-> {},
                   watching |-> watcher # 0 /\ watchers[watcher].running]
  <2>1. watcher # 0 => watchers[watcher] \in WatcherRecord
    BY <1>0
  <2>2. (watcher # 0 /\ watchers[watcher].running) \in BOOLEAN
    BY <2>1 DEF WatcherRecord
  <2>3. s \in SwitchRecord /\ s.held = watcher
    BY <1>0, <2>2 DEF SwitchRecord
  <2>4. switches' = Append(switches, s) /\ UNCHANGED <<folder, deletes, watchers, watcher>>
    BY <1>5 DEF BeginSwitch, watching
  <2> HIDE DEF s
  <2>5. switches' \in Seq(SwitchRecord) /\ Len(switches') = Len(switches) + 1
        /\ \A n \in 1..Len(switches') : switches'[n] = IF n = Len(switches) + 1 THEN s ELSE switches[n]
    BY <1>0, <2>3, <2>4
  <2>6. \A n \in 1..Len(switches') : switches'[n].held <= Len(watchers)
    <3> TAKE n \in 1..Len(switches')
    <3>1. CASE n = Len(switches) + 1
      BY <1>0, <2>3, <2>5, <3>1
    <3>2. CASE n # Len(switches) + 1
      <4>1. n \in 1..Len(switches) /\ switches'[n] = switches[n]
        BY <1>0, <2>5, <3>2
      <4> QED
        BY <1>0, <4>1
    <3> QED
      BY <3>1, <3>2
  <2> QED
    BY <1>0, <2>4, <2>5, <2>6 DEF SwitchesTyped
<1>6. ASSUME NEW n \in DOMAIN switches, CloseSchedulers(n) PROVE SwitchesTyped'
  <2>0. n \in 1..Len(switches) /\ switches[n] \in SwitchRecord
    BY <1>0
  <2>1. watchers' \in Seq(WatcherRecord) /\ Len(watchers') = Len(watchers) /\ watcher' \in 0..Len(watchers')
    <3>1. CASE switches[n].held = 0
      BY <1>0, <1>6, <3>1 DEF CloseSchedulers, watching
    <3>2. CASE switches[n].held # 0
      <4> DEFINE h == switches[n].held
      <4>1. h \in 1..Len(watchers)
        BY <1>0, <2>0, <3>2 DEF SwitchRecord
      <4>0. \A r \in WatcherRecord : [r EXCEPT !.running = FALSE] \in WatcherRecord
        BY DEF WatcherRecord
      <4>2. [watchers[h] EXCEPT !.running = FALSE] \in WatcherRecord
        BY <1>0, <4>0, <4>1
      <4>3. watchers' = [watchers EXCEPT ![h] = [watchers[h] EXCEPT !.running = FALSE]] /\ watcher' = 0
        BY <1>6, <3>2 DEF CloseSchedulers
      <4> HIDE DEF h
      <4> QED
        BY <1>0, <4>1, <4>2, <4>3
    <3> QED
      BY <3>1, <3>2
  <2> DEFINE s == [switches[n] EXCEPT !.pc = "closing", !.held = 0, !.waits = Running(Opened)]
  <2>2. s \in SwitchRecord /\ s.held = 0
    BY <2>0, <1>r, <1>o DEF SwitchRecord
  <2>3. switches' = [switches EXCEPT ![n] = s]
    BY <1>6 DEF CloseSchedulers
  <2> HIDE DEF s
  <2>4. switches' \in Seq(SwitchRecord) /\ Len(switches') = Len(switches)
        /\ \A k \in 1..Len(switches') : switches'[k] = IF k = n THEN s ELSE switches[k]
    BY <1>0, <2>0, <2>2, <2>3
  <2>5. \A k \in 1..Len(switches') : switches'[k].held <= Len(watchers')
    BY <1>0, <2>1, <2>2, <2>4
  <2> QED
    BY <1>0, <1>6, <2>1, <2>4, <2>5 DEF CloseSchedulers, SwitchesTyped
<1>7. ASSUME NEW n \in DOMAIN switches, NEW ok \in BOOLEAN, EndSwitch(n, ok) PROVE SwitchesTyped'
  <2>0. n \in 1..Len(switches) /\ switches[n] \in SwitchRecord
    BY <1>0
  <2>1. switches[n].to \in Folders /\ switches[n].watching \in BOOLEAN
    BY <2>0 DEF SwitchRecord
  <2>2. folder' \in Folders /\ watchers' \in Seq(WatcherRecord) /\ watcher' \in 0..Len(watchers')
        /\ Len(watchers') >= Len(watchers)
    <3>1. CASE ok
      BY <1>0, <1>7, <2>1, <3>1, WatchTyped DEF EndSwitch
    <3>2. CASE ~ok
      BY <1>0, <1>7, <3>2 DEF EndSwitch, watching
    <3> QED
      BY <3>1, <3>2
  <2> DEFINE s == [switches[n] EXCEPT !.pc = IF ok THEN "done" ELSE "failed", !.to = Home, !.watching = FALSE]
  <2>3. s \in SwitchRecord /\ s.held = switches[n].held
    BY <1>0, <2>0 DEF SwitchRecord
  <2>4. switches' = [switches EXCEPT ![n] = s]
    BY <1>7 DEF EndSwitch, Ends
  <2> HIDE DEF s
  <2>5. switches' \in Seq(SwitchRecord) /\ Len(switches') = Len(switches)
        /\ \A k \in 1..Len(switches') : switches'[k] = IF k = n THEN s ELSE switches[k]
    BY <1>0, <2>0, <2>3, <2>4
  <2>6. \A k \in 1..Len(switches') : switches'[k].held <= Len(watchers')
    <3> TAKE k \in 1..Len(switches')
    <3>1. switches'[k].held = switches[k].held /\ k \in 1..Len(switches)
      BY <2>3, <2>5
    <3>0. \A r \in SwitchRecord : r.held \in Nat
      BY DEF SwitchRecord
    <3>2. switches[k].held \in Nat
      BY <1>0, <3>0, <3>1
    <3> QED
      BY <1>0, <2>2, <3>1, <3>2
  <2> QED
    BY <1>0, <1>7, <2>2, <2>5, <2>6 DEF EndSwitch, SwitchesTyped
<1>8. ASSUME NEW f \in Flows, \/ Access(f) \/ StartRun(f) \/ Damage(f) \/ \E d \in Docs : Put(f, d)
      PROVE  SwitchesTyped'
  BY <1>1, <1>8 DEF Access, StartRun, Damage, Put
<1>9. ASSUME NEW i \in DOMAIN made, DebounceFires(i) PROVE SwitchesTyped'
  BY <1>1, <1>9 DEF DebounceFires
<1>10. CASE LoadEnds \/ UNCHANGED vars
  BY <1>1, <1>10 DEF LoadEnds, vars
<1>11. ASSUME NEW t \in Threads, OnThread(t) PROVE SwitchesTyped'
  BY <1>1, <1>11, ThreadKeeps DEF watching, dict
<1> QED
  BY <1>2, <1>3, <1>4, <1>5, <1>6, <1>7, <1>8, <1>9, <1>10, <1>11 DEF Next

-----------------------------------------------------------------------------
(* The schedulers: what each action makes of them, in the terms of their work. *)

\* None is lost, and the workflow and the folder of one never change.
MadeKept ==
  /\ Len(made') >= Len(made)
  /\ \A i \in 1..Len(made) : made'[i].flow = made[i].flow /\ made'[i].folder = made[i].folder

LEMMA OneChanges ==
  ASSUME made \in Seq(SchedulerRecord), NEW i \in 1..Len(made), NEW r \in SchedulerRecord,
         r.flow = made[i].flow, r.folder = made[i].folder, made' = [made EXCEPT ![i] = r]
  PROVE  /\ made' \in Seq(SchedulerRecord) /\ Len(made') = Len(made) /\ MadeKept
         /\ \A j \in 1..Len(made) : made'[j] = IF j = i THEN r ELSE made[j]
  BY DEF MadeKept

LEMMA DisarmedFacts ==
  ASSUME made \in Seq(SchedulerRecord), NEW I
  PROVE  /\ Disarmed(I) \in Seq(SchedulerRecord) /\ Len(Disarmed(I)) = Len(made)
         /\ \A i \in 1..Len(made) :
              /\ Disarmed(I)[i].flow = made[i].flow /\ Disarmed(I)[i].folder = made[i].folder
              /\ Disarmed(I)[i].work = IF i \in I THEN made[i].work \ {"armed"} ELSE made[i].work
<1>1. \A r \in SchedulerRecord : LET e == [r EXCEPT !.work = @ \ {"armed"}] IN
        e \in SchedulerRecord /\ e.flow = r.flow /\ e.folder = r.folder /\ e.work = r.work \ {"armed"}
  BY DEF SchedulerRecord
<1> DEFINE m == [i \in 1..Len(made) |-> IF i \in I THEN [made[i] EXCEPT !.work = @ \ {"armed"}] ELSE made[i]]
<1>2. Disarmed(I) = m
  BY DEF Disarmed
<1>3. \A i \in 1..Len(made) : m[i] \in SchedulerRecord
  BY <1>1
<1>4. m \in Seq(SchedulerRecord) /\ Len(m) = Len(made)
  BY <1>3
<1>5. \A i \in 1..Len(made) : /\ m[i].flow = made[i].flow /\ m[i].folder = made[i].folder
                             /\ m[i].work = IF i \in I THEN made[i].work \ {"armed"} ELSE made[i].work
  BY <1>1
<1> QED
  BY <1>2, <1>4, <1>5

LEMMA ForgottenFacts ==
  ASSUME NEW m \in Seq(SchedulerRecord), NEW I
  PROVE  /\ Forgotten(m, I) \in Seq(SchedulerRecord) /\ Len(Forgotten(m, I)) = Len(m)
         /\ \A i \in 1..Len(m) :
              /\ Forgotten(m, I)[i].flow = m[i].flow /\ Forgotten(m, I)[i].folder = m[i].folder
              /\ Forgotten(m, I)[i].work = m[i].work
<1>0. NoGraph \in Graphs
  BY RuntimeAssumption DEF NoGraph, Graphs
<1> DEFINE Cleared(r) == [r EXCEPT !.doc = NoDoc, !.graph = NoGraph]
           o == [i \in 1..Len(m) |-> IF i \in I THEN Cleared(m[i]) ELSE m[i]]
<1>1. \A r \in SchedulerRecord : /\ Cleared(r) \in SchedulerRecord /\ Cleared(r).flow = r.flow
                                /\ Cleared(r).folder = r.folder /\ Cleared(r).work = r.work
  BY <1>0 DEF SchedulerRecord
<1>2. Forgotten(m, I) = o
  BY DEF Forgotten
<1> HIDE DEF Cleared
<1>3. \A i \in 1..Len(m) : o[i] \in SchedulerRecord
  BY <1>1
<1>4. o \in Seq(SchedulerRecord) /\ Len(o) = Len(m)
  BY <1>3
<1>5. \A i \in 1..Len(m) : o[i].flow = m[i].flow /\ o[i].folder = m[i].folder /\ o[i].work = m[i].work
  BY <1>1
<1> QED
  BY <1>2, <1>4, <1>5

LEMMA LoadFacts ==
  ASSUME Typed, DatabaseTyped', UNCHANGED folder, NEW f \in Flows, NEW d \in Docs, Load(f, d)
  PROVE  /\ made' \in Seq(SchedulerRecord) /\ MadeKept
         /\ \A i \in 1..Len(made) : made'[i].work = made[i].work
         /\ \E i \in 1..Len(made') :
              /\ open' = [open EXCEPT ![f] = i]
              /\ loop' = [scheduler |-> i, graph |-> Compiled(d, trusted')] /\ Compiled(d, trusted') \in Graphs
              /\ open[f] = 0 => made'[i].flow = f /\ made'[i].folder = folder
              /\ \/ i = open[f] /\ Len(made') = Len(made)
                 \/ open[f] = 0 /\ Len(made') = Len(made) + 1 /\ i = Len(made') /\ made'[i].work = {}
<1>0. /\ made \in Seq(SchedulerRecord) /\ open[f] \in 0..Len(made) /\ folder \in Folders
      /\ trusted'[folder] \in 0..MaxTrust /\ MaxTrust \in Nat
  BY RuntimeAssumption DEF Typed, MadeTyped, SwitchesTyped, DatabaseTyped
<1>1. Compiled(d, trusted') \in Graphs
  BY <1>0 DEF Compiled, Graphs
<1>2. CASE open[f] # 0
  <2> DEFINE i == open[f]
  <2>0. i \in 1..Len(made) /\ made[i] \in SchedulerRecord
    BY <1>0, <1>2
  <2>1. made' = [made EXCEPT ![i].doc = d] /\ open' = [open EXCEPT ![f] = i]
        /\ loop' = [scheduler |-> i, graph |-> Compiled(d, trusted')]
    BY <1>2 DEF Load
  <2>2. \A r \in SchedulerRecord : LET e == [r EXCEPT !.doc = d] IN
          e \in SchedulerRecord /\ e.flow = r.flow /\ e.folder = r.folder /\ e.work = r.work
    BY DEF SchedulerRecord
  <2> DEFINE e == [made[i] EXCEPT !.doc = d]
  <2>3. e \in SchedulerRecord /\ e.flow = made[i].flow /\ e.folder = made[i].folder /\ e.work = made[i].work
    BY <2>0, <2>2
  <2>4. made' = [made EXCEPT ![i] = e]
    BY <2>1
  <2> HIDE DEF i, e
  <2>5. /\ made' \in Seq(SchedulerRecord) /\ Len(made') = Len(made) /\ MadeKept
        /\ \A j \in 1..Len(made) : made'[j] = IF j = i THEN e ELSE made[j]
    BY <1>0, <2>0, <2>3, <2>4, OneChanges
  <2>6. \A j \in 1..Len(made) : made'[j].work = made[j].work
    BY <2>3, <2>5
  <2>7. i = open[f]
    BY DEF i
  <2>8. i \in 1..Len(made')
    BY <2>0, <2>5
  <2> QED
    BY <1>1, <1>2, <2>1, <2>5, <2>6, <2>7, <2>8
<1>3. CASE open[f] = 0
  <2> DEFINE i == Len(made) + 1
             e == [Made(f) EXCEPT !.doc = d]
  <2>0. i \in Nat
    BY <1>0
  <2>1. made' = Append(made, e) /\ open' = [open EXCEPT ![f] = i]
        /\ loop' = [scheduler |-> i, graph |-> Compiled(d, trusted')]
    BY <1>3 DEF Load
  <2>2. NoGraph \in Graphs
    BY RuntimeAssumption DEF NoGraph, Graphs
  <2>3. e \in SchedulerRecord /\ e.flow = f /\ e.folder = folder /\ e.work = {}
    BY <1>0, <2>2 DEF Made, SchedulerRecord
  <2> HIDE DEF e
  <2>4. /\ made' \in Seq(SchedulerRecord) /\ Len(made') = i /\ made'[i] = e
        /\ \A j \in 1..Len(made) : made'[j] = made[j]
    BY <1>0, <2>1, <2>3
  <2>5. MadeKept
    BY <1>0, <2>4 DEF MadeKept
  <2>6. i \in 1..Len(made')
    BY <1>0, <2>4
  <2> QED
    BY <1>1, <1>3, <2>1, <2>3, <2>4, <2>5, <2>6
<1> QED
  BY <1>0, <1>2, <1>3

LEMMA LoadEndsFacts ==
  ASSUME Typed, LoadEnds
  PROVE  /\ made' \in Seq(SchedulerRecord) /\ Len(made') = Len(made) /\ MadeKept
         /\ \A i \in 1..Len(made) :
              made'[i].work = IF i = loop.scheduler THEN made[i].work \cup {"armed"} ELSE made[i].work
<1> DEFINE i == loop.scheduler
           Armed(r) == [r EXCEPT !.graph = loop.graph, !.work = @ \cup {"armed"}]
<1>0. made \in Seq(SchedulerRecord) /\ i \in 1..Len(made) /\ loop.graph \in Graphs
  BY DEF Typed, MadeTyped, UpdatesTyped, UpdateRecord, LoadEnds
<1>1. \A r \in SchedulerRecord : /\ Armed(r) \in SchedulerRecord /\ Armed(r).flow = r.flow
                                /\ Armed(r).folder = r.folder /\ Armed(r).work = r.work \cup {"armed"}
  BY <1>0 DEF SchedulerRecord, Work
<1>2. made' = [made EXCEPT ![i] = Armed(made[i])]
  BY DEF LoadEnds
<1> HIDE DEF i, Armed
<1>3. /\ Armed(made[i]) \in SchedulerRecord /\ Armed(made[i]).flow = made[i].flow
      /\ Armed(made[i]).folder = made[i].folder /\ Armed(made[i]).work = made[i].work \cup {"armed"}
  BY <1>0, <1>1
<1>4. /\ made' \in Seq(SchedulerRecord) /\ Len(made') = Len(made) /\ MadeKept
      /\ \A j \in 1..Len(made) : made'[j] = IF j = i THEN Armed(made[i]) ELSE made[j]
  BY <1>0, <1>2, <1>3, OneChanges
<1> QED
  BY <1>3, <1>4 DEF i

LEMMA WorkChanges ==
  ASSUME made \in Seq(SchedulerRecord), NEW i \in 1..Len(made), NEW W \in SUBSET Work,
         made' = [made EXCEPT ![i].work = W]
  PROVE  /\ made' \in Seq(SchedulerRecord) /\ Len(made') = Len(made) /\ MadeKept
         /\ \A j \in 1..Len(made) : made'[j].work = IF j = i THEN W ELSE made[j].work
<1> DEFINE With(r) == [r EXCEPT !.work = W]
<1>1. \A r \in SchedulerRecord : /\ With(r) \in SchedulerRecord /\ With(r).flow = r.flow
                                /\ With(r).folder = r.folder /\ With(r).work = W
  BY DEF SchedulerRecord
<1>2. made' = [made EXCEPT ![i] = With(made[i])]
  OBVIOUS
<1> HIDE DEF With
<1>3. /\ With(made[i]) \in SchedulerRecord /\ With(made[i]).flow = made[i].flow
      /\ With(made[i]).folder = made[i].folder /\ With(made[i]).work = W
  BY <1>1
<1>4. /\ made' \in Seq(SchedulerRecord) /\ Len(made') = Len(made) /\ MadeKept
      /\ \A j \in 1..Len(made) : made'[j] = IF j = i THEN With(made[i]) ELSE made[j]
  BY <1>2, <1>3, OneChanges
<1> QED
  BY <1>3, <1>4

LEMMA DebounceFacts ==
  ASSUME Typed, NEW i \in DOMAIN made, DebounceFires(i)
  PROVE  /\ made' \in Seq(SchedulerRecord) /\ Len(made') = Len(made) /\ MadeKept
         /\ \A j \in 1..Len(made) : made'[j].work = IF j = i THEN {"running"} ELSE made[j].work
<1>1. made \in Seq(SchedulerRecord) /\ i \in 1..Len(made) /\ {"running"} \in SUBSET Work
  BY DEF Typed, MadeTyped, Work
<1>2. made' = [made EXCEPT ![i].work = {"running"}]
  BY DEF DebounceFires
<1> QED
  BY <1>1, <1>2, WorkChanges

LEMMA RunEndsFacts ==
  ASSUME Typed, NEW i \in DOMAIN made, RunEnds(i)
  PROVE  /\ made' \in Seq(SchedulerRecord) /\ Len(made') = Len(made) /\ MadeKept
         /\ \A j \in 1..Len(made) :
              made'[j].work = IF j = i THEN made[i].work \ {"running"} ELSE made[j].work
<1>1. made \in Seq(SchedulerRecord) /\ i \in 1..Len(made) /\ made[i] \in SchedulerRecord
  BY DEF Typed, MadeTyped
<1>2. made[i].work \ {"running"} \in SUBSET Work
  BY <1>1 DEF SchedulerRecord
<1>3. made' = [made EXCEPT ![i].work = made[i].work \ {"running"}]
  BY DEF RunEnds
<1> QED
  BY <1>1, <1>2, <1>3, WorkChanges

LEMMA StartRunFacts ==
  ASSUME Typed, NEW f \in Flows, StartRun(f)
  PROVE  /\ made' \in Seq(SchedulerRecord) /\ Len(made') = Len(made) /\ MadeKept
         /\ open[f] \in 1..Len(made)
         /\ \A j \in 1..Len(made) :
              made'[j].work = IF j = open[f] THEN made[j].work \cup {"running"} ELSE made[j].work
<1>1. made \in Seq(SchedulerRecord) /\ open[f] \in 1..Len(made)
  BY DEF Typed, MadeTyped, StartRun
<1>2. made[open[f]] \in SchedulerRecord
  BY <1>1
<1>3. made[open[f]].work \cup {"running"} \in SUBSET Work
  BY <1>2 DEF SchedulerRecord, Work
<1>4. made' = [made EXCEPT ![open[f]].work = made[open[f]].work \cup {"running"}]
  BY DEF StartRun
<1> DEFINE i == open[f]
           W == made[i].work \cup {"running"}
<1>5. i = open[f] /\ W = made[i].work \cup {"running"}
  OBVIOUS
<1>6. i \in 1..Len(made) /\ W \in SUBSET Work /\ made' = [made EXCEPT ![i].work = W]
  BY <1>1, <1>3, <1>4
<1> HIDE DEF i, W
<1>7. /\ made' \in Seq(SchedulerRecord) /\ Len(made') = Len(made) /\ MadeKept
      /\ \A j \in 1..Len(made) : made'[j].work = IF j = i THEN W ELSE made[j].work
  BY <1>1, <1>6, WorkChanges
<1> QED
  BY <1>5, <1>6, <1>7

LEMMA BeginDeleteFacts ==
  ASSUME Typed, NEW f \in Flows, BeginDelete(f)
  PROVE  /\ made' \in Seq(SchedulerRecord) /\ Len(made') = Len(made) /\ MadeKept
         /\ \A j \in 1..Len(made) :
              made'[j].work = IF j \in {open[f]} \ {0} THEN made[j].work \ {"armed"} ELSE made[j].work
<1> DEFINE I == {open[f]} \ {0}
<1>1. made \in Seq(SchedulerRecord)
  BY DEF Typed, MadeTyped
<1>2. made' = Forgotten(Disarmed(I), I)
  BY DEF BeginDelete
<1> HIDE DEF I
<1>3. /\ Disarmed(I) \in Seq(SchedulerRecord) /\ Len(Disarmed(I)) = Len(made)
      /\ \A i \in 1..Len(made) :
           /\ Disarmed(I)[i].flow = made[i].flow /\ Disarmed(I)[i].folder = made[i].folder
           /\ Disarmed(I)[i].work = IF i \in I THEN made[i].work \ {"armed"} ELSE made[i].work
  BY <1>1, DisarmedFacts
<1>4. /\ made' \in Seq(SchedulerRecord) /\ Len(made') = Len(made)
      /\ \A i \in 1..Len(made) :
           /\ made'[i].flow = Disarmed(I)[i].flow /\ made'[i].folder = Disarmed(I)[i].folder
           /\ made'[i].work = Disarmed(I)[i].work
  BY <1>2, <1>3, ForgottenFacts
<1>5. MadeKept
  <2>1. Len(made') >= Len(made)
    BY <1>1, <1>3, <1>4
  <2>2. \A i \in 1..Len(made) : made'[i].flow = made[i].flow /\ made'[i].folder = made[i].folder
    BY <1>3, <1>4
  <2> QED
    BY <2>1, <2>2 DEF MadeKept
<1>6. \A j \in 1..Len(made) : made'[j].work = IF j \in I THEN made[j].work \ {"armed"} ELSE made[j].work
  BY <1>3, <1>4
<1> QED
  BY <1>4, <1>5, <1>6 DEF I

LEMMA CloseSchedulersFacts ==
  ASSUME Typed, NEW n \in DOMAIN switches, CloseSchedulers(n)
  PROVE  /\ made' \in Seq(SchedulerRecord) /\ Len(made') = Len(made) /\ MadeKept
         /\ \A j \in 1..Len(made) :
              made'[j].work = IF j \in Opened THEN made[j].work \ {"armed"} ELSE made[j].work
<1>1. made \in Seq(SchedulerRecord) /\ made' = Disarmed(Opened)
  BY DEF Typed, MadeTyped, CloseSchedulers
<1> DEFINE I == Opened
<1>2. made' = Disarmed(I)
  BY <1>1
<1> HIDE DEF I
<1>3. /\ Disarmed(I) \in Seq(SchedulerRecord) /\ Len(Disarmed(I)) = Len(made)
      /\ \A i \in 1..Len(made) :
           /\ Disarmed(I)[i].flow = made[i].flow /\ Disarmed(I)[i].folder = made[i].folder
           /\ Disarmed(I)[i].work = IF i \in I THEN made[i].work \ {"armed"} ELSE made[i].work
  BY <1>1, DisarmedFacts
<1>4. MadeKept
  <2>1. Len(made') >= Len(made)
    BY <1>1, <1>2, <1>3
  <2>2. \A i \in 1..Len(made) : made'[i].flow = made[i].flow /\ made'[i].folder = made[i].folder
    BY <1>2, <1>3
  <2> QED
    BY <2>1, <2>2 DEF MadeKept
<1> QED
  BY <1>2, <1>3, <1>4 DEF I

LEMMA EndSwitchFacts ==
  ASSUME Typed, NEW n \in DOMAIN switches, NEW ok \in BOOLEAN, EndSwitch(n, ok)
  PROVE  /\ made' \in Seq(SchedulerRecord) /\ Len(made') = Len(made) /\ MadeKept
         /\ \A j \in 1..Len(made) : made'[j].work = made[j].work
<1>1. made \in Seq(SchedulerRecord) /\ made' = Forgotten(made, Opened)
  BY DEF Typed, MadeTyped, EndSwitch
<1> QED
  BY <1>1, ForgottenFacts DEF MadeKept

\* What recompile_all does to a scheduler leaves its work alone.
LEMMA ThreadFacts ==
  ASSUME Typed, NEW t \in Threads, OnThread(t)
  PROVE  /\ made' \in Seq(SchedulerRecord) /\ Len(made') = Len(made) /\ MadeKept
         /\ \A j \in 1..Len(made) : made'[j].work = made[j].work
<1> DEFINE i == thread[t].scheduler
           Edit(r) == [r EXCEPT !.doc = thread[t].doc]
           Compile(r) == [r EXCEPT !.graph = thread[t].graph]
<1>0. /\ made \in Seq(SchedulerRecord)
      /\ thread[t] \in RecompileRecord /\ StepTyped(thread[t], Len(made))
  BY DEF Typed, MadeTyped, UpdatesTyped
<1>1. thread[t].doc \in Docs \cup {NoDoc} /\ thread[t].graph \in Graphs
      /\ (thread[t].pc \in {"update", "graph"} => i \in 1..Len(made))
  BY <1>0 DEF RecompileRecord, StepTyped
<1>2. CASE made' = made
  BY <1>0, <1>2 DEF MadeKept
<1>3. CASE i \in 1..Len(made) /\ made' = [made EXCEPT ![i].doc = thread[t].doc]
  <2>1. \A r \in SchedulerRecord : /\ Edit(r) \in SchedulerRecord /\ Edit(r).flow = r.flow
                                  /\ Edit(r).folder = r.folder /\ Edit(r).work = r.work
    BY <1>1 DEF SchedulerRecord
  <2>2. made' = [made EXCEPT ![i] = Edit(made[i])]
    BY <1>3
  <2> HIDE DEF i, Edit
  <2>3. /\ Edit(made[i]) \in SchedulerRecord /\ Edit(made[i]).flow = made[i].flow
        /\ Edit(made[i]).folder = made[i].folder /\ Edit(made[i]).work = made[i].work
    BY <1>0, <1>3, <2>1
  <2>4. /\ made' \in Seq(SchedulerRecord) /\ Len(made') = Len(made) /\ MadeKept
        /\ \A j \in 1..Len(made) : made'[j] = IF j = i THEN Edit(made[i]) ELSE made[j]
    BY <1>0, <1>3, <2>2, <2>3, OneChanges
  <2> QED
    BY <2>3, <2>4
<1>4. CASE i \in 1..Len(made) /\ made' = [made EXCEPT ![i].graph = thread[t].graph]
  <2>1. \A r \in SchedulerRecord : /\ Compile(r) \in SchedulerRecord /\ Compile(r).flow = r.flow
                                  /\ Compile(r).folder = r.folder /\ Compile(r).work = r.work
    BY <1>1 DEF SchedulerRecord
  <2>2. made' = [made EXCEPT ![i] = Compile(made[i])]
    BY <1>4
  <2> HIDE DEF i, Compile
  <2>3. /\ Compile(made[i]) \in SchedulerRecord /\ Compile(made[i]).flow = made[i].flow
        /\ Compile(made[i]).folder = made[i].folder /\ Compile(made[i]).work = made[i].work
    BY <1>0, <1>4, <2>1
  <2>4. /\ made' \in Seq(SchedulerRecord) /\ Len(made') = Len(made) /\ MadeKept
        /\ \A j \in 1..Len(made) : made'[j] = IF j = i THEN Compile(made[i]) ELSE made[j]
    BY <1>0, <1>4, <2>2, <2>3, OneChanges
  <2> QED
    BY <2>3, <2>4
<1>5. \/ made' = made
      \/ i \in 1..Len(made) /\ made' = [made EXCEPT ![i].doc = thread[t].doc]
      \/ i \in 1..Len(made) /\ made' = [made EXCEPT ![i].graph = thread[t].graph]
  <2>1. CASE Recompile(t)
    BY <1>1, <2>1 DEF Recompile
  <2>2. CASE Recompiled(t)
    BY <1>1, <2>2 DEF Recompiled
  <2>3. CASE ~Recompile(t) /\ ~Recompiled(t)
    BY <2>3 DEF OnThread, Decide, PacksChange, ListSchedulers, PickScheduler, dict
  <2> QED
    BY <2>1, <2>2, <2>3
<1> QED
  BY <1>2, <1>3, <1>4, <1>5

LEMMA MadeTypedStep ==
  ASSUME Typed, [Next]_vars
  PROVE  MadeTyped' /\ MadeKept
<1>0. made \in Seq(SchedulerRecord) /\ open \in [Flows -> Nat] /\ \A f \in Flows : open[f] <= Len(made)
  BY DEF Typed, MadeTyped
<1>1. CASE UNCHANGED dict
  BY <1>0, <1>1 DEF dict, MadeTyped, MadeKept
<1>2. CASE /\ made' \in Seq(SchedulerRecord) /\ Len(made') = Len(made) /\ MadeKept
           /\ open' \in [Flows -> Nat] /\ \A f \in Flows : open'[f] \in {open[f], 0}
  <2>1. \A f \in Flows : open'[f] <= Len(made')
    BY <1>0, <1>2
  <2> QED
    BY <1>2, <2>1 DEF MadeTyped
<1>3. ASSUME NEW f \in Flows, NEW d \in Docs, Load(f, d), UNCHANGED folder PROVE MadeTyped' /\ MadeKept
  <2>1. made' \in Seq(SchedulerRecord) /\ MadeKept
    BY <1>3, DatabaseTypedStep, LoadFacts
  <2>2. PICK i \in 1..Len(made') : open' = [open EXCEPT ![f] = i]
    BY <1>3, DatabaseTypedStep, LoadFacts
  <2>3. \A g \in Flows : open'[g] <= Len(made')
    BY <1>0, <2>1, <2>2 DEF MadeKept
  <2> QED
    BY <1>0, <2>1, <2>2, <2>3 DEF MadeTyped
<1>4. CASE LoadEnds
  BY <1>0, <1>2, <1>4, LoadEndsFacts DEF LoadEnds
<1>5. ASSUME NEW i \in DOMAIN made, DebounceFires(i) PROVE MadeTyped' /\ MadeKept
  BY <1>0, <1>2, <1>5, DebounceFacts DEF DebounceFires
<1>6. ASSUME NEW i \in DOMAIN made, RunEnds(i) PROVE MadeTyped' /\ MadeKept
  BY <1>0, <1>2, <1>6, RunEndsFacts DEF RunEnds
<1>7. ASSUME NEW f \in Flows, StartRun(f) PROVE MadeTyped' /\ MadeKept
  BY <1>0, <1>2, <1>7, StartRunFacts DEF StartRun
<1>8. ASSUME NEW f \in Flows, BeginDelete(f) PROVE MadeTyped' /\ MadeKept
  <2>1. open' \in [Flows -> Nat] /\ \A g \in Flows : open'[g] \in {open[g], 0}
    BY <1>0, <1>8 DEF BeginDelete
  <2> QED
    BY <1>2, <1>8, <2>1, BeginDeleteFacts
<1>9. ASSUME NEW n \in DOMAIN switches, CloseSchedulers(n) PROVE MadeTyped' /\ MadeKept
  BY <1>0, <1>2, <1>9, CloseSchedulersFacts DEF CloseSchedulers
<1>10. ASSUME NEW n \in DOMAIN switches, NEW ok \in BOOLEAN, EndSwitch(n, ok) PROVE MadeTyped' /\ MadeKept
  <2>1. open' \in [Flows -> Nat] /\ \A g \in Flows : open'[g] \in {open[g], 0}
    BY <1>0, <1>10 DEF EndSwitch
  <2> QED
    BY <1>2, <1>10, <2>1, EndSwitchFacts
<1>11. ASSUME NEW t \in Threads, OnThread(t) PROVE MadeTyped' /\ MadeKept
  BY <1>0, <1>2, <1>11, ThreadFacts, ThreadKeeps
<1>12. ASSUME NEW f \in Flows, Access(f) \/ \E d \in Docs : Put(f, d) PROVE MadeTyped' /\ MadeKept
  BY <1>3, <1>12 DEF Access, Put
<1>13. ASSUME NEW f \in Flows, Damage(f) PROVE MadeTyped' /\ MadeKept
  BY <1>1, <1>13 DEF Damage
<1>14. ASSUME NEW d \in deletes, EndDelete(d) PROVE MadeTyped' /\ MadeKept
  BY <1>1, <1>14 DEF EndDelete
<1>15. ASSUME NEW w \in Folders, BeginSwitch(w) PROVE MadeTyped' /\ MadeKept
  BY <1>1, <1>15 DEF BeginSwitch
<1>16. CASE UNCHANGED vars
  BY <1>1, <1>16 DEF vars
<1> QED
  BY <1>4, <1>5, <1>6, <1>7, <1>8, <1>9, <1>10, <1>11, <1>12, <1>13, <1>14, <1>15, <1>16 DEF Next

LEMMA FlagsTypedStep ==
  ASSUME Typed, [Next]_vars
  PROVE  FlagsTyped'
<1>0. /\ crowded \in BOOLEAN /\ raced \subseteq Nat /\ owed \in [Flows -> 0..MaxTrust]
      /\ made \in Seq(SchedulerRecord) /\ open \in [Flows -> Nat] /\ folder \in Folders
      /\ MaxTrust \in Nat
  BY RuntimeAssumption DEF Typed, FlagsTyped, MadeTyped, SwitchesTyped
<1>d. trusted' \in [Folders -> 0..MaxTrust]
  BY DatabaseTypedStep DEF DatabaseTyped
<1>1. CASE UNCHANGED <<crowded, raced, owed>>
  BY <1>0, <1>1 DEF FlagsTyped
<1>2. ASSUME NEW f \in Flows, NEW d \in Docs, Load(f, d), UNCHANGED folder, crowded' = (crowded \/ IsBeingDropped(f))
      PROVE  FlagsTyped'
  <2>1. PICK i \in Nat : raced' = IF Picked(i) THEN raced \cup {i} ELSE raced \ {i}
    <3>1. Len(made) + 1 \in Nat /\ open[f] \in Nat
      BY <1>0
    <3> QED
      BY <1>2, <3>1 DEF Load
  <2>2. raced' \subseteq Nat
    BY <1>0, <2>1
  <2>3. owed' \in [Flows -> 0..MaxTrust]
    BY <1>0, <1>d, <1>2 DEF Load
  <2>4. crowded' \in BOOLEAN
    BY <1>0, <1>2
  <2> QED
    BY <2>2, <2>3, <2>4 DEF FlagsTyped
<1>3. ASSUME NEW t \in Threads, OnThread(t) PROVE FlagsTyped'
  <2>1. raced' \subseteq Nat
    <3>1. CASE \E i \in DOMAIN made : PickScheduler(t, i)
      BY <1>0, <3>1 DEF PickScheduler
    <3>2. CASE ~\E i \in DOMAIN made : PickScheduler(t, i)
      BY <1>0, <1>3, <3>2 DEF OnThread, Decide, PacksChange, ListSchedulers, Recompile, Recompiled
    <3> QED
      BY <3>1, <3>2
  <2>2. owed' \in [Flows -> 0..MaxTrust]
    <3>1. CASE Decide(t)
      BY <1>0, <1>d, <3>1 DEF Decide
    <3>2. CASE ~Decide(t)
      BY <1>0, <1>3, <3>2 DEF OnThread, PacksChange, ListSchedulers, PickScheduler, Recompile, Recompiled
    <3> QED
      BY <3>1, <3>2
  <2> QED
    BY <1>0, <1>3, <2>1, <2>2, ThreadKeeps DEF FlagsTyped
<1>4. CASE LoadEnds \/ UNCHANGED vars
  BY <1>1, <1>4 DEF LoadEnds, vars
<1>5. ASSUME NEW i \in DOMAIN made, DebounceFires(i) \/ RunEnds(i) PROVE FlagsTyped'
  BY <1>1, <1>5 DEF DebounceFires, RunEnds
<1>6. ASSUME NEW f \in Flows, Access(f) PROVE FlagsTyped'
  <2>1. rows[folder][f].doc \in Docs
    BY <1>6 DEF Access
  <2> QED
    BY <1>2, <1>6, <2>1 DEF Access
<1>7. ASSUME NEW f \in Flows, NEW d \in Docs, Put(f, d) PROVE FlagsTyped'
  BY <1>2, <1>7 DEF Put
<1>8. ASSUME NEW f \in Flows, StartRun(f) PROVE FlagsTyped'
  <2>1. crowded' \in BOOLEAN /\ UNCHANGED <<raced, owed>>
    BY <1>0, <1>8 DEF StartRun
  <2> QED
    BY <1>0, <2>1 DEF FlagsTyped
<1>9. ASSUME NEW f \in Flows, Damage(f) \/ BeginDelete(f) PROVE FlagsTyped'
  BY <1>1, <1>9 DEF Damage, BeginDelete
<1>10. ASSUME NEW d \in deletes, EndDelete(d) PROVE FlagsTyped'
  BY <1>1, <1>10 DEF EndDelete
<1>11. ASSUME NEW w \in Folders, BeginSwitch(w) PROVE FlagsTyped'
  BY <1>1, <1>11 DEF BeginSwitch
<1>12. ASSUME NEW n \in DOMAIN switches, CloseSchedulers(n) PROVE FlagsTyped'
  BY <1>1, <1>12 DEF CloseSchedulers
<1>13. ASSUME NEW n \in DOMAIN switches, NEW ok \in BOOLEAN, EndSwitch(n, ok) PROVE FlagsTyped'
  BY <1>0, <1>13 DEF EndSwitch, FlagsTyped
<1> QED
  BY <1>3, <1>4, <1>5, <1>6, <1>7, <1>8, <1>9, <1>10, <1>11, <1>12, <1>13 DEF Next

-----------------------------------------------------------------------------
(* The updates on the loop and on the thread *)

LEMMA UpdatesTypedStep ==
  ASSUME Typed, [Next]_vars
  PROVE  UpdatesTyped'
<1>0. /\ loop \in UpdateRecord /\ (LoopIsFree \/ loop.scheduler \in 1..Len(made))
      /\ thread \in [Threads -> RecompileRecord] /\ \A t \in Threads : StepTyped(thread[t], Len(made))
      /\ made \in Seq(SchedulerRecord) /\ open \in [Flows -> Nat]
      /\ \A f \in Flows : open[f] <= Len(made)
      /\ trusted \in [Folders -> 0..MaxTrust] /\ folder \in Folders /\ MaxTrust \in Nat
  BY RuntimeAssumption DEF Typed, UpdatesTyped, MadeTyped, DatabaseTyped, SwitchesTyped
<1>k. Len(made') \in Nat /\ Len(made') >= Len(made)
  BY MadeTypedStep DEF MadeTyped, MadeKept
<1>g. NoGraph \in Graphs /\ NoUpdate \in UpdateRecord /\ NoRecompile \in RecompileRecord
  BY <1>0 DEF NoGraph, Graphs, NoUpdate, NoRecompile, UpdateRecord, RecompileRecord
<1>c. \A d \in Docs \cup {NoDoc} : Compiled(d, trusted) \in Graphs
  BY <1>0 DEF Compiled, Graphs
<1>s. \A r \in RecompileRecord : StepTyped(r, Len(made)) => StepTyped(r, Len(made'))
  BY <1>0, <1>k DEF StepTyped, RecompileRecord
<1>w. UNCHANGED thread => /\ thread' \in [Threads -> RecompileRecord]
                          /\ \A t \in Threads : StepTyped(thread'[t], Len(made'))
  BY <1>0, <1>s
<1>l. UNCHANGED loop => /\ loop' \in UpdateRecord
                        /\ LoopIsFree' \/ loop'.scheduler \in 1..Len(made')
  BY <1>0, <1>k DEF LoopIsFree
<1>1. CASE UNCHANGED <<loop, thread>>
  BY <1>1, <1>w, <1>l DEF UpdatesTyped
<1>2. ASSUME NEW f \in Flows, NEW d \in Docs, Load(f, d), UNCHANGED <<thread, folder>> PROVE UpdatesTyped'
  <2>1. PICK i \in 1..Len(made') : /\ loop' = [scheduler |-> i, graph |-> Compiled(d, trusted')]
                                   /\ Compiled(d, trusted') \in Graphs
    BY <1>2, DatabaseTypedStep, LoadFacts
  <2>2. loop' \in UpdateRecord /\ loop'.scheduler \in 1..Len(made')
    BY <1>k, <2>1 DEF UpdateRecord
  <2> QED
    BY <1>2, <1>w, <2>2 DEF UpdatesTyped
<1>3. CASE LoadEnds
  <2>1. loop' \in UpdateRecord /\ LoopIsFree' /\ UNCHANGED thread
    BY <1>3, <1>g DEF LoadEnds, LoopIsFree
  <2> QED
    BY <1>w, <2>1 DEF UpdatesTyped
\* A thread goes from one step to another.
<1>4. ASSUME NEW t \in Threads, NEW r \in RecompileRecord, Goes(t, r), StepTyped(r, Len(made)), UNCHANGED loop
      PROVE  UpdatesTyped'
  <2>1. thread' \in [Threads -> RecompileRecord]
        /\ \A u \in Threads : thread'[u] = IF u = t THEN r ELSE thread[u]
    BY <1>0, <1>4 DEF Goes
  <2>2. \A u \in Threads : StepTyped(thread'[u], Len(made'))
    BY <1>0, <1>s, <1>4, <2>1
  <2> QED
    BY <1>l, <1>4, <2>1, <2>2 DEF UpdatesTyped
<1>n. NoRecompile \in RecompileRecord /\ StepTyped(NoRecompile, Len(made))
  BY <1>0, <1>g DEF NoRecompile, StepTyped
<1>5. ASSUME NEW t \in Threads, OnThread(t) PROVE UpdatesTyped'
  <2>0. /\ thread[t] \in RecompileRecord /\ StepTyped(thread[t], Len(made)) /\ UNCHANGED loop
    BY <1>0, <1>5, ThreadKeeps
  <2>1. CASE Decide(t) \/ PacksChange(t)
    <3> DEFINE e == [NoRecompile EXCEPT !.pc = "list"]
    <3>1. e \in RecompileRecord /\ StepTyped(e, Len(made))
      BY <1>n DEF NoRecompile, StepTyped, RecompileRecord
    <3>2. Goes(t, e)
      BY <2>1 DEF Decide, PacksChange
    <3> HIDE DEF e
    <3> QED
      BY <1>4, <2>0, <3>1, <3>2
  <2>2. CASE ListSchedulers(t)
    <3> DEFINE Q == Opened
               e == [thread[t] EXCEPT !.pc = "next", !.queue = Q]
    <3>1. Q \subseteq 1..Len(made) /\ Q \in SUBSET Nat
      BY <1>0 DEF Opened
    <3>2. Goes(t, IF Q = {} THEN NoRecompile ELSE e)
      BY <2>2 DEF ListSchedulers
    <3> HIDE DEF Q
    <3>3. e \in RecompileRecord /\ StepTyped(e, Len(made))
      BY <2>0, <3>1 DEF RecompileRecord, StepTyped
    <3> HIDE DEF e
    <3> QED
      BY <1>4, <1>n, <2>0, <3>2, <3>3
  <2>3. ASSUME NEW i \in DOMAIN made, PickScheduler(t, i) PROVE UpdatesTyped'
    <3> DEFINE d == made[i].doc
               e == [thread[t] EXCEPT !.pc = "update", !.queue = @ \ {i}, !.scheduler = i, !.doc = d]
    <3>1. i \in 1..Len(made) /\ i \in Nat
      BY <1>0
    <3>2. d \in Docs \cup {NoDoc}
      <4>1. \A r \in SchedulerRecord : r.doc \in Docs \cup {NoDoc}
        BY DEF SchedulerRecord
      <4>2. made[i] \in SchedulerRecord
        BY <1>0, <3>1
      <4> QED
        BY <4>1, <4>2
    <3>3. Goes(t, e)
      BY <2>3 DEF PickScheduler
    <3> HIDE DEF d
    <3>4. /\ e \in RecompileRecord /\ e.scheduler = i /\ e.queue \subseteq thread[t].queue
      BY <2>0, <3>1, <3>2 DEF RecompileRecord
    <3> HIDE DEF e
    <3>5. StepTyped(e, Len(made))
      BY <1>0, <2>0, <3>1, <3>4 DEF StepTyped
    <3> QED
      BY <1>4, <2>0, <3>3, <3>4, <3>5
  <2>4. CASE Recompile(t)
    <3> DEFINE g == Compiled(thread[t].doc, trusted)
               e == [thread[t] EXCEPT !.pc = "graph", !.graph = g]
    <3>1. thread[t].doc \in Docs \cup {NoDoc}
      BY <2>0 DEF RecompileRecord
    <3>2. g \in Graphs
      BY <1>c, <3>1
    <3>3. Goes(t, e) /\ thread[t].pc = "update"
      BY <2>4 DEF Recompile
    <3> HIDE DEF g
    <3>4. e \in RecompileRecord /\ e.scheduler = thread[t].scheduler /\ e.queue = thread[t].queue
      BY <2>0, <3>2 DEF RecompileRecord
    <3> HIDE DEF e
    <3>5. StepTyped(e, Len(made))
      BY <2>0, <3>3, <3>4 DEF StepTyped
    <3> QED
      BY <1>4, <2>0, <3>3, <3>4, <3>5
  <2>5. CASE Recompiled(t)
    <3> DEFINE Q == thread[t].queue
               e == [NoRecompile EXCEPT !.pc = "next", !.queue = Q]
    <3>1. Goes(t, IF Q = {} THEN NoRecompile ELSE e)
      BY <2>5 DEF Recompiled, NextRecompile
    <3>2. Q \in SUBSET Nat /\ Q \subseteq 1..Len(made)
      BY <2>0 DEF RecompileRecord, StepTyped
    <3> HIDE DEF Q
    <3>3. e \in RecompileRecord /\ e.scheduler = 0 /\ e.queue = Q /\ e.pc = "next"
      BY <1>g, <3>2 DEF NoRecompile, RecompileRecord
    <3> HIDE DEF e
    <3>4. StepTyped(e, Len(made))
      BY <1>0, <3>2, <3>3 DEF StepTyped
    <3> QED
      BY <1>4, <1>n, <2>0, <3>1, <3>3, <3>4
  <2> QED
    BY <1>5, <2>1, <2>2, <2>3, <2>4, <2>5 DEF OnThread
<1>9. ASSUME NEW f \in Flows, Access(f) PROVE UpdatesTyped'
  <2>1. rows[folder][f].doc \in Docs
    BY <1>9 DEF Access
  <2> QED
    BY <1>2, <1>9, <2>1 DEF Access
<1>10. ASSUME NEW f \in Flows, NEW d \in Docs, Put(f, d) PROVE UpdatesTyped'
  BY <1>2, <1>10 DEF Put
<1>11. ASSUME NEW f \in Flows, StartRun(f) \/ Damage(f) \/ BeginDelete(f) PROVE UpdatesTyped'
  BY <1>1, <1>11 DEF StartRun, Damage, BeginDelete
<1>12. ASSUME NEW d \in deletes, EndDelete(d) PROVE UpdatesTyped'
  BY <1>1, <1>12 DEF EndDelete
<1>13. ASSUME NEW w \in Folders, BeginSwitch(w) PROVE UpdatesTyped'
  BY <1>1, <1>13 DEF BeginSwitch
<1>14. ASSUME NEW n \in DOMAIN switches, CloseSchedulers(n) \/ \E ok \in BOOLEAN : EndSwitch(n, ok)
       PROVE  UpdatesTyped'
  BY <1>1, <1>14 DEF CloseSchedulers, EndSwitch
<1>15. ASSUME NEW i \in DOMAIN made, DebounceFires(i) \/ RunEnds(i) PROVE UpdatesTyped'
  BY <1>1, <1>15 DEF DebounceFires, RunEnds
<1>16. CASE UNCHANGED vars
  BY <1>1, <1>16 DEF vars
<1> QED
  BY <1>3, <1>5, <1>9, <1>10, <1>11, <1>12, <1>13, <1>14, <1>15, <1>16 DEF Next
-----------------------------------------------------------------------------
(* The dictionary and the loop *)

LEMMA OpenIsOwnStep ==
  ASSUME Typed, OpenIsOwn, [Next]_vars
  PROVE  OpenIsOwn'
<1>0. /\ made \in Seq(SchedulerRecord) /\ open \in [Flows -> Nat]
      /\ \A f \in Flows : open[f] <= Len(made)
      /\ \A f \in Flows : open[f] # 0 => made[open[f]].flow = f /\ made[open[f]].folder = folder
      /\ \A i \in 1..Len(made) : made'[i].flow = made[i].flow /\ made'[i].folder = made[i].folder
  BY MadeTypedStep DEF Typed, MadeTyped, OpenIsOwn, MadeKept
<1>1. CASE UNCHANGED folder /\ \A f \in Flows : open'[f] \in {open[f], 0}
  <2>1. ASSUME NEW f \in Flows, open'[f] # 0
        PROVE  made'[open'[f]].flow = f /\ made'[open'[f]].folder = folder'
    <3>1. open'[f] = open[f] /\ open[f] \in 1..Len(made)
      BY <1>0, <1>1, <2>1
    <3> QED
      BY <1>0, <1>1, <2>1, <3>1
  <2> QED
    BY <2>1 DEF OpenIsOwn
<1>2. CASE \A f \in Flows : open'[f] = 0
  BY <1>2 DEF OpenIsOwn
<1>3. ASSUME NEW f \in Flows, NEW d \in Docs, Load(f, d), UNCHANGED folder PROVE OpenIsOwn'
  <2>1. PICK i \in 1..Len(made') :
          /\ open' = [open EXCEPT ![f] = i]
          /\ open[f] = 0 => made'[i].flow = f /\ made'[i].folder = folder
          /\ i = open[f] \/ open[f] = 0
    BY <1>3, DatabaseTypedStep, LoadFacts
  <2>2. ASSUME NEW g \in Flows, open'[g] # 0
        PROVE  made'[open'[g]].flow = g /\ made'[open'[g]].folder = folder'
    <3>1. CASE open'[g] = open[g]
      <4>1. open[g] \in 1..Len(made)
        BY <1>0, <2>2, <3>1
      <4> QED
        BY <1>0, <1>3, <2>2, <3>1, <4>1
    <3>2. CASE g = f /\ open[f] = 0
      BY <1>0, <1>3, <2>1, <3>2
    <3> QED
      BY <1>0, <2>1, <3>1, <3>2
  <2> QED
    BY <2>2 DEF OpenIsOwn
<1>4. ASSUME NEW f \in Flows, Access(f) PROVE OpenIsOwn'
  <2>1. rows[folder][f].doc \in Docs
    BY <1>4 DEF Access
  <2> QED
    BY <1>3, <1>4, <2>1 DEF Access
<1>5. ASSUME NEW f \in Flows, NEW d \in Docs, Put(f, d) PROVE OpenIsOwn'
  BY <1>3, <1>5 DEF Put
<1>6. ASSUME NEW f \in Flows, StartRun(f) \/ Damage(f) PROVE OpenIsOwn'
  BY <1>1, <1>6 DEF StartRun, Damage, dict
<1>7. ASSUME NEW f \in Flows, BeginDelete(f) PROVE OpenIsOwn'
  BY <1>0, <1>1, <1>7 DEF BeginDelete
<1>8. ASSUME NEW d \in deletes, EndDelete(d) PROVE OpenIsOwn'
  BY <1>1, <1>8 DEF EndDelete, dict
<1>9. ASSUME NEW w \in Folders, BeginSwitch(w) PROVE OpenIsOwn'
  BY <1>1, <1>9 DEF BeginSwitch, dict
<1>10. ASSUME NEW n \in DOMAIN switches, CloseSchedulers(n) PROVE OpenIsOwn'
  BY <1>1, <1>10 DEF CloseSchedulers
<1>11. ASSUME NEW n \in DOMAIN switches, NEW ok \in BOOLEAN, EndSwitch(n, ok) PROVE OpenIsOwn'
  BY <1>2, <1>11 DEF EndSwitch
<1>12. ASSUME NEW i \in DOMAIN made, DebounceFires(i) \/ RunEnds(i) PROVE OpenIsOwn'
  BY <1>1, <1>12 DEF DebounceFires, RunEnds, dict
<1>13. CASE LoadEnds \/ UNCHANGED vars
  BY <1>1, <1>13 DEF LoadEnds, vars, dict
<1>14. ASSUME NEW t \in Threads, OnThread(t) PROVE OpenIsOwn'
  BY <1>1, <1>14, ThreadKeeps DEF watching, dict
<1> QED
  BY <1>4, <1>5, <1>6, <1>7, <1>8, <1>9, <1>10, <1>11, <1>12, <1>13, <1>14 DEF Next

LEMMA LoopStep ==
  ASSUME Typed, LoopIsOpen, LoopQuiet, [Next]_vars
  PROVE  LoopIsOpen' /\ LoopQuiet'
<1>1. CASE UNCHANGED <<open, loop, switches, crowded>>
  BY <1>1 DEF LoopIsOpen, LoopQuiet, LoopIsFree, IsOpen, NobodyCloses
<1>2. CASE LoopIsFree'
  BY <1>2 DEF LoopIsOpen, LoopQuiet
<1>3. ASSUME NEW f \in Flows, NEW d \in Docs, Load(f, d), UNCHANGED <<folder, switches>>,
             crowded' = (crowded \/ IsBeingDropped(f))
      PROVE  LoopIsOpen' /\ LoopQuiet'
  <2>0. open \in [Flows -> Nat]
    BY DEF Typed, MadeTyped
  <2>1. PICK i \in 1..Len(made') : /\ open' = [open EXCEPT ![f] = i]
                                   /\ loop' = [scheduler |-> i, graph |-> Compiled(d, trusted')]
    BY <1>3, DatabaseTypedStep, LoadFacts
  <2>2. open'[f] = loop'.scheduler
    BY <2>0, <2>1
  <2>3. ~crowded' => NobodyCloses
    BY <1>3 DEF IsBeingDropped, NobodyCloses
  <2> QED
    BY <1>3, <2>2, <2>3 DEF LoopIsOpen, LoopQuiet, IsOpen, NobodyCloses
<1>4. ASSUME NEW f \in Flows, Access(f) PROVE LoopIsOpen' /\ LoopQuiet'
  <2>1. rows[folder][f].doc \in Docs
    BY <1>4 DEF Access
  <2> QED
    BY <1>3, <1>4, <2>1 DEF Access
<1>5. ASSUME NEW f \in Flows, NEW d \in Docs, Put(f, d) PROVE LoopIsOpen' /\ LoopQuiet'
  BY <1>3, <1>5 DEF Put
<1>6. ASSUME NEW f \in Flows, StartRun(f) \/ BeginDelete(f) PROVE LoopIsOpen' /\ LoopQuiet'
  BY <1>2, <1>6 DEF StartRun, BeginDelete, LoopIsFree
<1>7. ASSUME NEW f \in Flows, Damage(f) PROVE LoopIsOpen' /\ LoopQuiet'
  BY <1>1, <1>7 DEF Damage, dict
<1>8. ASSUME NEW d \in deletes, EndDelete(d) PROVE LoopIsOpen' /\ LoopQuiet'
  BY <1>2, <1>8 DEF EndDelete, LoopIsFree
<1>9. ASSUME NEW w \in Folders, BeginSwitch(w) PROVE LoopIsOpen' /\ LoopQuiet'
  BY <1>2, <1>9 DEF BeginSwitch, LoopIsFree
<1>10. ASSUME NEW n \in DOMAIN switches, CloseSchedulers(n) \/ \E ok \in BOOLEAN : EndSwitch(n, ok)
       PROVE  LoopIsOpen' /\ LoopQuiet'
  BY <1>2, <1>10 DEF CloseSchedulers, EndSwitch, LoopIsFree
<1>11. ASSUME NEW i \in DOMAIN made, DebounceFires(i) \/ RunEnds(i) PROVE LoopIsOpen' /\ LoopQuiet'
  BY <1>2, <1>11 DEF DebounceFires, RunEnds, LoopIsFree
<1>12. ASSUME NEW t \in Threads, OnThread(t) PROVE LoopIsOpen' /\ LoopQuiet'
  BY <1>1, <1>12, ThreadKeeps
<1>13. CASE LoadEnds
  BY <1>2, <1>13 DEF LoadEnds, LoopIsFree
<1>14. CASE UNCHANGED vars
  BY <1>1, <1>14 DEF vars, dict
<1> QED
  BY <1>4, <1>5, <1>6, <1>7, <1>8, <1>9, <1>10, <1>11, <1>12, <1>13, <1>14 DEF Next

-----------------------------------------------------------------------------
(* What is closed stays closed, and what is dropped rests *)

\* The work of the schedulers there were stays the same.
SameWork == \A i \in 1..Len(made) : made'[i].work = made[i].work

LEMMA ClosedStayStep ==
  ASSUME Typed, LoopQuiet, ClosedStay, [Next]_vars
  PROVE  ClosedStay'
<1>0. /\ made \in Seq(SchedulerRecord) /\ DOMAIN made = 1..Len(made)
      /\ switches \in Seq(SwitchRecord) /\ DOMAIN switches = 1..Len(switches)
      /\ open \in [Flows -> Nat] /\ \A f \in Flows : open[f] # 0 => open[f] \in 1..Len(made)
  BY DEF Typed, MadeTyped, SwitchesTyped
<1>1. CASE UNCHANGED <<open, switches, crowded>> /\ SameWork
  BY <1>0, <1>1 DEF ClosedStay, SameWork, Closing
\* Nobody is closing.
<1>2. CASE UNCHANGED switches /\ (~crowded' => NobodyCloses)
  BY <1>2 DEF ClosedStay, NobodyCloses
\* Work only goes, and so do entries of the dictionary.
<1>3. CASE /\ UNCHANGED crowded
           /\ \A f \in Flows : open'[f] \in {open[f], 0}
           /\ \A n \in DOMAIN switches' : Closing(switches'[n]) => n \in DOMAIN switches /\ switches'[n] = switches[n]
           /\ \A i \in 1..Len(made) : made'[i].work \subseteq made[i].work
  <2>1. ASSUME ~crowded', NEW n \in DOMAIN switches', Closing(switches'[n]), NEW f \in Flows, open'[f] # 0
        PROVE  /\ "armed" \notin made'[open'[f]].work
               /\ "running" \in made'[open'[f]].work => open'[f] \in switches'[n].waits
    <3>1. open'[f] = open[f] /\ open[f] \in 1..Len(made) /\ n \in DOMAIN switches /\ switches'[n] = switches[n]
      BY <1>0, <1>3, <2>1
    <3>2. /\ "armed" \notin made[open[f]].work
          /\ "running" \in made[open[f]].work => open[f] \in switches[n].waits
      BY <1>3, <2>1, <3>1 DEF ClosedStay
    <3> QED
      BY <1>3, <3>1, <3>2
  <2> QED
    BY <2>1 DEF ClosedStay
<1>4. CASE LoadEnds
  <2>1. ~crowded' => NobodyCloses
    BY <1>4 DEF LoadEnds, LoopQuiet
  <2> QED
    BY <1>2, <1>4, <2>1 DEF LoadEnds
<1>5. ASSUME NEW i \in DOMAIN made, DebounceFires(i) PROVE ClosedStay'
  <2>1. UNCHANGED <<open, switches, crowded>> /\ made[i].work = {"armed"}
    BY <1>5 DEF DebounceFires
  <2>2. ASSUME ~crowded, NEW n \in DOMAIN switches, Closing(switches[n]), NEW f \in Flows, open[f] # 0
        PROVE  /\ "armed" \notin made'[open[f]].work
               /\ "running" \in made'[open[f]].work => open[f] \in switches[n].waits
    <3>1. /\ "armed" \notin made[open[f]].work
          /\ "running" \in made[open[f]].work => open[f] \in switches[n].waits
      BY <2>2 DEF ClosedStay
    <3>2. open[f] # i
      BY <2>1, <3>1
    <3>3. made'[open[f]].work = made[open[f]].work
      BY <1>0, <1>5, <2>2, <3>2, DebounceFacts
    <3> QED
      BY <3>1, <3>3
  <2> QED
    BY <2>1, <2>2 DEF ClosedStay
<1>6. ASSUME NEW i \in DOMAIN made, RunEnds(i) PROVE ClosedStay'
  <2>1. /\ UNCHANGED <<open, crowded>> /\ DOMAIN switches' = DOMAIN switches
        /\ \A n \in DOMAIN switches : switches'[n] = [switches[n] EXCEPT !.waits = @ \ {i}]
    BY <1>6 DEF RunEnds
  <2> DEFINE Less(s) == [s EXCEPT !.waits = @ \ {i}]
  <2>0. \A s \in SwitchRecord : Less(s).pc = s.pc /\ Less(s).waits = s.waits \ {i}
    BY DEF SwitchRecord
  <2>s. \A n \in DOMAIN switches : switches'[n] = Less(switches[n]) /\ switches[n] \in SwitchRecord
    BY <1>0, <2>1
  <2> HIDE DEF Less
  <2>2. \A n \in DOMAIN switches : switches'[n].pc = switches[n].pc /\ switches'[n].waits = switches[n].waits \ {i}
    BY <2>0, <2>s
  <2>3. ASSUME ~crowded, NEW n \in DOMAIN switches, Closing(switches'[n]), NEW f \in Flows, open[f] # 0
        PROVE  /\ "armed" \notin made'[open[f]].work
               /\ "running" \in made'[open[f]].work => open[f] \in switches'[n].waits
    <3>1. Closing(switches[n])
      BY <2>2, <2>3 DEF Closing
    <3>2. /\ "armed" \notin made[open[f]].work
          /\ "running" \in made[open[f]].work => open[f] \in switches[n].waits
      BY <2>3, <3>1 DEF ClosedStay
    <3>3. made'[open[f]].work = IF open[f] = i THEN made[i].work \ {"running"} ELSE made[open[f]].work
      BY <1>0, <1>6, <2>3, RunEndsFacts
    <3> QED
      BY <2>2, <3>2, <3>3
  <2> QED
    BY <2>1, <2>3 DEF ClosedStay
<1>7. ASSUME NEW f \in Flows, StartRun(f) PROVE ClosedStay'
  <2>1. ~crowded' => NobodyCloses
    BY <1>7 DEF StartRun, IsBeingDropped, NobodyCloses
  <2> QED
    BY <1>2, <1>7, <2>1 DEF StartRun
<1>8. ASSUME NEW f \in Flows, BeginDelete(f) PROVE ClosedStay'
  <2>1. \A i \in 1..Len(made) : made'[i].work \subseteq made[i].work
    BY <1>8, BeginDeleteFacts
  <2>2. UNCHANGED <<crowded, switches>> /\ \A g \in Flows : open'[g] \in {open[g], 0}
    BY <1>0, <1>8 DEF BeginDelete
  <2> QED
    BY <1>3, <2>1, <2>2
<1>9. ASSUME NEW w \in Folders, BeginSwitch(w) PROVE ClosedStay'
  <2> DEFINE s == [pc |-> "stopping", to |-> w, alone |-> InSwitch = {}, held |-> watcher, waits |-> {},
                   watching |-> watcher # 0 /\ watchers[watcher].running]
  <2>1. switches' = Append(switches, s) /\ s.pc = "stopping"
    BY <1>9 DEF BeginSwitch
  <2> HIDE DEF s
  <2>2. ASSUME NEW n \in DOMAIN switches', Closing(switches'[n])
        PROVE  n \in DOMAIN switches /\ switches'[n] = switches[n]
    <3>1. \A k \in 1..Len(switches) + 1 : switches'[k] = IF k = Len(switches) + 1 THEN s ELSE switches[k]
      BY <1>0, <2>1
    <3>2. DOMAIN switches' = 1..Len(switches) + 1
      BY <1>0, <2>1
    <3>3. n # Len(switches) + 1
      BY <2>1, <2>2, <3>1, <3>2 DEF Closing
    <3> QED
      BY <1>0, <2>2, <3>1, <3>2, <3>3
  <2>3. UNCHANGED <<crowded, open, made>>
    BY <1>9 DEF BeginSwitch, dict
  <2> QED
    BY <1>3, <2>2, <2>3
<1>10. ASSUME NEW n \in DOMAIN switches, CloseSchedulers(n) PROVE ClosedStay'
  <2>1. UNCHANGED <<open, crowded>> /\ DOMAIN switches' = DOMAIN switches
        /\ \A k \in DOMAIN switches : k # n => switches'[k] = switches[k]
    BY <1>0, <1>10 DEF CloseSchedulers
  <2>2. \A s \in SwitchRecord, I \in SUBSET Nat :
          [s EXCEPT !.pc = "closing", !.held = 0, !.waits = I].waits = I
    BY DEF SwitchRecord
  <2>3. switches'[n].waits = Running(Opened)
    <3>1. Running(Opened) \in SUBSET Nat
      BY <1>0 DEF Running, Opened
    <3> DEFINE I == Running(Opened)
    <3>2. switches'[n] = [switches[n] EXCEPT !.pc = "closing", !.held = 0, !.waits = I]
      BY <1>0, <1>10 DEF CloseSchedulers
    <3> HIDE DEF I
    <3>3. switches'[n].waits = I
      BY <1>0, <2>2, <3>1, <3>2 DEF I
    <3> QED
      BY <3>3 DEF I
  <2>4. ASSUME ~crowded, NEW k \in DOMAIN switches, Closing(switches'[k]), NEW f \in Flows, open[f] # 0
        PROVE  /\ "armed" \notin made'[open[f]].work
               /\ "running" \in made'[open[f]].work => open[f] \in switches'[k].waits
    <3>1. open[f] \in Opened
      BY <2>4 DEF Opened
    <3>2. made'[open[f]].work = made[open[f]].work \ {"armed"}
      BY <1>0, <1>10, <2>4, <3>1, CloseSchedulersFacts
    <3>3. CASE k = n
      BY <2>3, <3>1, <3>2, <3>3 DEF Running
    <3>4. CASE k # n
      <4>1. "running" \in made[open[f]].work => open[f] \in switches[k].waits
        BY <2>1, <2>4, <3>4 DEF ClosedStay
      <4> QED
        BY <2>1, <3>2, <3>4, <4>1
    <3> QED
      BY <3>3, <3>4
  <2> QED
    BY <2>1, <2>4 DEF ClosedStay
<1>11. ASSUME NEW n \in DOMAIN switches, NEW ok \in BOOLEAN, EndSwitch(n, ok) PROVE ClosedStay'
  BY <1>11 DEF EndSwitch, ClosedStay
<1>12. ASSUME NEW f \in Flows, Access(f) \/ \E d \in Docs : Put(f, d) PROVE ClosedStay'
  <2>1. UNCHANGED switches /\ (~crowded' => NobodyCloses)
    BY <1>12 DEF Access, Put, IsBeingDropped, NobodyCloses
  <2> QED
    BY <1>2, <2>1
<1>13. ASSUME NEW f \in Flows, Damage(f) PROVE ClosedStay'
  BY <1>1, <1>13 DEF Damage, dict, SameWork
<1>14. ASSUME NEW d \in deletes, EndDelete(d) PROVE ClosedStay'
  BY <1>1, <1>14 DEF EndDelete, dict, SameWork
<1>15. ASSUME NEW t \in Threads, OnThread(t) PROVE ClosedStay'
  BY <1>1, <1>15, ThreadFacts, ThreadKeeps DEF SameWork
<1>16. CASE UNCHANGED vars
  BY <1>1, <1>16 DEF vars, dict, SameWork
<1> QED
  BY <1>4, <1>5, <1>6, <1>7, <1>8, <1>9, <1>10, <1>11, <1>12, <1>13, <1>14, <1>15, <1>16 DEF Next

LEMMA OrphansRestStep ==
  ASSUME Typed, LoopIsOpen, ClosedStay, OrphansRest, [Next]_vars
  PROVE  OrphansRest'
<1>0. /\ made \in Seq(SchedulerRecord) /\ DOMAIN made = 1..Len(made)
      /\ switches \in Seq(SwitchRecord) /\ DOMAIN switches = 1..Len(switches)
      /\ deletes \subseteq [flow : Flows, waits : SUBSET Nat]
      /\ open \in [Flows -> Nat] /\ \A f \in Flows : open[f] <= Len(made)
  BY DEF Typed, MadeTyped, SwitchesTyped
\* Nothing changes for a scheduler that is not open.
<1>1. CASE /\ UNCHANGED <<open, deletes, crowded>> /\ Len(made') = Len(made) /\ DOMAIN made' = DOMAIN made
           /\ \A i \in 1..Len(made) : IsOpen(i) \/ made'[i].work \subseteq made[i].work
  BY <1>0, <1>1 DEF OrphansRest, IsOpen
<1>2. CASE UNCHANGED <<dict, deletes, crowded>>
  BY <1>2 DEF OrphansRest, IsOpen, dict
<1>3. ASSUME NEW f \in Flows, NEW d \in Docs, Load(f, d), UNCHANGED <<folder, deletes>>, ~crowded' => ~crowded
      PROVE  OrphansRest'
  <2>1. PICK i \in 1..Len(made') :
          /\ open' = [open EXCEPT ![f] = i]
          /\ \/ i = open[f] /\ Len(made') = Len(made)
             \/ open[f] = 0 /\ Len(made') = Len(made) + 1 /\ i = Len(made')
    BY <1>3, DatabaseTypedStep, LoadFacts
  <2>2. /\ made' \in Seq(SchedulerRecord) /\ Len(made') >= Len(made)
        /\ \A j \in 1..Len(made) : made'[j].work = made[j].work
    BY <1>3, DatabaseTypedStep, LoadFacts DEF MadeKept
  <2>3. Len(made') = Len(made) \/ (Len(made') = Len(made) + 1 /\ i = Len(made'))
    BY <2>1
  <2>4. open'[f] = i
    BY <1>0, <2>1
  <2>5. ASSUME ~crowded', NEW j \in DOMAIN made', ~IsOpen(j)'
        PROVE  /\ "armed" \notin made'[j].work
               /\ "running" \in made'[j].work => \E e \in deletes' : j \in e.waits
    <3>1. j # i /\ j \in 1..Len(made') /\ \A g \in Flows : open'[g] # j
      BY <2>2, <2>4, <2>5 DEF IsOpen
    <3>2. j \in 1..Len(made)
      BY <1>0, <2>2, <2>3, <3>1
    <3>3. ~IsOpen(j)
      BY <1>0, <2>1, <3>1, <3>2 DEF IsOpen
    <3> QED
      BY <1>0, <1>3, <2>2, <2>5, <3>2, <3>3 DEF OrphansRest
  <2> QED
    BY <2>5 DEF OrphansRest
<1>4. CASE LoadEnds
  <2>1. IsOpen(loop.scheduler)
    BY <1>4 DEF LoadEnds, LoopIsOpen
  <2>2. \A i \in 1..Len(made) : IsOpen(i) \/ made'[i].work \subseteq made[i].work
    BY <1>4, <2>1, LoadEndsFacts
  <2>3. Len(made') = Len(made) /\ DOMAIN made' = DOMAIN made
    BY <1>0, <1>4, LoadEndsFacts
  <2> QED
    BY <1>1, <1>4, <2>2, <2>3 DEF LoadEnds
<1>5. ASSUME NEW i \in DOMAIN made, DebounceFires(i) PROVE OrphansRest'
  <2>1. UNCHANGED <<open, deletes, crowded>> /\ made[i].work = {"armed"}
    BY <1>5 DEF DebounceFires
  <2>2. DOMAIN made' = DOMAIN made /\ \A j \in 1..Len(made) : j # i => made'[j].work = made[j].work
    BY <1>0, <1>5, DebounceFacts
  <2>3. ASSUME ~crowded, NEW j \in DOMAIN made, ~IsOpen(j)
        PROVE  /\ "armed" \notin made'[j].work
               /\ "running" \in made'[j].work => \E e \in deletes : j \in e.waits
    <3>1. "armed" \notin made[j].work
      BY <2>3 DEF OrphansRest
    <3>2. j # i
      BY <2>1, <3>1
    <3> QED
      BY <1>0, <2>2, <2>3, <3>2 DEF OrphansRest
  <2> QED
    BY <2>1, <2>2, <2>3 DEF OrphansRest, IsOpen
<1>6. ASSUME NEW i \in DOMAIN made, RunEnds(i) PROVE OrphansRest'
  <2>1. UNCHANGED <<open, crowded>> /\ deletes' = {[d EXCEPT !.waits = @ \ {i}] : d \in deletes}
    BY <1>6 DEF RunEnds
  <2>0. /\ made' \in Seq(SchedulerRecord) /\ Len(made') = Len(made)
        /\ \A j \in 1..Len(made) : made'[j].work = IF j = i THEN made[i].work \ {"running"} ELSE made[j].work
    BY <1>6, RunEndsFacts
  <2>2. DOMAIN made' = DOMAIN made
    <3>1. made' \in Seq(SchedulerRecord) /\ Len(made') = Len(made)
      BY <2>0
    <3> QED
      BY <1>0, <3>1
  <2>3. ASSUME ~crowded, NEW j \in DOMAIN made, ~IsOpen(j)
        PROVE  /\ "armed" \notin made'[j].work
               /\ "running" \in made'[j].work => \E e \in deletes' : j \in e.waits
    <3>1. "armed" \notin made[j].work
      BY <2>3 DEF OrphansRest
    <3>2. ASSUME "running" \in made'[j].work PROVE \E e \in deletes' : j \in e.waits
      <4>1. j # i /\ "running" \in made[j].work
        BY <1>0, <2>0, <2>2, <3>2
      <4>2. PICK d \in deletes : j \in d.waits
        BY <2>3, <4>1 DEF OrphansRest
      <4> DEFINE e == [d EXCEPT !.waits = @ \ {i}]
      <4>3. e \in deletes' /\ e.waits = d.waits \ {i}
        BY <1>0, <2>1, <4>2
      <4> QED
        BY <4>1, <4>2, <4>3
    <3>3. "armed" \notin made'[j].work
      BY <1>0, <2>0, <2>2, <3>1
    <3> QED
      BY <3>2, <3>3
  <2> QED
    BY <2>1, <2>0, <2>2, <2>3 DEF OrphansRest, IsOpen
<1>7. ASSUME NEW f \in Flows, StartRun(f) PROVE OrphansRest'
  <2>1. \A i \in 1..Len(made) : IsOpen(i) \/ made'[i].work \subseteq made[i].work
    BY <1>7, StartRunFacts DEF IsOpen
  <2>2. Len(made') = Len(made) /\ DOMAIN made' = DOMAIN made
    BY <1>0, <1>7, StartRunFacts
  <2>3. ~crowded' => ~crowded
    BY <1>7 DEF StartRun
  <2>4. UNCHANGED <<open, deletes>>
    BY <1>7 DEF StartRun
  <2> QED
    BY <1>0, <2>1, <2>2, <2>3, <2>4 DEF OrphansRest, IsOpen
<1>8. ASSUME NEW f \in Flows, BeginDelete(f) PROVE OrphansRest'
  <2> DEFINE I == {open[f]} \ {0}
  <2>1. /\ UNCHANGED crowded /\ open' = [open EXCEPT ![f] = 0]
        /\ deletes' = deletes \cup {[flow |-> f, waits |-> Running(I)]}
    BY <1>8 DEF BeginDelete
  <2>0. /\ made' \in Seq(SchedulerRecord) /\ Len(made') = Len(made)
        /\ \A j \in 1..Len(made) : made'[j].work = IF j \in I THEN made[j].work \ {"armed"} ELSE made[j].work
    BY <1>8, BeginDeleteFacts
  <2>2. DOMAIN made' = DOMAIN made
    <3>1. made' \in Seq(SchedulerRecord) /\ Len(made') = Len(made)
      BY <2>0
    <3> QED
      BY <1>0, <3>1
  <2>3. ASSUME ~crowded, NEW j \in DOMAIN made, ~IsOpen(j)'
        PROVE  /\ "armed" \notin made'[j].work
               /\ "running" \in made'[j].work => \E e \in deletes' : j \in e.waits
    <3>1. CASE j \in I
      <4>1. made'[j].work = made[j].work \ {"armed"}
        BY <1>0, <2>0, <2>2, <3>1
      <4>2. "running" \in made'[j].work => j \in Running(I)
        BY <3>1, <4>1 DEF Running
      <4> HIDE DEF I
      <4>3. [flow |-> f, waits |-> Running(I)] \in deletes' /\ [flow |-> f, waits |-> Running(I)].waits = Running(I)
        BY <2>1
      <4> QED
        BY <4>1, <4>2, <4>3
    <3>2. CASE j \notin I
      <4>1. \A g \in Flows : open[g] # j
        BY <1>0, <2>1, <2>3, <3>2 DEF IsOpen
      <4>2. made'[j].work = made[j].work
        BY <1>0, <2>0, <2>2, <3>2
      <4> QED
        BY <2>1, <2>3, <4>1, <4>2 DEF OrphansRest, IsOpen
    <3> QED
      BY <3>1, <3>2
  <2> HIDE DEF I
  <2> QED
    BY <2>1, <2>0, <2>2, <2>3 DEF OrphansRest
<1>9. ASSUME NEW d \in deletes, EndDelete(d) PROVE OrphansRest'
  <2>1. /\ UNCHANGED <<open, made, crowded>> /\ d.waits = {} /\ deletes' = deletes \ {d}
    BY <1>9 DEF EndDelete, dict
  <2> QED
    BY <2>1 DEF OrphansRest, IsOpen
<1>10. ASSUME NEW n \in DOMAIN switches, CloseSchedulers(n) PROVE OrphansRest'
  <2>1. \A i \in 1..Len(made) : made'[i].work \subseteq made[i].work
    BY <1>10, CloseSchedulersFacts
  <2>2. Len(made') = Len(made) /\ DOMAIN made' = DOMAIN made
    BY <1>0, <1>10, CloseSchedulersFacts
  <2> QED
    BY <1>1, <1>10, <2>1, <2>2 DEF CloseSchedulers
<1>11. ASSUME NEW n \in DOMAIN switches, NEW ok \in BOOLEAN, EndSwitch(n, ok) PROVE OrphansRest'
  <2>1. /\ UNCHANGED <<deletes, crowded>> /\ Closing(switches[n]) /\ switches[n].waits = {}
    BY <1>11 DEF EndSwitch
  <2>2. DOMAIN made' = DOMAIN made /\ \A j \in 1..Len(made) : made'[j].work = made[j].work
    BY <1>0, <1>11, EndSwitchFacts
  <2>3. ASSUME ~crowded, NEW j \in DOMAIN made
        PROVE  /\ "armed" \notin made'[j].work
               /\ "running" \in made'[j].work => \E e \in deletes : j \in e.waits
    <3>1. CASE IsOpen(j)
      <4>1. PICK f \in Flows : open[f] = j
        BY <3>1 DEF IsOpen
      <4>2. open[f] # 0
        BY <1>0, <2>3, <4>1
      <4> QED
        BY <1>0, <2>1, <2>2, <2>3, <4>1, <4>2 DEF ClosedStay
    <3>2. CASE ~IsOpen(j)
      BY <1>0, <2>2, <2>3, <3>2 DEF OrphansRest
    <3> QED
      BY <3>1, <3>2
  <2> QED
    BY <2>1, <2>2, <2>3 DEF OrphansRest
<1>12. ASSUME NEW f \in Flows, Access(f) PROVE OrphansRest'
  <2>1. rows[folder][f].doc \in Docs
    BY <1>12 DEF Access
  <2>2. UNCHANGED deletes /\ (~crowded' => ~crowded)
    BY <1>12 DEF Access
  <2> QED
    BY <1>3, <1>12, <2>1, <2>2 DEF Access
<1>13. ASSUME NEW f \in Flows, NEW d \in Docs, Put(f, d) PROVE OrphansRest'
  <2>1. UNCHANGED deletes /\ (~crowded' => ~crowded)
    BY <1>13 DEF Put
  <2> QED
    BY <1>3, <1>13, <2>1 DEF Put
<1>14. ASSUME NEW f \in Flows, Damage(f) PROVE OrphansRest'
  BY <1>2, <1>14 DEF Damage
<1>15. ASSUME NEW w \in Folders, BeginSwitch(w) PROVE OrphansRest'
  BY <1>2, <1>15 DEF BeginSwitch
<1>16. ASSUME NEW t \in Threads, OnThread(t) PROVE OrphansRest'
  <2>1. Len(made') = Len(made) /\ DOMAIN made' = DOMAIN made
    BY <1>0, <1>16, ThreadFacts
  <2>2. \A i \in 1..Len(made) : made'[i].work \subseteq made[i].work
    BY <1>16, ThreadFacts
  <2> QED
    BY <1>1, <1>16, <2>1, <2>2, ThreadKeeps
<1>17. CASE UNCHANGED vars
  BY <1>2, <1>17 DEF vars
<1> QED
  BY <1>4, <1>5, <1>6, <1>7, <1>8, <1>9, <1>10, <1>11, <1>12, <1>13, <1>14, <1>15, <1>16, <1>17 DEF Next

-----------------------------------------------------------------------------
(* The theorems *)

LEMMA InitInv ==
  ASSUME Init
  PROVE  RuntimeInv /\ RecoversLastSave
<1>0. /\ Home \in Folders /\ MaxTrust \in Nat
  BY RuntimeAssumption
<1>1. DatabaseTyped /\ RecoversLastSave
  <2>1. NoRow \in RowRecord
    BY DEF NoRow, RowRecord
  <2> QED
    BY <1>0, <2>1 DEF Init, DatabaseTyped, RecoversLastSave
<1>2. SwitchesTyped
  <2>1. <<[folder |-> Home, running |-> TRUE]>> \in Seq(WatcherRecord)
        /\ Len(<<[folder |-> Home, running |-> TRUE]>>) = 1
    BY <1>0 DEF WatcherRecord
  <2> QED
    BY <1>0, <2>1 DEF Init, SwitchesTyped
<1>3. MadeTyped
  BY DEF Init, MadeTyped
<1>4. UpdatesTyped
  <2>1. NoGraph \in Graphs
    BY <1>0 DEF NoGraph, Graphs
  <2>2. NoUpdate \in UpdateRecord /\ NoRecompile \in RecompileRecord
    BY <2>1 DEF NoUpdate, NoRecompile, UpdateRecord, RecompileRecord
  <2>3. NoRecompile.scheduler = 0 /\ NoRecompile.pc = "idle" /\ NoRecompile.queue = {}
    BY DEF NoRecompile
  <2>4. Len(made) = 0
    BY DEF Init
  <2> QED
    BY <2>2, <2>3, <2>4 DEF Init, UpdatesTyped, StepTyped, LoopIsFree
<1>5. FlagsTyped
  <2>1. 0 \in 0..MaxTrust
    BY <1>0
  <2>2. owed \in [Flows -> 0..MaxTrust]
    BY <2>1 DEF Init
  <2>3. crowded \in BOOLEAN /\ raced \subseteq Nat
    BY DEF Init
  <2> QED
    BY <2>2, <2>3 DEF FlagsTyped
<1>6. OpenIsOwn /\ LoopIsOpen /\ LoopQuiet /\ ClosedStay /\ OrphansRest
  BY DEF Init, OpenIsOwn, LoopIsOpen, LoopQuiet, LoopIsFree, ClosedStay, OrphansRest
<1> QED
  BY <1>1, <1>2, <1>3, <1>4, <1>5, <1>6 DEF RuntimeInv, Typed

LEMMA RuntimeInvStep ==
  ASSUME RuntimeInv, [Next]_vars
  PROVE  RuntimeInv'
BY DatabaseTypedStep, SwitchesTypedStep, MadeTypedStep, UpdatesTypedStep, FlagsTypedStep,
   OpenIsOwnStep, LoopStep, ClosedStayStep, OrphansRestStep DEF RuntimeInv, Typed

THEOREM RuntimeInvAlways == Spec => []RuntimeInv
<1>1. Init => RuntimeInv
  BY InitInv
<1>2. RuntimeInv /\ [Next]_vars => RuntimeInv'
  BY RuntimeInvStep
<1> QED
  BY <1>1, <1>2, PTL DEF Spec

\* Types, and the dictionary holds every scheduler under its own workflow.
THEOREM TypeCorrect == Spec => []TypeOK
<1>1. RuntimeInv => TypeOK
  <2> SUFFICES ASSUME RuntimeInv PROVE TypeOK
    OBVIOUS
  <2>1. Typed /\ OpenIsOwn
    BY DEF RuntimeInv
  <2>2. folder \in Folders /\ watcher \in 0..Len(watchers)
    BY <2>1 DEF Typed, SwitchesTyped
  <2>3. /\ rows \in [Folders -> [Flows -> [doc : Docs \cup {NoDoc, Unreadable}, hash : Docs \cup {NoDoc}]]]
        /\ newest \in [Folders -> [Flows -> Docs \cup {NoDoc}]]
    BY <2>1 DEF Typed, DatabaseTyped, RowRecord
  <2>4. made \in Seq(SchedulerRecord) /\ open \in [Flows -> Nat] /\ \A f \in Flows : open[f] <= Len(made)
    BY <2>1 DEF Typed, MadeTyped
  <2>5. open \in [Flows -> 0..Len(made)]
    BY <2>4
  <2>6. \A i \in Schedulers : made[i].graph \in Graphs /\ made[i].doc \in Docs \cup {NoDoc}
    <3>1. \A r \in SchedulerRecord : r.graph \in Graphs /\ r.doc \in Docs \cup {NoDoc}
      BY DEF SchedulerRecord
    <3> QED
      BY <2>4, <3>1 DEF Schedulers
  <2>7. \A f \in Flows : open[f] # 0 => made[open[f]].flow = f
    BY <2>1 DEF OpenIsOwn
  <2>8. loop.scheduler \in 0..Len(made)
    <3>1. NoUpdate.scheduler = 0 /\ Len(made) \in Nat
      BY <2>4 DEF NoUpdate
    <3> QED
      BY <2>1, <3>1 DEF Typed, UpdatesTyped, LoopIsFree
  <2>9. \A t \in Threads : thread[t].scheduler \in 0..Len(made)
    <3> TAKE t \in Threads
    <3>1. thread[t].scheduler \in Nat /\ thread[t].scheduler <= Len(made) /\ Len(made) \in Nat
      BY <2>1, <2>4 DEF Typed, UpdatesTyped, StepTyped, RecompileRecord
    <3> QED
      BY <3>1
  <2>10. crowded \in BOOLEAN /\ raced \subseteq Nat /\ owed \in [Flows -> 0..MaxTrust]
    BY <2>1 DEF Typed, FlagsTyped
  <2> QED
    BY <2>2, <2>3, <2>5, <2>6, <2>7, <2>8, <2>9, <2>10 DEF TypeOK
<1> QED
  BY <1>1, RuntimeInvAlways, PTL

\* switch_workspace and the deletion of a workflow (runtime.py:165): whatever requests do
\* during their awaits, a workflow is served by its own folder's scheduler, and one that
\* was dropped runs nothing.
THEOREM SwitchIsCleanAlways == Spec => []SwitchIsClean
<1>1. RuntimeInv => SwitchIsClean
  <2> SUFFICES ASSUME RuntimeInv PROVE SwitchIsClean
    OBVIOUS
  <2>1. OpenBelongsHere
    BY DEF RuntimeInv, OpenIsOwn, OpenBelongsHere
  <2>2. ASSUME ~crowded, NEW i \in Schedulers, IsDropped(i) PROVE made[i].work = {}
    <3>1. "armed" \notin made[i].work /\ "running" \notin made[i].work
      BY <2>2 DEF RuntimeInv, OrphansRest, IsDropped, Schedulers
    <3>2. made[i] \in SchedulerRecord
      BY <2>2 DEF RuntimeInv, Typed, MadeTyped, Schedulers
    <3>3. made[i].work \subseteq {"armed", "running"}
      BY <3>2 DEF SchedulerRecord, Work
    <3> QED
      BY <3>1, <3>3
  <2> QED
    BY <2>1, <2>2 DEF SwitchIsClean, DroppedAtRest
<1> QED
  BY <1>1, RuntimeInvAlways, PTL

\* save (workflows.py:79): the newest version is the document saved last, whatever became
\* of its row.
THEOREM RecoversLastSaveAlways == Spec => []RecoversLastSave
<1>1. Init => RecoversLastSave
  BY InitInv
<1>2. RuntimeInv /\ RecoversLastSave /\ [Next]_vars => RecoversLastSave'
  BY RecoversStep DEF RuntimeInv
<1> QED
  BY <1>1, <1>2, RuntimeInvAlways, PTL DEF Spec

-----------------------------------------------------------------------------
(* Deletions *)

\* What is being deleted is not open, and what is open is stored.
OpenStored ==
  ~crowded =>
    /\ \A d \in deletes : open[d.flow] = 0
    /\ \A f \in Flows : open[f] # 0 => rows[folder][f].doc # NoDoc

LEMMA OpenStoredStep ==
  ASSUME Typed, OpenStored, [Next]_vars
  PROVE  OpenStored'
<1>0. /\ rows \in [Folders -> [Flows -> RowRecord]] /\ folder \in Folders
      /\ deletes \subseteq [flow : Flows, waits : SUBSET Nat]
      /\ open \in [Flows -> Nat] /\ crowded \in BOOLEAN
      /\ NoDoc \notin Docs /\ Unreadable # NoDoc
  BY RuntimeAssumption DEF Typed, DatabaseTyped, SwitchesTyped, MadeTyped, FlagsTyped, NoDoc, Unreadable
<1>1. CASE UNCHANGED <<folder, rows, open, deletes, crowded>>
  BY <1>1 DEF OpenStored
<1>2. ASSUME NEW f \in Flows, NEW d \in Docs, Load(f, d), UNCHANGED <<folder, deletes>>,
             crowded' = (crowded \/ IsBeingDropped(f)), rows'[folder][f].doc = d,
             \A g \in Flows : g # f => rows'[folder][g] = rows[folder][g]
      PROVE  OpenStored'
  <2>1. PICK i \in 1..Len(made') : open' = [open EXCEPT ![f] = i]
    BY <1>2, DatabaseTypedStep, LoadFacts
  <2>2. SUFFICES ASSUME ~crowded' PROVE OpenStored'
    BY DEF OpenStored
  <2>3. ~crowded /\ \A e \in deletes : e.flow # f
    BY <1>0, <1>2, <2>2 DEF IsBeingDropped
  <2>4. \A e \in deletes' : open'[e.flow] = 0
    BY <1>0, <1>2, <2>1, <2>3 DEF OpenStored
  <2>5. \A g \in Flows : open'[g] # 0 => rows'[folder'][g].doc # NoDoc
    BY <1>0, <1>2, <2>1, <2>3 DEF OpenStored
  <2> QED
    BY <2>4, <2>5 DEF OpenStored
<1>3. ASSUME NEW f \in Flows, NEW d \in Docs, Put(f, d) PROVE OpenStored'
  <2>1. /\ rows'[folder][f].doc = d
        /\ \A g \in Flows : g # f => rows'[folder][g] = rows[folder][g]
    BY <1>0, <1>3 DEF Put
  <2> QED
    BY <1>2, <1>3, <2>1 DEF Put
<1>4. ASSUME NEW f \in Flows, Access(f) PROVE OpenStored'
  BY <1>2, <1>4 DEF Access, database
<1>5. ASSUME NEW f \in Flows, StartRun(f) PROVE OpenStored'
  <2>1. UNCHANGED <<folder, rows, open, deletes>> /\ (crowded => crowded')
    BY <1>5 DEF StartRun, database
  <2> QED
    BY <2>1 DEF OpenStored
<1>6. ASSUME NEW f \in Flows, Damage(f) PROVE OpenStored'
  <2>1. UNCHANGED <<folder, open, deletes, crowded>>
        /\ rows' = [rows EXCEPT ![folder][f].doc = Unreadable]
    BY <1>6 DEF Damage, dict
  <2>2. \A g \in Flows : rows'[folder][g].doc \in {rows[folder][g].doc, Unreadable}
    BY <1>0, <2>1 DEF RowRecord
  <2> QED
    BY <1>0, <2>1, <2>2 DEF OpenStored
<1>7. ASSUME NEW f \in Flows, BeginDelete(f) PROVE OpenStored'
  <2>1. /\ UNCHANGED <<folder, rows, crowded>> /\ open' = [open EXCEPT ![f] = 0]
        /\ deletes' = deletes \cup {[flow |-> f, waits |-> Running({open[f]} \ {0})]}
    BY <1>7 DEF BeginDelete, database
  <2>2. \A e \in deletes' : e \in deletes \/ e.flow = f
    BY <2>1
  <2>3. \A g \in Flows : open'[g] = IF g = f THEN 0 ELSE open[g]
    BY <1>0, <2>1
  <2>4. \A e \in deletes : e.flow \in Flows
    BY <1>0
  <2> QED
    BY <2>1, <2>2, <2>3, <2>4 DEF OpenStored
\* Its row goes, and no scheduler is left that could bring it back.
<1>8. ASSUME NEW d \in deletes, EndDelete(d) PROVE OpenStored'
  <2>1. /\ UNCHANGED <<folder, open, crowded>> /\ deletes' = deletes \ {d}
        /\ rows' = [rows EXCEPT ![folder][d.flow] = NoRow] /\ d.flow \in Flows
    BY <1>0, <1>8 DEF EndDelete, dict
  <2>2. \A g \in Flows : g # d.flow => rows'[folder][g] = rows[folder][g]
    BY <1>0, <2>1
  <2> QED
    BY <1>0, <2>1, <2>2 DEF OpenStored
<1>9. ASSUME NEW i \in DOMAIN made, RunEnds(i) PROVE OpenStored'
  <2>1. UNCHANGED <<folder, rows, open, crowded>>
        /\ deletes' = {[d EXCEPT !.waits = @ \ {i}] : d \in deletes}
    BY <1>9 DEF RunEnds, database
  <2>2. \A e \in deletes' : \E d \in deletes : e.flow = d.flow
    BY <1>0, <2>1
  <2> QED
    BY <2>1, <2>2 DEF OpenStored
<1>10. ASSUME NEW n \in DOMAIN switches, NEW ok \in BOOLEAN, EndSwitch(n, ok) PROVE OpenStored'
  <2>1. open' = [f \in Flows |-> 0] /\ UNCHANGED deletes
    BY <1>10 DEF EndSwitch
  <2> QED
    BY <1>0, <2>1 DEF OpenStored
<1>11. ASSUME NEW n \in DOMAIN switches, CloseSchedulers(n) PROVE OpenStored'
  BY <1>1, <1>11 DEF CloseSchedulers, database
<1>12. ASSUME NEW w \in Folders, BeginSwitch(w) PROVE OpenStored'
  BY <1>1, <1>12 DEF BeginSwitch, database, dict
<1>13. ASSUME NEW i \in DOMAIN made, DebounceFires(i) PROVE OpenStored'
  BY <1>1, <1>13 DEF DebounceFires, database, dict
<1>14. CASE LoadEnds \/ UNCHANGED vars
  BY <1>1, <1>14 DEF LoadEnds, vars, database, dict
<1>15. ASSUME NEW t \in Threads, OnThread(t) PROVE OpenStored'
  BY <1>1, <1>15, ThreadKeeps DEF watching, dict
<1> QED
  BY <1>3, <1>4, <1>5, <1>6, <1>7, <1>8, <1>9, <1>10, <1>11, <1>12, <1>13, <1>14, <1>15 DEF Next

\* delete (workflows.py): unless it was used while it was being deleted, a workflow that
\* has a scheduler has a row, so that nothing done with it brings a deleted one back.
THEOREM OpenIsStoredAlways == Spec => []OpenIsStored
<1>1. Init => OpenStored
  BY DEF Init, OpenStored
<1>2. RuntimeInv /\ OpenStored /\ [Next]_vars => OpenStored'
  BY OpenStoredStep DEF RuntimeInv
<1>3. OpenStored => OpenIsStored
  BY DEF OpenStored, OpenIsStored
<1> QED
  BY <1>1, <1>2, <1>3, RuntimeInvAlways, PTL DEF Spec

-----------------------------------------------------------------------------
(* The watcher *)

AllAlone == \A n \in DOMAIN switches : switches[n].alone
RunningWatchers == {v \in DOMAIN watchers : watchers[v].running}
OneWatcher == RunningWatchers = {watcher} /\ watchers[watcher].folder = folder
\* While no two of them overlapped, a switch that has not ended well is the newest; it
\* has found the one watcher, and from its closing on nobody watches.
SwitchWatch(n) ==
  /\ n = Len(switches)
  /\ switches[n].pc = "stopping" => OneWatcher /\ switches[n].held = watcher /\ switches[n].watching
  /\ switches[n].pc = "closing" => RunningWatchers = {} /\ watcher = 0 /\ switches[n].watching
WatchInv ==
  AllAlone => /\ InSwitch = {} => OneWatcher
              /\ \A n \in InSwitch : SwitchWatch(n)

LEMMA WatchInvStep ==
  ASSUME Typed, WatchInv, [Next]_vars
  PROVE  WatchInv'
<1>0. /\ switches \in Seq(SwitchRecord) /\ DOMAIN switches = 1..Len(switches)
      /\ watchers \in Seq(WatcherRecord) /\ DOMAIN watchers = 1..Len(watchers)
      /\ watcher \in 0..Len(watchers) /\ folder \in Folders
  BY DEF Typed, SwitchesTyped
<1>1. CASE UNCHANGED <<folder, switches, watching>>
  <2>1. UNCHANGED <<folder, switches, watchers, watcher>>
    BY <1>1 DEF watching
  <2> QED
    BY <2>1 DEF WatchInv, AllAlone, InSwitch, OneWatcher, RunningWatchers, SwitchWatch
<1>2. ASSUME NEW i \in DOMAIN made, RunEnds(i) PROVE WatchInv'
  <2>1. /\ UNCHANGED <<folder, watchers, watcher>>
        /\ switches' = [n \in DOMAIN switches |-> [switches[n] EXCEPT !.waits = @ \ {i}]]
    BY <1>2 DEF RunEnds, watching
  <2>2. \A r \in SwitchRecord : LET e == [r EXCEPT !.waits = @ \ {i}] IN
          /\ e \in SwitchRecord
          /\ e.pc = r.pc /\ e.alone = r.alone /\ e.held = r.held /\ e.watching = r.watching
    BY DEF SwitchRecord
  <2>3. DOMAIN switches' = DOMAIN switches /\ Len(switches') = Len(switches)
        /\ \A n \in DOMAIN switches :
             /\ switches'[n].pc = switches[n].pc /\ switches'[n].alone = switches[n].alone
             /\ switches'[n].held = switches[n].held /\ switches'[n].watching = switches[n].watching
    <3> DEFINE Less(r) == [r EXCEPT !.waits = @ \ {i}]
    <3>1. \A n \in 1..Len(switches) : Less(switches[n]) \in SwitchRecord
      BY <1>0, <2>2
    <3>2. switches' = [n \in 1..Len(switches) |-> Less(switches[n])]
      BY <1>0, <2>1
    <3> HIDE DEF Less
    <3>3. switches' \in Seq(SwitchRecord) /\ Len(switches') = Len(switches) /\ DOMAIN switches' = 1..Len(switches)
      BY <1>0, <3>1, <3>2
    <3>4. \A n \in 1..Len(switches) : switches'[n] = Less(switches[n]) /\ switches[n] \in SwitchRecord
      BY <1>0, <3>2
    <3> QED
      BY <1>0, <2>2, <3>3, <3>4 DEF Less
  <2>4. (AllAlone' <=> AllAlone) /\ InSwitch' = InSwitch /\ (OneWatcher' <=> OneWatcher)
        /\ RunningWatchers' = RunningWatchers
    BY <2>1, <2>3 DEF AllAlone, InSwitch, OneWatcher, RunningWatchers
  <2>5. \A n \in InSwitch : SwitchWatch(n) => SwitchWatch(n)'
    <3> TAKE n \in InSwitch
    <3>1. n \in DOMAIN switches
      BY DEF InSwitch
    <3> QED
      BY <2>1, <2>3, <2>4, <3>1 DEF SwitchWatch
  <2> QED
    BY <2>4, <2>5 DEF WatchInv
\* It notes whether there is a watcher, and which.
<1>3. ASSUME NEW w \in Folders, BeginSwitch(w) PROVE WatchInv'
  <2>0. PICK N \in Nat : N = Len(switches) + 1
    BY <1>0
  <2> DEFINE
             s == [pc |-> "stopping", to |-> w, alone |-> InSwitch = {}, held |-> watcher, waits |-> {},
                   watching |-> watcher # 0 /\ watchers[watcher].running]
  <2>1. switches' = Append(switches, s) /\ UNCHANGED <<folder, watchers, watcher>>
    BY <1>3 DEF BeginSwitch, watching
  <2>2. /\ s.pc = "stopping" /\ s.held = watcher /\ (s.alone <=> InSwitch = {})
        /\ s.watching <=> (watcher # 0 /\ watchers[watcher].running)
    OBVIOUS
  <2> HIDE DEF s
  <2>3. /\ DOMAIN switches' = 1..N /\ Len(switches') = N /\ switches'[N] = s
        /\ \A n \in 1..Len(switches) : switches'[n] = switches[n]
    BY <1>0, <2>0, <2>1
  <2>4. SUFFICES ASSUME AllAlone' PROVE InSwitch' # {} /\ \A n \in InSwitch' : SwitchWatch(n)'
    BY DEF WatchInv
  <2>5. AllAlone /\ InSwitch = {}
    BY <1>0, <2>0, <2>2, <2>3, <2>4 DEF AllAlone
  <2>6. OneWatcher
    BY <2>5 DEF WatchInv
  <2>7. InSwitch' = {N}
    BY <1>0, <2>0, <2>2, <2>3, <2>5 DEF InSwitch
  <2>8. watcher # 0 /\ watchers[watcher].running
    BY <1>0, <2>6 DEF OneWatcher, RunningWatchers
  <2>9. OneWatcher'
    BY <2>1, <2>6 DEF OneWatcher, RunningWatchers
  <2>10. SwitchWatch(N)'
    BY <2>1, <2>2, <2>3, <2>8, <2>9 DEF SwitchWatch
  <2> QED
    BY <2>7, <2>10
\* The watcher it has found is the one that runs.
<1>4. ASSUME NEW n \in DOMAIN switches, CloseSchedulers(n) PROVE WatchInv'
  <2> DEFINE h == switches[n].held
             s == [switches[n] EXCEPT !.pc = "closing", !.held = 0, !.waits = Running(Opened)]
  <2>1. /\ switches[n].pc = "stopping" /\ switches' = [switches EXCEPT ![n] = s] /\ UNCHANGED folder
        /\ h # 0 => watchers' = [watchers EXCEPT ![h].running = FALSE] /\ watcher' = 0
    BY <1>4 DEF CloseSchedulers
  <2>2. \A r \in SwitchRecord : LET e == [r EXCEPT !.pc = "closing", !.held = 0, !.waits = Running(Opened)] IN
          e.pc = "closing" /\ e.watching = r.watching /\ e.alone = r.alone
    BY DEF SwitchRecord
  <2>3. s.pc = "closing" /\ s.watching = switches[n].watching /\ s.alone = switches[n].alone
    BY <1>0, <2>2
  <2> HIDE DEF s
  <2>4. /\ DOMAIN switches' = DOMAIN switches /\ Len(switches') = Len(switches)
        /\ \A m \in 1..Len(switches) : switches'[m] = IF m = n THEN s ELSE switches[m]
    BY <1>0, <2>1
  <2>5. SUFFICES ASSUME AllAlone' PROVE InSwitch' # {} /\ \A m \in InSwitch' : SwitchWatch(m)'
    BY DEF WatchInv
  <2>6. AllAlone /\ n \in InSwitch
    BY <1>0, <2>1, <2>3, <2>4, <2>5 DEF AllAlone, InSwitch
  <2>7. SwitchWatch(n) /\ \A m \in InSwitch : m = n
    BY <2>6 DEF WatchInv, SwitchWatch
  <2>8. OneWatcher /\ h = watcher /\ switches[n].watching
    BY <2>1, <2>7 DEF SwitchWatch
  <2>9. h \in 1..Len(watchers)
    BY <1>0, <2>8 DEF OneWatcher, RunningWatchers
  <2>10. RunningWatchers' = {} /\ watcher' = 0
    <3>1. watchers' = [watchers EXCEPT ![h].running = FALSE] /\ watcher' = 0
      BY <2>1, <2>9
    <3>2. \A v \in 1..Len(watchers) : watchers[v] \in WatcherRecord
      BY <1>0
    <3>3. DOMAIN watchers' = 1..Len(watchers) /\ ~watchers'[h].running
          /\ \A v \in 1..Len(watchers) : v # h => watchers'[v] = watchers[v]
      BY <1>0, <2>9, <3>1, <3>2 DEF WatcherRecord
    <3>4. \A v \in 1..Len(watchers) : v # h => ~watchers[v].running
      BY <1>0, <2>8 DEF OneWatcher, RunningWatchers
    <3> QED
      BY <3>1, <3>3, <3>4 DEF RunningWatchers
  <2>11. InSwitch' = {n}
    BY <1>0, <2>3, <2>4, <2>6, <2>7 DEF InSwitch
  <2>12. SwitchWatch(n)'
    BY <1>0, <2>3, <2>4, <2>7, <2>8, <2>10 DEF SwitchWatch
  <2> QED
    BY <2>11, <2>12
\* A new watcher starts on the new folder; after a failure no later switch is alone.
<1>5. ASSUME NEW n \in DOMAIN switches, NEW ok \in BOOLEAN, EndSwitch(n, ok) PROVE WatchInv'
  <2> DEFINE s == [switches[n] EXCEPT !.pc = IF ok THEN "done" ELSE "failed", !.to = Home, !.watching = FALSE]
  <2>1. /\ switches[n].pc = "closing" /\ switches' = [switches EXCEPT ![n] = s]
        /\ ok => folder' = switches[n].to /\ Watch(switches[n].to, switches[n].watching)
    BY <1>5 DEF EndSwitch, Ends, Closing
  <2>2. \A r \in SwitchRecord :
          LET e == [r EXCEPT !.pc = IF ok THEN "done" ELSE "failed", !.to = Home, !.watching = FALSE] IN
          e.pc = (IF ok THEN "done" ELSE "failed") /\ e.alone = r.alone
    BY DEF SwitchRecord
  <2>3. s.pc = (IF ok THEN "done" ELSE "failed") /\ s.alone = switches[n].alone
    BY <1>0, <2>2
  <2> HIDE DEF s
  <2>4. /\ DOMAIN switches' = DOMAIN switches /\ Len(switches') = Len(switches)
        /\ \A m \in 1..Len(switches) : switches'[m] = IF m = n THEN s ELSE switches[m]
    BY <1>0, <2>1
  <2>5. SUFFICES ASSUME AllAlone'
                 PROVE  (InSwitch' = {} => OneWatcher') /\ \A m \in InSwitch' : SwitchWatch(m)'
    BY DEF WatchInv
  <2>6. AllAlone /\ n \in InSwitch
    BY <1>0, <2>1, <2>3, <2>4, <2>5 DEF AllAlone, InSwitch
  <2>7. SwitchWatch(n) /\ \A m \in InSwitch : m = n
    BY <2>6 DEF WatchInv, SwitchWatch
  <2>8. RunningWatchers = {} /\ watcher = 0 /\ switches[n].watching
    BY <2>1, <2>7 DEF SwitchWatch
  <2>9. CASE ok
    <3>1. InSwitch' = {}
      BY <1>0, <2>3, <2>4, <2>7, <2>9 DEF InSwitch
    <3> DEFINE r == [folder |-> switches[n].to, running |-> TRUE]
    <3>2. watchers' = Append(watchers, r) /\ watcher' = Len(watchers) + 1 /\ folder' = switches[n].to
      BY <2>1, <2>8, <2>9 DEF Watch
    <3>3. r.folder = switches[n].to /\ r.running
      OBVIOUS
    <3> HIDE DEF r
    <3>4. /\ DOMAIN watchers' = 1..(Len(watchers) + 1) /\ watchers'[Len(watchers) + 1] = r
          /\ \A v \in 1..Len(watchers) : watchers'[v] = watchers[v]
      BY <1>0, <3>2
    <3>5. \A v \in 1..Len(watchers) : ~watchers[v].running
      BY <1>0, <2>8 DEF RunningWatchers
    <3>6. RunningWatchers' = {watcher'}
      BY <1>0, <3>2, <3>3, <3>4, <3>5 DEF RunningWatchers
    <3>7. OneWatcher'
      BY <3>2, <3>3, <3>4, <3>6 DEF OneWatcher
    <3> QED
      BY <3>1, <3>7
  <2>10. CASE ~ok
    <3>1. InSwitch' = {n} /\ switches'[n].pc = "failed"
      BY <1>0, <2>3, <2>4, <2>6, <2>7, <2>10 DEF InSwitch
    <3>2. SwitchWatch(n)'
      BY <1>0, <2>4, <2>7, <3>1 DEF SwitchWatch
    <3> QED
      BY <3>1, <3>2
  <2> QED
    BY <2>9, <2>10
<1>6. ASSUME NEW f \in Flows, \/ Access(f) \/ StartRun(f) \/ Damage(f) \/ BeginDelete(f) \/ \E d \in Docs : Put(f, d)
      PROVE  WatchInv'
  BY <1>1, <1>6 DEF Access, StartRun, Damage, BeginDelete, Put
<1>7. ASSUME NEW i \in DOMAIN made, DebounceFires(i) PROVE WatchInv'
  BY <1>1, <1>7 DEF DebounceFires
<1>8. ASSUME NEW d \in deletes, EndDelete(d) PROVE WatchInv'
  BY <1>1, <1>8 DEF EndDelete
<1>9. CASE LoadEnds \/ UNCHANGED vars
  BY <1>1, <1>9 DEF LoadEnds, vars
<1>10. ASSUME NEW t \in Threads, OnThread(t) PROVE WatchInv'
  BY <1>1, <1>10, ThreadKeeps DEF watching, dict
<1> QED
  BY <1>2, <1>3, <1>4, <1>5, <1>6, <1>7, <1>8, <1>9, <1>10 DEF Next

\* switch_workspace, stop_watcher and start_watcher (runtime.py): after switches one after
\* the other that could open their folder, one watcher runs, on the open workspace.
THEOREM WatcherFollowsAlways == Spec => []WatcherFollows
<1>1. Init => WatchInv
  <2> SUFFICES ASSUME Init PROVE WatchInv
    OBVIOUS
  <2>1. InSwitch = {}
    BY DEF Init, InSwitch
  <2>2. OneWatcher
    BY DEF Init, OneWatcher, RunningWatchers
  <2> QED
    BY <2>1, <2>2 DEF WatchInv
<1>2. RuntimeInv /\ WatchInv /\ [Next]_vars => WatchInv'
  BY WatchInvStep DEF RuntimeInv
<1>3. WatchInv => WatcherFollows
  BY DEF WatchInv, AllAlone, OneWatcher, RunningWatchers, WatcherFollows
<1> QED
  BY <1>1, <1>2, <1>3, RuntimeInvAlways, PTL DEF Spec

-----------------------------------------------------------------------------
(* What the engine runs *)

\* A thread has still to compile scheduler i.
Waits(i) ==
  \E t \in Threads :
    \/ thread[t].pc = "list" \/ i \in thread[t].queue
    \/ thread[t].scheduler = i /\ thread[t].pc = "update"
OneUpdates(i) ==
  /\ loop.scheduler = i => ~Picked(i)
  /\ \A t, u \in Threads : thread[t].scheduler = i /\ thread[u].scheduler = i => t = u
\* Graph g of workflow f is of its scheduler's document and knows the decisions it must
\* know, or a thread will compile another.
Knows(g, f) == g.doc = made[open[f]].doc /\ (g.trust >= owed[f] \/ Waits(open[f]))
Setting(i) == \E t \in Threads : thread[t].scheduler = i /\ thread[t].pc = "graph"
DocStored(f) == rows[folder][f].doc \in Docs => made[open[f]].doc = rows[folder][f].doc
\* The graph that is being set, or the one there is if none is.
GraphsKnow(f) ==
  /\ loop.scheduler = open[f] => Knows(loop.graph, f)
  /\ \A t \in Threads : thread[t].scheduler = open[f] =>
       /\ thread[t].doc = made[open[f]].doc
       /\ thread[t].pc = "graph" => Knows(thread[t].graph, f)
  /\ loop.scheduler # open[f] /\ ~Setting(open[f]) => Knows(made[open[f]].graph, f)
FlowInv(f) ==
  open[f] # 0 =>
    /\ owed[f] <= trusted[folder]
    /\ open[f] \notin raced => OneUpdates(open[f]) /\ DocStored(f) /\ GraphsKnow(f)
EngineInv == \A f \in Flows : FlowInv(f)

\* The schedulers that are open after the step were open before, with what they compile.
OpenKept ==
  \A f \in Flows : open'[f] # 0 =>
    /\ open'[f] = open[f]
    /\ made'[open[f]].doc = made[open[f]].doc /\ made'[open[f]].graph = made[open[f]].graph

LEMMA WorkKeepsOpen ==
  ASSUME Typed, NEW i \in 1..Len(made), NEW W, made' = [made EXCEPT ![i].work = W], UNCHANGED open
  PROVE  OpenKept
<1>0. made \in Seq(SchedulerRecord) /\ open \in [Flows -> Nat] /\ \A f \in Flows : open[f] <= Len(made)
  BY DEF Typed, MadeTyped
<1> DEFINE With(r) == [r EXCEPT !.work = W]
<1>1. \A r \in SchedulerRecord : With(r).doc = r.doc /\ With(r).graph = r.graph
  BY DEF SchedulerRecord
<1>2. made' = [made EXCEPT ![i] = With(made[i])]
  OBVIOUS
<1> HIDE DEF With
<1>3. \A j \in 1..Len(made) : made'[j] = (IF j = i THEN With(made[i]) ELSE made[j])
                              /\ made[j] \in SchedulerRecord
  BY <1>0, <1>2
<1>4. \A j \in 1..Len(made) : made'[j].doc = made[j].doc /\ made'[j].graph = made[j].graph
  BY <1>1, <1>3
<1> QED
  BY <1>0, <1>4 DEF OpenKept

LEMMA DisarmedKeeps ==
  ASSUME made \in Seq(SchedulerRecord), NEW I
  PROVE  \A j \in 1..Len(made) :
           Disarmed(I)[j].doc = made[j].doc /\ Disarmed(I)[j].graph = made[j].graph
<1> DEFINE Less(r) == [r EXCEPT !.work = @ \ {"armed"}]
<1>1. \A r \in SchedulerRecord : Less(r).doc = r.doc /\ Less(r).graph = r.graph
  BY DEF SchedulerRecord
<1>2. Disarmed(I) = [j \in 1..Len(made) |-> IF j \in I THEN Less(made[j]) ELSE made[j]]
  BY DEF Disarmed
<1> HIDE DEF Less
<1>3. \A j \in 1..Len(made) : Disarmed(I)[j] = (IF j \in I THEN Less(made[j]) ELSE made[j])
                              /\ made[j] \in SchedulerRecord
  BY <1>2
<1> QED
  BY <1>1, <1>3

LEMMA OpenKeptStep ==
  ASSUME Typed, OpenIsOwn,
         \/ \E i \in DOMAIN made : DebounceFires(i) \/ RunEnds(i)
         \/ \E f \in Flows : StartRun(f) \/ BeginDelete(f)
         \/ \E n \in DOMAIN switches : CloseSchedulers(n) \/ \E ok \in BOOLEAN : EndSwitch(n, ok)
         \/ UNCHANGED dict
  PROVE  OpenKept
<1>0. /\ made \in Seq(SchedulerRecord) /\ DOMAIN made = 1..Len(made)
      /\ open \in [Flows -> Nat] /\ \A f \in Flows : open[f] <= Len(made)
  BY DEF Typed, MadeTyped
<1>1. ASSUME NEW i \in DOMAIN made, DebounceFires(i) \/ RunEnds(i) PROVE OpenKept
  <2>1. UNCHANGED open /\ \E W : made' = [made EXCEPT ![i].work = W]
    BY <1>1 DEF DebounceFires, RunEnds
  <2> QED
    BY <1>0, <2>1, WorkKeepsOpen
<1>2. ASSUME NEW f \in Flows, StartRun(f) PROVE OpenKept
  <2> DEFINE i == open[f]
             W == made[i].work \cup {"running"}
  <2>1. UNCHANGED open /\ i \in 1..Len(made)
    BY <1>0, <1>2 DEF StartRun
  <2>2. made' = [made EXCEPT ![i].work = W]
    BY <1>2 DEF StartRun
  <2> HIDE DEF i, W
  <2> QED
    BY <2>1, <2>2, WorkKeepsOpen
<1>3. ASSUME NEW f \in Flows, BeginDelete(f) PROVE OpenKept
  <2> DEFINE I == {open[f]} \ {0}
  <2>1. open' = [open EXCEPT ![f] = 0] /\ made' = Forgotten(Disarmed(I), I)
    BY <1>3 DEF BeginDelete
  <2>2. \A g \in Flows : open'[g] # 0 => open'[g] = open[g] /\ open[g] \notin I /\ open[g] \in 1..Len(made)
    BY <1>0, <2>1 DEF OpenIsOwn
  <2> HIDE DEF I
  <2>3. DOMAIN Disarmed(I) = 1..Len(made)
    BY <1>0 DEF Disarmed
  <2>4. \A j \in 1..Len(made) : j \notin I => made'[j] = Disarmed(I)[j]
    BY <2>1, <2>3 DEF Forgotten
  <2> QED
    BY <1>0, <2>2, <2>4, DisarmedKeeps DEF OpenKept
<1>4. ASSUME NEW n \in DOMAIN switches, CloseSchedulers(n) PROVE OpenKept
  <2>1. made' = Disarmed(Opened) /\ UNCHANGED open
    BY <1>4 DEF CloseSchedulers
  <2>2. \A j \in 1..Len(made) : made'[j].doc = made[j].doc /\ made'[j].graph = made[j].graph
    BY <1>0, <2>1, DisarmedKeeps
  <2> QED
    BY <1>0, <2>1, <2>2 DEF OpenKept
<1>5. ASSUME NEW n \in DOMAIN switches, NEW ok \in BOOLEAN, EndSwitch(n, ok) PROVE OpenKept
  BY <1>5 DEF EndSwitch, OpenKept
<1>6. CASE UNCHANGED dict
  BY <1>6 DEF dict, OpenKept
<1> QED
  BY <1>1, <1>2, <1>3, <1>4, <1>5, <1>6

\* Load sets the document of the scheduler it updates and no other's.
LEMMA LoadKeeps ==
  ASSUME Typed, OpenIsOwn, NEW f \in Flows, NEW d \in Docs, Load(f, d)
  PROVE  \E i \in 1..Len(made') :
           /\ open' = [open EXCEPT ![f] = i] /\ made'[i].doc = d
           /\ loop' = [scheduler |-> i, graph |-> Compiled(d, trusted')]
           /\ raced' = (IF Picked(i) THEN raced \cup {i} ELSE raced \ {i})
           /\ owed' = [owed EXCEPT ![f] = trusted'[folder]]
           /\ \A g \in Flows : g # f /\ open[g] # 0 =>
                open[g] # i /\ open'[g] = open[g] /\ made'[open[g]] = made[open[g]]
<1>0. /\ made \in Seq(SchedulerRecord) /\ open \in [Flows -> Nat]
      /\ \A g \in Flows : open[g] <= Len(made)
  BY DEF Typed, MadeTyped
<1>1. CASE open[f] # 0
  <2> DEFINE i == open[f]
             With(r) == [r EXCEPT !.doc = d]
  <2>0. i \in 1..Len(made)
    BY <1>0, <1>1
  <2>1. /\ open' = [open EXCEPT ![f] = i] /\ made' = [made EXCEPT ![i] = With(made[i])]
        /\ loop' = [scheduler |-> i, graph |-> Compiled(d, trusted')]
        /\ raced' = (IF Picked(i) THEN raced \cup {i} ELSE raced \ {i})
        /\ owed' = [owed EXCEPT ![f] = trusted'[folder]]
    BY <1>1 DEF Load
  <2>2. \A r \in SchedulerRecord : With(r).doc = d
    BY DEF SchedulerRecord
  <2>3. \A g \in Flows : g # f /\ open[g] # 0 => open[g] # i
    BY <1>1 DEF OpenIsOwn
  <2> HIDE DEF i, With
  <2>4. /\ Len(made') = Len(made) /\ made'[i] = With(made[i]) /\ made[i] \in SchedulerRecord
        /\ \A j \in 1..Len(made) : j # i => made'[j] = made[j]
    BY <1>0, <2>0, <2>1
  <2>5. \A g \in Flows : g # f /\ open[g] # 0 =>
          open[g] # i /\ open'[g] = open[g] /\ made'[open[g]] = made[open[g]]
    BY <1>0, <2>1, <2>3, <2>4
  <2>6. i \in 1..Len(made') /\ made'[i].doc = d
    BY <2>0, <2>2, <2>4
  <2> QED
    BY <2>1, <2>5, <2>6
<1>2. CASE open[f] = 0
  <2>0. PICK i \in Nat : i = Len(made) + 1
    BY <1>0
  <2> DEFINE e == [Made(f) EXCEPT !.doc = d]
  <2>1. /\ open' = [open EXCEPT ![f] = i] /\ made' = Append(made, e)
        /\ loop' = [scheduler |-> i, graph |-> Compiled(d, trusted')]
        /\ raced' = (IF Picked(i) THEN raced \cup {i} ELSE raced \ {i})
        /\ owed' = [owed EXCEPT ![f] = trusted'[folder]]
    BY <1>2, <2>0 DEF Load
  <2>2. e.doc = d
    BY DEF Made
  <2> HIDE DEF e
  <2>3. Len(made') = i /\ made'[i] = e /\ \A j \in 1..Len(made) : made'[j] = made[j]
    BY <1>0, <2>0, <2>1
  <2>4. \A g \in Flows : g # f /\ open[g] # 0 =>
          open[g] # i /\ open'[g] = open[g] /\ made'[open[g]] = made[open[g]]
    BY <1>0, <2>0, <2>1, <2>3
  <2>5. i \in 1..Len(made') /\ made'[i].doc = d
    BY <2>0, <2>2, <2>3
  <2> QED
    BY <2>1, <2>4, <2>5
<1> QED
  BY <1>1, <1>2

LEMMA LoadEndsKeeps ==
  ASSUME Typed, LoadEnds
  PROVE  \A j \in 1..Len(made) :
           /\ made'[j].doc = made[j].doc
           /\ made'[j].graph = IF j = loop.scheduler THEN loop.graph ELSE made[j].graph
<1> DEFINE i == loop.scheduler
           Armed(r) == [r EXCEPT !.graph = loop.graph, !.work = @ \cup {"armed"}]
<1>0. made \in Seq(SchedulerRecord) /\ i \in 1..Len(made)
  BY DEF Typed, MadeTyped, UpdatesTyped, LoadEnds
<1>1. \A r \in SchedulerRecord : Armed(r).doc = r.doc /\ Armed(r).graph = loop.graph
  BY DEF SchedulerRecord
<1>2. made' = [made EXCEPT ![i] = Armed(made[i])]
  BY DEF LoadEnds
<1> HIDE DEF i, Armed
<1>3. \A j \in 1..Len(made) : made'[j] = (IF j = i THEN Armed(made[i]) ELSE made[j])
                              /\ made[j] \in SchedulerRecord
  BY <1>0, <1>2
<1> QED
  BY <1>1, <1>3 DEF i

\* The document a thread sets, and the graph.
LEMMA RecompileKeeps ==
  ASSUME Typed, NEW t \in Threads, Recompile(t)
  PROVE  \A j \in 1..Len(made) :
           /\ made'[j].graph = made[j].graph
           /\ made'[j].doc = made[j].doc \/ (j = thread[t].scheduler /\ made'[j].doc = thread[t].doc)
<1> DEFINE i == thread[t].scheduler
           With(r) == [r EXCEPT !.doc = thread[t].doc]
<1>0. made \in Seq(SchedulerRecord) /\ i \in 1..Len(made)
  BY DEF Typed, MadeTyped, UpdatesTyped, StepTyped, RecompileRecord, Recompile
<1>1. \A r \in SchedulerRecord : With(r).doc = thread[t].doc /\ With(r).graph = r.graph
  BY DEF SchedulerRecord
<1>2. made' = made \/ made' = [made EXCEPT ![i] = With(made[i])]
  BY DEF Recompile
<1> HIDE DEF i, With
<1>3. CASE made' = [made EXCEPT ![i] = With(made[i])]
  <2>1. \A j \in 1..Len(made) : made'[j] = (IF j = i THEN With(made[i]) ELSE made[j])
                                /\ made[j] \in SchedulerRecord
    BY <1>0, <1>3
  <2> QED
    BY <1>1, <2>1 DEF i
<1> QED
  BY <1>2, <1>3

LEMMA RecompiledKeeps ==
  ASSUME Typed, NEW t \in Threads, Recompiled(t)
  PROVE  \A j \in 1..Len(made) :
           /\ made'[j].doc = made[j].doc
           /\ made'[j].graph = IF IsOpen(j) /\ thread[t].scheduler = j THEN thread[t].graph ELSE made[j].graph
<1> DEFINE i == thread[t].scheduler
           With(r) == [r EXCEPT !.graph = thread[t].graph]
<1>0. made \in Seq(SchedulerRecord) /\ i \in 1..Len(made)
  BY DEF Typed, MadeTyped, UpdatesTyped, StepTyped, RecompileRecord, Recompiled
<1>1. \A r \in SchedulerRecord : With(r).graph = thread[t].graph /\ With(r).doc = r.doc
  BY DEF SchedulerRecord
<1>2. made' = IF IsOpen(i) THEN [made EXCEPT ![i] = With(made[i])] ELSE made
  BY DEF Recompiled
<1>3. thread[t].scheduler = i
  OBVIOUS
<1> HIDE DEF i, With
<1>4. CASE IsOpen(i)
  <2>1. \A j \in 1..Len(made) : made'[j] = (IF j = i THEN With(made[i]) ELSE made[j])
                                /\ made[j] \in SchedulerRecord
    BY <1>0, <1>2, <1>4
  <2> QED
    BY <1>1, <1>3, <1>4, <2>1
<1> QED
  BY <1>2, <1>3, <1>4

\* Scheduler i keeps what threads wait for it, and the thread that is setting its graph.
SameOnThreads(i) ==
  /\ Waits(i) => Waits(i)'
  /\ \A t \in Threads :
       /\ thread'[t].scheduler = i =>
            /\ thread[t].scheduler = i /\ thread'[t].doc = thread[t].doc
            /\ thread'[t].pc = "graph" => thread[t].pc = "graph" /\ thread'[t].graph = thread[t].graph
       /\ thread[t].scheduler = i /\ thread[t].pc = "graph" => thread'[t].scheduler = i /\ thread'[t].pc = "graph"
SameOnLoop(i) == (loop'.scheduler = i <=> loop.scheduler = i) /\ (loop.scheduler = i => loop'.graph = loop.graph)

\* A workflow no update of which begins or ends.
LEMMA FlowKept ==
  ASSUME NEW f \in Flows, FlowInv(f), NEW i, i = open[f], open'[f] = i, i # 0,
         UNCHANGED folder, SameOnLoop(i), SameOnThreads(i),
         made'[i].doc = made[i].doc, made'[i].graph = made[i].graph,
         rows'[folder'][f].doc \in Docs => rows'[folder'][f].doc = rows[folder][f].doc,
         owed'[f] = owed[f] \/ Waits(i)', owed'[f] <= trusted'[folder'],
         i \in raced => i \in raced'
  PROVE  FlowInv(f)'
<1>1. SUFFICES ASSUME i \notin raced' PROVE OneUpdates(i)' /\ DocStored(f)' /\ GraphsKnow(f)'
  BY DEF FlowInv
<1>2. OneUpdates(i) /\ DocStored(f) /\ GraphsKnow(f)
  BY <1>1 DEF FlowInv
<1>3. OneUpdates(i)'
  BY <1>2 DEF OneUpdates, SameOnLoop, SameOnThreads, Picked
<1>4. DocStored(f)'
  BY <1>2 DEF DocStored
<1>5. \A g : Knows(g, f) => Knows(g, f)'
  BY DEF Knows, SameOnThreads
<1>6. GraphsKnow(f)'
  <2>1. loop'.scheduler = open'[f] => Knows(loop.graph, f)'
    BY <1>2, <1>5 DEF GraphsKnow, SameOnLoop
  <2>2. ASSUME NEW t \in Threads, thread'[t].scheduler = open'[f]
        PROVE  /\ thread'[t].doc = made'[open'[f]].doc
               /\ thread'[t].pc = "graph" => Knows(thread[t].graph, f)'
    <3>1. thread'[t].doc = made'[open'[f]].doc
      BY <1>2, <2>2 DEF GraphsKnow, SameOnThreads
    <3>2. ASSUME thread'[t].pc = "graph" PROVE Knows(thread[t].graph, f)'
      <4>1. thread[t].pc = "graph" /\ thread[t].scheduler = open[f] /\ thread'[t].graph = thread[t].graph
        BY <2>2, <3>2 DEF SameOnThreads
      <4> QED
        BY <1>2, <1>5, <4>1 DEF GraphsKnow, Knows
    <3> QED
      BY <3>1, <3>2
  <2>3. ASSUME loop'.scheduler # open'[f], ~Setting(open[f])' PROVE Knows(made[open[f]].graph, f)'
    <3>1. loop.scheduler # open[f] /\ ~Setting(open[f])
      BY <2>3 DEF SameOnLoop, SameOnThreads, Setting
    <3>2. Knows(made[i].graph, f)
      BY <1>2, <3>1 DEF GraphsKnow
    <3> QED
      BY <3>2 DEF Knows, SameOnThreads
  <2> QED
    BY <2>1, <2>2, <2>3 DEF GraphsKnow
<1> QED
  BY <1>3, <1>4, <1>6

LEMMA NothingChanges ==
  ASSUME NEW i, UNCHANGED <<loop, thread>>
  PROVE  SameOnLoop(i) /\ SameOnThreads(i)
BY DEF SameOnLoop, SameOnThreads, Waits

\* What is open keeps its document and graph, and nobody updates or decides.
LEMMA QuietFlow ==
  ASSUME FlagsTyped, DatabaseTyped, folder \in Folders, MaxTrust \in Nat,
         OpenKept, UNCHANGED <<loop, thread, trusted, raced>>, NEW f \in Flows, FlowInv(f),
         open'[f] # 0 =>
           /\ folder' = folder /\ owed'[f] = owed[f]
           /\ rows'[folder'][f].doc \in Docs => rows'[folder'][f].doc = rows[folder][f].doc
  PROVE  FlowInv(f)'
<1>1. CASE open'[f] = 0
  BY <1>1 DEF FlowInv
<1>2. CASE open'[f] # 0
  <2>0. PICK i : i = open[f]
    OBVIOUS
  <2>1. /\ open'[f] = i /\ i # 0
        /\ made'[i].doc = made[i].doc /\ made'[i].graph = made[i].graph
    BY <1>2, <2>0 DEF OpenKept
  <2>2. owed'[f] <= trusted'[folder']
    BY <1>2, <2>0, <2>1 DEF FlowInv
  <2>3. SameOnLoop(i) /\ SameOnThreads(i)
    BY NothingChanges
  <2> QED
    BY <1>2, <2>0, <2>1, <2>2, <2>3, FlowKept
<1> QED
  BY <1>1, <1>2

LEMMA QuietStep ==
  ASSUME Typed, OpenIsOwn, EngineInv,
         \/ \E i \in DOMAIN made : DebounceFires(i) \/ RunEnds(i)
         \/ \E f \in Flows : StartRun(f) \/ BeginDelete(f) \/ Damage(f)
         \/ \E d \in deletes : EndDelete(d)
         \/ \E w \in Folders : BeginSwitch(w)
         \/ \E n \in DOMAIN switches : CloseSchedulers(n) \/ \E ok \in BOOLEAN : EndSwitch(n, ok)
         \/ UNCHANGED vars
  PROVE  EngineInv'
<1>0. /\ FlagsTyped /\ DatabaseTyped /\ folder \in Folders /\ MaxTrust \in Nat
      /\ rows \in [Folders -> [Flows -> RowRecord]]
      /\ deletes \subseteq [flow : Flows, waits : SUBSET Nat] /\ NoDoc \notin Docs /\ Unreadable \notin Docs
  BY RuntimeAssumption DEF Typed, DatabaseTyped, SwitchesTyped
<1>1. CASE OpenKept /\ UNCHANGED <<folder, rows, loop, thread, trusted, raced, owed>>
  BY <1>0, <1>1, QuietFlow DEF EngineInv
<1>2. ASSUME UNCHANGED <<folder, trusted, dict, loop, thread, raced, owed>>,
             \A g \in Flows : rows'[folder][g].doc \in Docs => rows'[folder][g].doc = rows[folder][g].doc
      PROVE  EngineInv'
  <2>1. OpenKept
    BY <1>2, OpenKeptStep
  <2> QED
    BY <1>0, <1>2, <2>1, QuietFlow DEF EngineInv
<1>3. ASSUME NEW f \in Flows, Damage(f) PROVE EngineInv'
  <2>1. UNCHANGED <<folder, trusted, dict, loop, thread, raced, owed>>
        /\ rows' = [rows EXCEPT ![folder][f].doc = Unreadable]
    BY <1>3 DEF Damage
  <2>2. \A g \in Flows : rows'[folder][g].doc \in {rows[folder][g].doc, Unreadable}
    BY <1>0, <2>1 DEF RowRecord
  <2> QED
    BY <1>0, <1>2, <2>1, <2>2
<1>4. ASSUME NEW d \in deletes, EndDelete(d) PROVE EngineInv'
  <2>1. /\ UNCHANGED <<folder, trusted, dict, loop, thread, raced, owed>> /\ d.flow \in Flows
        /\ rows' = [rows EXCEPT ![folder][d.flow] = NoRow]
    BY <1>0, <1>4 DEF EndDelete
  <2>2. \A g \in Flows : rows'[folder][g].doc \in {rows[folder][g].doc, NoDoc}
    BY <1>0, <2>1 DEF NoRow
  <2> QED
    BY <1>0, <1>2, <2>1, <2>2
<1>5. ASSUME NEW f \in Flows, StartRun(f) \/ BeginDelete(f) PROVE EngineInv'
  <2>1. UNCHANGED <<folder, rows, trusted, loop, thread, raced, owed>>
    BY <1>5 DEF StartRun, BeginDelete, database
  <2> QED
    BY <1>1, <1>5, <2>1, OpenKeptStep
<1>6. ASSUME NEW i \in DOMAIN made, DebounceFires(i) \/ RunEnds(i) PROVE EngineInv'
  <2>1. UNCHANGED <<folder, rows, trusted, loop, thread, raced, owed>>
    BY <1>6 DEF DebounceFires, RunEnds, database
  <2> QED
    BY <1>1, <1>6, <2>1, OpenKeptStep
<1>7. ASSUME NEW n \in DOMAIN switches, CloseSchedulers(n) PROVE EngineInv'
  <2>1. UNCHANGED <<folder, rows, trusted, loop, thread, raced, owed>>
    BY <1>7 DEF CloseSchedulers, database
  <2> QED
    BY <1>1, <1>7, <2>1, OpenKeptStep
<1>8. ASSUME NEW n \in DOMAIN switches, NEW ok \in BOOLEAN, EndSwitch(n, ok) PROVE EngineInv'
  BY <1>8 DEF EndSwitch, EngineInv, FlowInv
<1>9. CASE UNCHANGED vars \/ \E w \in Folders : BeginSwitch(w)
  <2>1. UNCHANGED <<folder, rows, trusted, dict, loop, thread, raced, owed>>
    BY <1>9 DEF vars, BeginSwitch, database
  <2> QED
    BY <1>1, <2>1, OpenKeptStep
<1> QED
  BY <1>3, <1>4, <1>5, <1>6, <1>7, <1>8, <1>9

\* A request loads the stored document.
LEMMA LoadStep ==
  ASSUME Typed, DatabaseTyped', MadeTyped', OpenIsOwn, EngineInv, LoopIsFree,
         NEW f \in Flows, NEW d \in Docs, Load(f, d), UNCHANGED <<folder, thread>>,
         UNCHANGED trusted \/ Trusts, rows'[folder][f].doc = d,
         \A g \in Flows : g # f => rows'[folder][g] = rows[folder][g]
  PROVE  EngineInv'
<1>0. /\ open \in [Flows -> Nat] /\ folder \in Folders /\ MaxTrust \in Nat
      /\ owed \in [Flows -> 0..MaxTrust] /\ trusted \in [Folders -> 0..MaxTrust]
      /\ trusted' \in [Folders -> 0..MaxTrust] /\ thread \in [Threads -> RecompileRecord]
  BY RuntimeAssumption DEF Typed, MadeTyped, SwitchesTyped, FlagsTyped, DatabaseTyped, UpdatesTyped
<1>1. PICK i \in 1..Len(made') :
        /\ open' = [open EXCEPT ![f] = i] /\ made'[i].doc = d
        /\ loop' = [scheduler |-> i, graph |-> Compiled(d, trusted')]
        /\ raced' = (IF Picked(i) THEN raced \cup {i} ELSE raced \ {i})
        /\ owed' = [owed EXCEPT ![f] = trusted'[folder]]
        /\ \A g \in Flows : g # f /\ open[g] # 0 =>
             open[g] # i /\ open'[g] = open[g] /\ made'[open[g]] = made[open[g]]
  BY LoadKeeps
<1>2. /\ i # 0 /\ open'[f] = i /\ owed'[f] = trusted'[folder] /\ loop.scheduler = 0 /\ loop'.scheduler = i
      /\ loop'.graph = [doc |-> d, trust |-> trusted'[folder]]
  <2>1. i # 0
    BY DEF MadeTyped
  <2> QED
    BY <1>0, <1>1, <2>1 DEF LoopIsFree, NoUpdate, Compiled
<1>3. trusted'[folder] >= trusted[folder] /\ trusted'[folder] \in Nat
  <2>1. CASE UNCHANGED trusted
    BY <1>0, <2>1
  <2>2. CASE Trusts
    BY <1>0, <2>2 DEF Trusts
  <2> QED
    BY <2>1, <2>2
<1>4. FlowInv(f)'
  <2>1. owed'[f] <= trusted'[folder']
    BY <1>0, <1>2, <1>3
  <2>2. ASSUME i \notin raced' PROVE OneUpdates(i)' /\ DocStored(f)' /\ GraphsKnow(f)'
    <3>1. ~Picked(i)
      BY <1>1, <2>2
    <3>2. OneUpdates(i)'
      BY <3>1 DEF OneUpdates, Picked
    <3>3. DocStored(f)'
      BY <1>1, <1>2 DEF DocStored
    <3>4. Knows(loop.graph, f)'
      BY <1>0, <1>1, <1>2, <1>3 DEF Knows
    <3>5. GraphsKnow(f)'
      BY <1>2, <3>1, <3>4 DEF GraphsKnow, Picked
    <3> QED
      BY <3>2, <3>3, <3>5
  <2> QED
    BY <1>2, <2>1, <2>2 DEF FlowInv
<1>5. ASSUME NEW g \in Flows, g # f PROVE FlowInv(g)'
  <2>1. CASE open'[g] = 0
    BY <2>1 DEF FlowInv
  <2>2. CASE open'[g] # 0
    <3>0. PICK j : j = open[g]
      OBVIOUS
    <3>1. j # 0 /\ j # i /\ open'[g] = j /\ made'[j] = made[j]
      BY <1>0, <1>1, <1>5, <2>2, <3>0
    <3>2. owed'[g] = owed[g] /\ owed'[g] <= trusted'[folder']
      <4>1. FlowInv(g)
        BY DEF EngineInv
      <4>2. owed[g] <= trusted[folder] /\ owed'[g] = owed[g]
        BY <1>0, <1>1, <1>5, <3>0, <3>1, <4>1 DEF FlowInv
      <4>3. owed[g] \in Nat /\ trusted[folder] \in Nat
        BY <1>0
      <4> QED
        BY <1>3, <4>2, <4>3
    <3>3. SameOnLoop(j)
      BY <1>2, <3>1 DEF SameOnLoop
    <3>4. SameOnThreads(j)
      BY DEF SameOnThreads, Waits
    <3>5. j \in raced => j \in raced'
      BY <1>1, <3>1
    <3>6. rows'[folder'][g].doc \in Docs => rows'[folder'][g].doc = rows[folder][g].doc
      BY <1>5
    <3>7. FlowInv(g)
      BY DEF EngineInv
    <3> QED
      BY <3>1, <3>2, <3>3, <3>4, <3>5, <3>6, <3>7, <3>0, FlowKept
  <2> QED
    BY <2>1, <2>2
<1> QED
  BY <1>4, <1>5 DEF EngineInv

\* And the loop sets its graph.
LEMMA LoadEndsStep ==
  ASSUME Typed, EngineInv, LoadEnds
  PROVE  EngineInv'
<1>0. /\ open \in [Flows -> Nat] /\ \A f \in Flows : open[f] <= Len(made)
      /\ made \in Seq(SchedulerRecord)
  BY DEF Typed, MadeTyped
<1>1. /\ loop' = NoUpdate /\ loop'.scheduler = 0
      /\ UNCHANGED <<folder, rows, trusted, open, thread, raced, owed>>
  BY DEF LoadEnds, database, NoUpdate
<1>2. SUFFICES ASSUME NEW f \in Flows, open[f] # 0 PROVE FlowInv(f)'
  BY <1>1 DEF EngineInv, FlowInv
<1>i. PICK i : i = open[f]
  OBVIOUS
<1>3. FlowInv(f) /\ i \in 1..Len(made)
  BY <1>0, <1>2, <1>i DEF EngineInv
<1>4. made'[i].doc = made[i].doc /\ made'[i].graph = IF i = loop.scheduler THEN loop.graph ELSE made[i].graph
  BY <1>3, LoadEndsKeeps
<1>5. i = open[f] /\ open'[f] = i /\ i # 0
  BY <1>1, <1>2, <1>i
<1>6. owed'[f] <= trusted'[folder']
  BY <1>1, <1>3, <1>5 DEF FlowInv
<1>w. SameOnThreads(i)
  BY <1>1 DEF SameOnThreads, Waits
<1>7. CASE i = loop.scheduler
  <2>1. ASSUME i \notin raced' PROVE OneUpdates(i)' /\ DocStored(f)' /\ GraphsKnow(f)'
    <3>1. OneUpdates(i) /\ DocStored(f) /\ GraphsKnow(f) /\ ~Picked(i)
      BY <1>1, <1>3, <1>5, <1>7, <2>1 DEF FlowInv, OneUpdates
    <3>2. OneUpdates(i)' /\ DocStored(f)'
      BY <1>1, <1>4, <1>5, <3>1 DEF OneUpdates, DocStored, Picked
    <3>3. Knows(made[open[f]].graph, f)'
      BY <1>1, <1>4, <1>5, <1>7, <1>w, <3>1 DEF GraphsKnow, Knows, SameOnThreads
    <3> QED
      BY <1>1, <1>5, <3>1, <3>2, <3>3 DEF GraphsKnow, Picked
  <2> QED
    BY <1>5, <1>6, <2>1 DEF FlowInv
<1>8. CASE i # loop.scheduler
  <2>1. SameOnLoop(i)
    BY <1>1, <1>5, <1>8 DEF SameOnLoop
  <2> QED
    BY <1>1, <1>3, <1>4, <1>5, <1>6, <1>w, <1>8, <2>1, FlowKept
<1> QED
  BY <1>7, <1>8

\* A request on a thread: until it has compiled a scheduler, that waits for it.
LEMMA ThreadStep ==
  ASSUME Typed, DatabaseTyped', EngineInv, NEW t \in Threads, OnThread(t)
  PROVE  EngineInv'
<1>0. /\ thread \in [Threads -> RecompileRecord] /\ thread[t] \in RecompileRecord
      /\ StepTyped(thread[t], Len(made))
      /\ open \in [Flows -> Nat] /\ \A f \in Flows : open[f] <= Len(made)
      /\ made \in Seq(SchedulerRecord) /\ folder \in Folders
      /\ owed \in [Flows -> 0..MaxTrust] /\ trusted \in [Folders -> 0..MaxTrust] /\ MaxTrust \in Nat
  BY RuntimeAssumption DEF Typed, UpdatesTyped, MadeTyped, SwitchesTyped, FlagsTyped, DatabaseTyped
<1>k. UNCHANGED <<folder, rows, open, loop>>
  BY ThreadKeeps
<1>1. SUFFICES ASSUME NEW f \in Flows, open[f] # 0 PROVE FlowInv(f)'
  BY <1>k DEF EngineInv, FlowInv
<1>i. PICK i : i = open[f]
  OBVIOUS
<1>2. FlowInv(f) /\ i \in 1..Len(made) /\ i # 0 /\ open'[f] = i /\ IsOpen(i)
  BY <1>0, <1>1, <1>i, <1>k DEF EngineInv, IsOpen
<1>l. SameOnLoop(i)
  BY <1>k DEF SameOnLoop
<1>g. \A r : Goes(t, r) => thread'[t] = r /\ \A u \in Threads : u # t => thread'[u] = thread[u]
  BY <1>0 DEF Goes
<1>n. NoRecompile.scheduler = 0 /\ NoRecompile.pc = "idle" /\ NoRecompile.queue = {}
  BY DEF NoRecompile
<1>o. owed[f] \in Nat /\ owed[f] <= trusted[folder] /\ trusted[folder] \in Nat
  BY <1>0, <1>2, <1>i DEF FlowInv
\* What it is about to do is nothing scheduler i holds yet.
<1>3. ASSUME NEW r, Goes(t, r), r.pc = "list", r.scheduler = 0, thread[t].pc = "idle",
             UNCHANGED <<made, raced>>, owed'[f] <= trusted'[folder]
      PROVE  FlowInv(f)'
  <2>1. thread'[t].pc = "list" /\ thread'[t].scheduler = 0 /\ \A u \in Threads : u # t => thread'[u] = thread[u]
    BY <1>g, <1>3
  <2>2. Waits(i)'
    BY <2>1 DEF Waits
  <2>3. SameOnThreads(i)
    BY <1>2, <1>3, <2>1, <2>2 DEF SameOnThreads
  <2> QED
    BY <1>2, <1>3, <1>i, <1>k, <1>l, <2>2, <2>3, FlowKept
<1>e. /\ [NoRecompile EXCEPT !.pc = "list"].pc = "list" /\ [NoRecompile EXCEPT !.pc = "list"].scheduler = 0
  BY DEF NoRecompile
\* A decision makes every graph wait,
<1>4. CASE Decide(t)
  <2>1. /\ thread[t].pc = "idle" /\ Goes(t, [NoRecompile EXCEPT !.pc = "list"]) /\ UNCHANGED <<made, raced>>
        /\ owed'[f] = trusted'[folder]
    BY <1>4 DEF Decide, dict
  <2>2. trusted'[folder] \in Nat
    BY <1>0 DEF DatabaseTyped
  <2>3. owed'[f] <= trusted'[folder]
    BY <2>1, <2>2
  <2> QED
    BY <1>3, <1>e, <2>1, <2>3
<1>5. CASE PacksChange(t)
  <2>1. /\ thread[t].pc = "idle" /\ Goes(t, [NoRecompile EXCEPT !.pc = "list"]) /\ UNCHANGED <<made, raced>>
        /\ UNCHANGED <<owed, trusted>>
    BY <1>5 DEF PacksChange, dict, database
  <2> QED
    BY <1>3, <1>e, <1>o, <2>1
\* that of every scheduler that is open,
<1>6. CASE ListSchedulers(t)
  <2>1. /\ thread[t].pc = "list" /\ UNCHANGED <<made, raced, owed, trusted>> /\ i \in Opened
        /\ Goes(t, [thread[t] EXCEPT !.pc = "next", !.queue = Opened])
    BY <1>2, <1>6, <1>i DEF ListSchedulers, Opened, dict, database
  <2>2. /\ thread'[t].pc = "next" /\ thread'[t].queue = Opened /\ thread'[t].scheduler = thread[t].scheduler
        /\ thread'[t].doc = thread[t].doc
        /\ \A u \in Threads : u # t => thread'[u] = thread[u]
    <3>1. PICK q : q = Opened
      OBVIOUS
    <3>2. \A r \in RecompileRecord :
            LET e == [r EXCEPT !.pc = "next", !.queue = q]
            IN e.pc = "next" /\ e.queue = q /\ e.scheduler = r.scheduler /\ e.doc = r.doc
      BY DEF RecompileRecord
    <3>3. PICK e : e = [thread[t] EXCEPT !.pc = "next", !.queue = q]
      OBVIOUS
    <3>4. e.pc = "next" /\ e.queue = q /\ e.scheduler = thread[t].scheduler /\ e.doc = thread[t].doc
      BY <1>0, <3>2, <3>3
    <3>5. Goes(t, e)
      BY <2>1, <3>1, <3>3
    <3> QED
      BY <1>g, <3>1, <3>4, <3>5
  <2>3. Waits(i)'
    BY <2>1, <2>2 DEF Waits
  <2>4. SameOnThreads(i)
    BY <2>1, <2>2, <2>3 DEF SameOnThreads
  <2> QED
    BY <1>2, <1>i, <1>k, <1>l, <1>o, <2>1, <2>3, <2>4, FlowKept
\* until the thread has read its document,
<1>7. ASSUME NEW j \in DOMAIN made, PickScheduler(t, j) PROVE FlowInv(f)'
  <2>0. PICK c : c = made[j].doc
    OBVIOUS
  <2>1. /\ thread[t].pc = "next" /\ UNCHANGED <<made, owed, trusted>>
        /\ raced' = (IF loop.scheduler = j \/ Picked(j) THEN raced \cup {j} ELSE raced)
        /\ Goes(t, [thread[t] EXCEPT !.pc = "update", !.queue = @ \ {j}, !.scheduler = j, !.doc = c])
    BY <1>7, <2>0 DEF PickScheduler, dict, database
  <2>2. /\ thread'[t].pc = "update" /\ thread'[t].queue = thread[t].queue \ {j} /\ thread'[t].scheduler = j
        /\ thread'[t].doc = c
        /\ \A u \in Threads : u # t => thread'[u] = thread[u]
    <3>2. \A r \in RecompileRecord :
            LET e == [r EXCEPT !.pc = "update", !.queue = @ \ {j}, !.scheduler = j, !.doc = c]
            IN e.pc = "update" /\ e.queue = r.queue \ {j} /\ e.scheduler = j /\ e.doc = c
      BY DEF RecompileRecord
    <3>3. PICK e : e = [thread[t] EXCEPT !.pc = "update", !.queue = @ \ {j}, !.scheduler = j, !.doc = c]
      OBVIOUS
    <3>4. e.pc = "update" /\ e.queue = thread[t].queue \ {j} /\ e.scheduler = j /\ e.doc = c
      BY <1>0, <3>2, <3>3
    <3>5. Goes(t, e)
      BY <2>1, <3>3
    <3> QED
      BY <1>g, <3>4, <3>5
  <2>3. CASE j # i
    <3>1. Waits(i) => Waits(i)'
      BY <2>1, <2>2, <2>3 DEF Waits
    <3>2. SameOnThreads(i)
      BY <2>1, <2>2, <2>3, <3>1 DEF SameOnThreads
    <3> QED
      BY <1>2, <1>i, <1>k, <1>l, <1>o, <2>1, <3>2, FlowKept
  <2>4. CASE j = i
    <3>1. Waits(i)'
      BY <2>2, <2>4 DEF Waits
    <3>2. ASSUME i \notin raced' PROVE OneUpdates(i)' /\ DocStored(f)' /\ GraphsKnow(f)'
      <4>1. i \notin raced /\ loop.scheduler # i /\ ~Picked(i)
        BY <2>1, <2>4, <3>2
      <4>2. OneUpdates(i) /\ DocStored(f) /\ GraphsKnow(f)
        BY <1>2, <1>i, <4>1 DEF FlowInv
      <4>3. OneUpdates(i)'
        BY <1>k, <2>2, <4>1 DEF OneUpdates, Picked
      <4>4. DocStored(f)'
        BY <1>i, <1>k, <2>1, <4>2 DEF DocStored
      <4>5. Knows(made[open[f]].graph, f)'
        BY <1>i, <1>k, <2>1, <3>1, <4>1, <4>2 DEF GraphsKnow, Knows, Setting, Picked
      <4>6. \A u \in Threads : thread'[u].scheduler = i => u = t
        BY <2>2, <4>1 DEF Picked
      <4> QED
        BY <1>2, <1>i, <1>k, <2>0, <2>1, <2>2, <2>4, <4>1, <4>3, <4>4, <4>5, <4>6 DEF GraphsKnow
    <3> QED
      BY <1>2, <1>k, <1>i, <1>o, <2>1, <3>2 DEF FlowInv
  <2> QED
    BY <2>3, <2>4
\* compiled it
<1>8. CASE Recompile(t)
  <2>0. PICK g : g = Compiled(thread[t].doc, trusted)
    OBVIOUS
  <2>c. g.doc = thread[t].doc /\ g.trust = trusted[folder]
    BY <2>0 DEF Compiled
  <2>1. /\ thread[t].pc = "update" /\ UNCHANGED <<raced, owed, trusted>>
        /\ Goes(t, [thread[t] EXCEPT !.pc = "graph", !.graph = g])
    BY <1>8, <2>0 DEF Recompile, database
  <2>2. /\ thread'[t].pc = "graph" /\ thread'[t].queue = thread[t].queue
        /\ thread'[t].scheduler = thread[t].scheduler /\ thread'[t].doc = thread[t].doc /\ thread'[t].graph = g
        /\ \A u \in Threads : u # t => thread'[u] = thread[u]
    <3>2. \A r \in RecompileRecord :
            LET e == [r EXCEPT !.pc = "graph", !.graph = g]
            IN /\ e.pc = "graph" /\ e.queue = r.queue /\ e.scheduler = r.scheduler
               /\ e.doc = r.doc /\ e.graph = g
      BY DEF RecompileRecord
    <3>3. PICK e : e = [thread[t] EXCEPT !.pc = "graph", !.graph = g]
      OBVIOUS
    <3>4. /\ e.pc = "graph" /\ e.queue = thread[t].queue /\ e.scheduler = thread[t].scheduler
          /\ e.doc = thread[t].doc /\ e.graph = g
      BY <1>0, <3>2, <3>3
    <3>5. Goes(t, e)
      BY <2>1, <3>3
    <3> QED
      BY <1>g, <3>4, <3>5
  <2>m. made'[i].graph = made[i].graph
        /\ (made'[i].doc = made[i].doc \/ (i = thread[t].scheduler /\ made'[i].doc = thread[t].doc))
    BY <1>2, <1>8, RecompileKeeps
  <2>3. CASE thread[t].scheduler # i
    <3>1. Waits(i) => Waits(i)'
      BY <2>1, <2>2, <2>3 DEF Waits
    <3>2. SameOnThreads(i)
      BY <2>1, <2>2, <2>3, <3>1 DEF SameOnThreads
    <3> QED
      BY <1>2, <1>i, <1>k, <1>l, <1>o, <2>1, <2>3, <2>m, <3>2, FlowKept
  <2>4. CASE thread[t].scheduler = i
    <3>1. ASSUME i \notin raced' PROVE OneUpdates(i)' /\ DocStored(f)' /\ GraphsKnow(f)'
      <4>1. OneUpdates(i) /\ DocStored(f) /\ GraphsKnow(f)
        BY <1>2, <1>i, <2>1, <3>1 DEF FlowInv
      <4>2. loop.scheduler # i /\ (\A u \in Threads : thread[u].scheduler = i => u = t)
            /\ thread[t].doc = made[i].doc
        BY <1>i, <2>4, <4>1 DEF OneUpdates, Picked, GraphsKnow
      <4>3. made'[i].doc = made[i].doc
        BY <2>m, <4>2
      <4>4. \A u \in Threads : thread'[u].scheduler = i => u = t
        BY <2>2, <4>2
      <4>5. OneUpdates(i)'
        BY <1>k, <4>2, <4>4 DEF OneUpdates
      <4>6. DocStored(f)'
        BY <1>i, <1>k, <4>1, <4>3 DEF DocStored
      <4>7. Knows(thread[t].graph, f)'
        BY <1>2, <1>i, <1>k, <1>o, <2>1, <2>2, <2>c, <4>2, <4>3 DEF Knows
      <4>8. Setting(i)'
        BY <2>2, <2>4 DEF Setting
      <4>9. \A u \in Threads : thread'[u].scheduler = open'[f] => thread'[u].doc = made'[open'[f]].doc /\ u = t
        BY <1>2, <2>2, <4>2, <4>3, <4>4
      <4> QED
        BY <1>2, <1>i, <1>k, <4>2, <4>5, <4>6, <4>7, <4>8, <4>9 DEF GraphsKnow
    <3> QED
      BY <1>2, <1>k, <1>i, <1>o, <2>1, <3>1 DEF FlowInv
  <2> QED
    BY <2>3, <2>4
\* and set the graph.
<1>9. CASE Recompiled(t)
  <2>0. PICK r : r = NextRecompile(t)
    OBVIOUS
  <2>1. thread[t].pc = "graph" /\ UNCHANGED <<raced, owed, trusted>> /\ Goes(t, r)
    BY <1>9, <2>0 DEF Recompiled, database
  <2>2. /\ thread'[t].scheduler = 0 /\ (i \in thread[t].queue => i \in thread'[t].queue)
        /\ \A u \in Threads : u # t => thread'[u] = thread[u]
    <3>1. r.scheduler = 0 /\ (thread[t].queue # {} => r.queue = thread[t].queue)
      BY <2>0, <1>n DEF NextRecompile, NoRecompile
    <3> QED
      BY <1>g, <2>1, <3>1
  <2>w. Waits(i) => Waits(i)'
    BY <2>1, <2>2 DEF Waits
  <2>m. /\ made'[i].doc = made[i].doc
        /\ made'[i].graph = IF thread[t].scheduler = i THEN thread[t].graph ELSE made[i].graph
    BY <1>2, <1>9, RecompiledKeeps
  <2>3. CASE thread[t].scheduler # i
    <3>1. SameOnThreads(i)
      BY <1>2, <2>1, <2>2, <2>3, <2>w DEF SameOnThreads
    <3> QED
      BY <1>2, <1>i, <1>k, <1>l, <1>o, <2>1, <2>3, <2>m, <3>1, FlowKept
  <2>4. CASE thread[t].scheduler = i
    <3>1. ASSUME i \notin raced' PROVE OneUpdates(i)' /\ DocStored(f)' /\ GraphsKnow(f)'
      <4>1. OneUpdates(i) /\ DocStored(f) /\ GraphsKnow(f)
        BY <1>2, <1>i, <2>1, <3>1 DEF FlowInv
      <4>2. loop.scheduler # i /\ (\A u \in Threads : thread[u].scheduler = i => u = t)
        BY <2>4, <4>1 DEF OneUpdates, Picked
      <4>4. \A u \in Threads : thread'[u].scheduler # i
        BY <1>2, <2>2, <4>2
      <4>5. OneUpdates(i)'
        BY <1>k, <4>2, <4>4 DEF OneUpdates
      <4>6. DocStored(f)'
        BY <1>i, <1>k, <2>m, <4>1 DEF DocStored
      <4>7. Knows(thread[t].graph, f)
        BY <1>i, <2>1, <2>4, <4>1 DEF GraphsKnow
      <4>8. Knows(made[open[f]].graph, f)'
        BY <1>2, <1>i, <1>k, <2>1, <2>4, <2>m, <2>w, <4>7 DEF Knows
      <4> QED
        BY <1>2, <1>k, <4>2, <4>4, <4>5, <4>6, <4>8 DEF GraphsKnow
    <3> QED
      BY <1>2, <1>k, <1>i, <1>o, <2>1, <3>1 DEF FlowInv
  <2> QED
    BY <2>3, <2>4
<1> QED
  BY <1>4, <1>5, <1>6, <1>7, <1>8, <1>9 DEF OnThread

LEMMA EngineInvStep ==
  ASSUME Typed, OpenIsOwn, EngineInv, [Next]_vars
  PROVE  EngineInv'
<1>0. DatabaseTyped' /\ MadeTyped' /\ rows \in [Folders -> [Flows -> RowRecord]] /\ folder \in Folders
  BY DatabaseTypedStep, MadeTypedStep DEF Typed, DatabaseTyped, SwitchesTyped
<1>1. ASSUME NEW f \in Flows, NEW d \in Docs, Put(f, d) PROVE EngineInv'
  <2>1. /\ rows'[folder][f].doc = d
        /\ \A g \in Flows : g # f => rows'[folder][g] = rows[folder][g]
    BY <1>0, <1>1 DEF Put
  <2>2. LoopIsFree /\ Load(f, d) /\ UNCHANGED <<folder, thread>> /\ (UNCHANGED trusted \/ Trusts)
    BY <1>1 DEF Put
  <2> QED
    BY <1>0, <2>1, <2>2, LoadStep
<1>2. ASSUME NEW f \in Flows, Access(f) PROVE EngineInv'
  <2>1. /\ LoopIsFree /\ rows[folder][f].doc \in Docs /\ Load(f, rows[folder][f].doc)
        /\ UNCHANGED <<folder, thread, trusted, rows>>
    BY <1>2 DEF Access, database
  <2> QED
    BY <1>0, <2>1, LoadStep
<1>3. CASE LoadEnds
  BY <1>3, LoadEndsStep
<1>4. ASSUME NEW t \in Threads, OnThread(t) PROVE EngineInv'
  BY <1>0, <1>4, ThreadStep
<1>5. ASSUME \/ \E i \in DOMAIN made : DebounceFires(i) \/ RunEnds(i)
             \/ \E f \in Flows : StartRun(f) \/ BeginDelete(f) \/ Damage(f)
             \/ \E d \in deletes : EndDelete(d)
             \/ \E w \in Folders : BeginSwitch(w)
             \/ \E n \in DOMAIN switches : CloseSchedulers(n) \/ \E ok \in BOOLEAN : EndSwitch(n, ok)
             \/ UNCHANGED vars
      PROVE  EngineInv'
  BY <1>5, QuietStep
<1> QED
  BY <1>1, <1>2, <1>3, <1>4, <1>5 DEF Next

\* load and recompile_all (runtime.py): with no update in progress, an open workflow two
\* updates of which have not overlapped runs its stored document, compiled with the
\* decisions of its last load and of every trust request since.
THEOREM EngineRunsStoredAlways == Spec => []EngineRunsStored
<1>1. Init => EngineInv
  BY DEF Init, EngineInv, FlowInv
<1>2. RuntimeInv /\ EngineInv /\ [Next]_vars => EngineInv'
  BY EngineInvStep DEF RuntimeInv
<1>3. EngineInv => EngineRunsStored
  <2> SUFFICES ASSUME EngineInv, LoopIsFree, \A t \in Threads : thread[t] = NoRecompile,
                      NEW f \in Flows, open[f] # 0, open[f] \notin raced, rows[folder][f].doc \in Docs
               PROVE  /\ made[open[f]].doc = rows[folder][f].doc
                      /\ made[open[f]].graph.doc = rows[folder][f].doc
                      /\ made[open[f]].graph.trust >= owed[f]
    BY DEF EngineRunsStored
  <2>1. DocStored(f) /\ GraphsKnow(f)
    BY DEF EngineInv, FlowInv
  <2>2. ~Waits(open[f]) /\ ~Setting(open[f])
    BY DEF Waits, Setting, NoRecompile
  <2>3. loop.scheduler # open[f]
    BY DEF LoopIsFree, NoUpdate
  <2>4. Knows(made[open[f]].graph, f)
    BY <2>1, <2>2, <2>3 DEF GraphsKnow
  <2> QED
    BY <2>1, <2>2, <2>4 DEF DocStored, Knows
<1> QED
  BY <1>1, <1>2, <1>3, RuntimeInvAlways, PTL DEF Spec
=============================================================================
