----------------------------- MODULE PackManager -----------------------------
(***************************************************************************)
(* The pack manager (backend/src/astro_canvas/manager/packs.py, its routes *)
(* in server/manager.py) over the shared Python environment, the running   *)
(* process and the workspace database.                                     *)
(*                                                                         *)
(* The routes are plain functions: each request runs on a thread of its    *)
(* own, no lock is taken, and two requests interleave between their calls  *)
(* of uv, their transactions, their changes of the registry and the two    *)
(* halves of recompiling an open workflow.  uv locks the environment, so   *)
(* each of its calls is one step, ended or cut short.  A step that rebinds *)
(* `records` reads and writes it at once.                                  *)
(*                                                                         *)
(* A pack's entry point, distribution and module share its name; a         *)
(* version is a number, 0 for none.  A freeze line of a direct version     *)
(* has no pin ("name @ url").  Plans (dry runs) read the environment only. *)
(* Of the open workflows one is followed, that nobody edits meanwhile.     *)
(***************************************************************************)
EXTENDS Integers, Sequences, FiniteSets, FiniteSetsExt

CONSTANTS
  NumPacks,    \* packs that can be installed, numbered in the order of their names
  Libs,        \* other distributions of the environment
  MaxVersion,  \* versions of each distribution
  Requires,    \* a pack -> the distributions it cannot do without, directly or not
  Broken,      \* <<pack, version>>: importing it fails
  Direct,      \* <<distribution, version>>: installed from a URL or a path
  Shipped,     \* distributions the environment begins with, at version 1
  Clients,     \* requests in progress at once
  MaxRequests, \* bound on the requests and the restarts of the server
  MaxFailures  \* bound on the calls of uv that fail

Packs == 1..NumPacks
Dists == Packs \cup Libs
Versions == 1..MaxVersion
Environments == [Dists -> 0..MaxVersion]
ASSUME PackManagerAssumption ==
  /\ NumPacks \in Nat \ {0} /\ MaxVersion \in Nat \ {0} /\ {MaxRequests, MaxFailures} \subseteq Nat
  /\ Requires \in [Packs -> SUBSET Dists]
  /\ Broken \subseteq Packs \X Versions /\ Direct \subseteq Dists \X Versions
  /\ Shipped \subseteq Dists

VARIABLES
  env,        \* the environment: the installed version of each distribution
  modules,    \* sys.modules: the version of each pack this process has imported
  registered, \* NodeRegistry: packs whose nodes it holds
  records,    \* PackManager.records: "none", "loaded", or "failed" with its traceback
  rows,       \* the packs table: "none", "on" or "off" (enabled)
  snapshots,  \* the snapshots table
  restart,    \* restart_required
  compiled,   \* packs the open workflow's graph was compiled with
  job,        \* what each thread is doing
  requests,   \* and restarts so far
  failures,   \* of calls of uv so far
  \* of this process:
  overlapped, \* two requests have been in progress at once
  unseen,     \* an install, or a call of uv cut short, has changed an installed pack
  crossed     \* the recompilation begun last began during another

process == <<modules, registered, records, restart, compiled>>
stored == <<env, rows, snapshots>>
bounds == <<requests, failures>>
observers == <<overlapped, unseen, crossed>>
vars == <<process, stored, job, bounds, observers>>

None == [d \in Dists |-> 0]
Idle == [op |-> "none", pc |-> "idle", pack |-> 1, version |-> 0, snapshot |-> 0,
         names |-> {}, queue |-> {}, restart |-> FALSE, remove |-> {}, pins |-> None, ok |-> TRUE,
         graph |-> {}]
Busy == {c \in Clients : job[c].op # "none"}

\* _entry_point_names.
EntryPoints == {p \in Packs : env[p] # 0}

\* load_pack in a process whose imported modules are m: the version it registers,
\* 0 if importing fails.  A module already imported is not read again.
Loaded(m, p) ==
  IF m[p] # 0 THEN m[p] ELSE IF <<p, env[p]>> \in Broken THEN 0 ELSE env[p]

Fresh == [p \in Packs |-> Loaded([q \in Packs |-> 0], p)]
Record(p, loaded) == IF loaded # 0 THEN "loaded" ELSE "failed"
Discovered == [p \in Packs |-> IF p \in EntryPoints THEN Record(p, Fresh[p]) ELSE "none"]

Init ==
  /\ env = [d \in Dists |-> IF d \in Shipped THEN 1 ELSE 0]
  /\ modules = Fresh /\ records = Discovered
  /\ rows = [p \in Packs |-> IF p \in Shipped THEN "on" ELSE "none"]
  /\ registered = {p \in Packs : Fresh[p] # 0} /\ compiled = registered
  /\ snapshots = <<>> /\ restart = FALSE
  /\ job = [c \in Clients |-> Idle]
  /\ requests = 0 /\ failures = 0 /\ overlapped = FALSE /\ unseen = FALSE /\ crossed = FALSE

\* The server stops at any point, and starts again: discover() and sync_records.
Restart ==
  /\ requests < MaxRequests
  /\ requests' = requests + 1
  /\ modules' = Fresh /\ records' = Discovered
  /\ rows' = [p \in Packs |-> IF rows[p] = "none" /\ p \in EntryPoints THEN "on" ELSE rows[p]]
  /\ registered' = {p \in Packs : Fresh[p] # 0 /\ rows[p] # "off"}
  /\ compiled' = registered' /\ restart' = FALSE
  /\ job' = [c \in Clients |-> Idle]
  /\ overlapped' = FALSE /\ unseen' = FALSE /\ crossed' = FALSE
  /\ UNCHANGED <<env, snapshots, failures>>

(***************************************************************************)
(* Requests.                                                               *)
(***************************************************************************)
Begin(c, j) ==
  /\ job[c].op = "none" /\ requests < MaxRequests
  /\ requests' = requests + 1
  /\ job' = [job EXCEPT ![c] = j]
  /\ overlapped' = (overlapped \/ Busy # {})
  /\ UNCHANGED <<process, stored, failures, unseen, crossed>>

Request(op, pc, p) == [Idle EXCEPT !.op = op, !.pc = pc, !.pack = p]
IsListed(p) == records[p] # "none"

\* The canvas offers what it lists; a source can be typed in.
BeginInstall(c, p, v) == Begin(c, [Request("install", "snapshot", p) EXCEPT !.version = v])
BeginUpdate(c, p) == IsListed(p) /\ Begin(c, Request("update", "snapshot", p))
BeginUninstall(c, p) == IsListed(p) /\ Begin(c, Request("uninstall", "snapshot", p))
BeginEnable(c, p) == IsListed(p) /\ Begin(c, Request("enable", "row", p))
BeginDisable(c, p) == IsListed(p) /\ Begin(c, Request("disable", "row", p))
BeginSnapshot(c) == Begin(c, Request("snapshot", "snapshot", 1))
BeginRollback(c, s) ==
  s \in DOMAIN snapshots /\ Begin(c, [Request("rollback", "diff", 1) EXCEPT !.snapshot = s])

At(c, op, pc) == job[c].op = op /\ job[c].pc = pc
GoTo(c, pc) == job' = [job EXCEPT ![c].pc = pc]
Return(c) == job' = [job EXCEPT ![c] = Idle]
\* All that is left to do is _changed.
Change(c) == job' = [job EXCEPT ![c] = Request("change", "changed", 1)]

\* PackManager.snapshot.
TakeSnapshot(c) ==
  /\ job[c].pc = "snapshot"
  /\ snapshots' = Append(snapshots, env)
  /\ CASE job[c].op = "snapshot" -> Return(c)
       [] job[c].op = "install" ->
            job' = [job EXCEPT ![c].pc = "list", ![c].snapshot = Len(snapshots) + 1]
       [] OTHER -> GoTo(c, "uv")
  /\ UNCHANGED <<process, env, rows, bounds, observers>>

(***************************************************************************)
(* uv.                                                                     *)
(***************************************************************************)
\* What `uv pip install` of the versions asked for may leave: these, what the packs among
\* them cannot do without, and what was installed, upgraded, downgraded or removed at will.
Pins(p, v) == [d \in Dists |-> IF d = p THEN v ELSE 0]
IsRequired(d, pins) == \E p \in Packs : pins[p] # 0 /\ d \in Requires[p]
Resolutions(pins) ==
  {e \in Environments : \A d \in Dists :
     IF pins[d] # 0 THEN e[d] = pins[d]
     ELSE IF IsRequired(d, pins) THEN e[d] # 0
     ELSE env[d] = 0 => e[d] = 0}

\* What the call of uv that a request is at may leave.
Results(c) ==
  LET j == job[c] IN
  CASE j.op = "install" -> Resolutions(Pins(j.pack, j.version))
    [] j.op = "update" -> UNION {Resolutions(Pins(j.pack, v)) : v \in {w \in Versions : w >= env[j.pack]}}
    [] j.op = "uninstall" -> {[env EXCEPT ![j.pack] = 0]}
    [] j.pc = "remove" -> {[d \in Dists |-> IF d \in j.remove THEN 0 ELSE env[d]]}
    [] OTHER -> Resolutions(j.pins)
Calls(c) ==
  \/ job[c].pc = "uv" \/ (job[c].pc = "remove" /\ job[c].remove # {}) \/ (job[c].pc = "pin" /\ job[c].pins # None)

\* A call that fails or is killed has changed some of the distributions it was to change
\* or none, and the old version of one may be gone already.
CutShort(c) ==
  {x \in Environments : \E e \in Results(c) : \A d \in Dists :
     x[d] = env[d] \/ (env[d] # e[d] /\ x[d] \in {0, e[d]})}
Fails == failures < MaxFailures /\ failures' = failures + 1
Upsets == \E p \in Packs : env[p] # 0 /\ env'[p] # env[p]

\* It times out, or fails where that is not passed over: the request ends there.
UvStops(c) ==
  /\ Calls(c) /\ Fails
  /\ env' \in CutShort(c)
  /\ unseen' = (unseen \/ Upsets \/ (job[c].pc = "pin" /\ job[c].remove # {}))
  /\ Return(c)
  /\ UNCHANGED <<process, rows, snapshots, requests, overlapped, crossed>>

\* Neither does it go on if a freeze fails.
UvFails(c) ==
  /\ job[c].pc \in {"snapshot", "diff"} /\ Fails
  /\ Return(c)
  /\ UNCHANGED <<process, stored, requests, observers>>

(***************************************************************************)
(* install.                                                                *)
(***************************************************************************)
ListBefore(c) ==
  /\ At(c, "install", "list")
  /\ job' = [job EXCEPT ![c].pc = "uv", ![c].names = EntryPoints]
  /\ UNCHANGED <<process, stored, bounds, observers>>

UvInstalls(c) ==
  /\ At(c, "install", "uv")
  /\ env' \in Results(c)
  /\ unseen' = (unseen \/ Upsets)
  /\ job' = [job EXCEPT ![c].pc = "added", ![c].version = 0]
  /\ UNCHANGED <<process, rows, snapshots, bounds, overlapped, crossed>>

\* The new entry points; an install that adds none ends here.
FindAdded(c) ==
  /\ At(c, "install", "added")
  /\ LET added == EntryPoints \ job[c].names IN
     IF added = {} THEN Return(c)
     ELSE job' = [job EXCEPT ![c].pc = "test", ![c].names = added]
  /\ UNCHANGED <<process, stored, bounds, observers>>

\* import_test(added[0]), in a process of its own; if it fails or times out, the rest is
\* a rollback.
ImportTest(c) ==
  /\ At(c, "install", "test")
  /\ LET first == Min(job[c].names) IN
     \/ job' = [job EXCEPT ![c].op = "rollback", ![c].pc = "diff"]
     \/ env[first] # 0 /\ <<first, env[first]>> \notin Broken
        /\ job' = [job EXCEPT ![c].pc = "lookup", ![c].snapshot = 0]
  /\ UNCHANGED <<process, stored, bounds, observers>>

(***************************************************************************)
(* rollback, as a request or after a failed import test.                   *)
(***************************************************************************)
\* The difference between two freezes; lines without a pin cannot be reinstalled.
Diff(c) ==
  /\ job[c].pc = "diff"
  /\ LET wanted == snapshots[job[c].snapshot]
         differs(d) == wanted[d] # env[d] /\ <<d, wanted[d]>> \notin Direct
     IN job' = [job EXCEPT
          ![c].pc = "remove",
          ![c].remove = {d \in Dists : env[d] # 0 /\ wanted[d] = 0},
          ![c].pins = [d \in Dists |-> IF differs(d) THEN wanted[d] ELSE 0]]
  /\ UNCHANGED <<process, stored, bounds, observers>>

\* Both calls of uv are made, whether or not the first one exits well.
RollbackRemoves(c, ok) ==
  /\ job[c].pc = "remove" /\ IF ok THEN UNCHANGED failures ELSE Calls(c) /\ Fails
  /\ env' \in IF ok THEN Results(c) ELSE CutShort(c)
  /\ job' = [job EXCEPT ![c].pc = "pin", ![c].ok = ok]
  /\ UNCHANGED <<process, rows, snapshots, requests, observers>>

\* A plausible bug: the second call's result stands for both.
RollbackInstallsOk(c, ok) ==
  /\ job[c].pc = "pin" /\ IF ok THEN UNCHANGED failures ELSE Calls(c) /\ Fails
  /\ IF ~Calls(c) THEN UNCHANGED env ELSE env' \in IF ok THEN Results(c) ELSE CutShort(c)
  /\ job' = [job EXCEPT ![c].pc = "rolled", ![c].ok = ok]
  /\ UNCHANGED <<process, rows, snapshots, requests, observers>>

\* The second one is an install like any other, and may bring back what was removed.
RollbackInstalls(c, ok) ==
  /\ job[c].pc = "pin" /\ IF ok THEN UNCHANGED failures ELSE Calls(c) /\ Fails
  /\ IF ~Calls(c) THEN UNCHANGED env ELSE env' \in IF ok THEN Results(c) ELSE CutShort(c)
  /\ job' = [job EXCEPT ![c].pc = "rolled", ![c].ok = @ /\ ok]
  /\ UNCHANGED <<process, rows, snapshots, requests, observers>>

RolledBack(c) ==
  /\ job[c].pc = "rolled"
  /\ restart' = TRUE
  /\ Change(c)
  /\ UNCHANGED <<modules, registered, records, compiled, stored, bounds, observers>>

(***************************************************************************)
(* _changed: the open workflow is compiled with the registry of the        *)
(* moment, and then its graph is set.                                      *)
(***************************************************************************)
Sets(c) == job[c].pc = "set"

Recompile(c) ==
  /\ job[c].pc = "changed"
  /\ job' = [job EXCEPT ![c].pc = "set", ![c].graph = registered]
  /\ crossed' = \E d \in Clients : Sets(d)
  /\ UNCHANGED <<process, stored, bounds, overlapped, unseen>>

SetGraph(c) ==
  /\ Sets(c)
  /\ compiled' = job[c].graph
  /\ IF job[c].op = "install" THEN job' = [job EXCEPT ![c].pc = "source", ![c].graph = {}] ELSE Return(c)
  /\ UNCHANGED <<modules, registered, records, restart, stored, bounds, observers>>

(***************************************************************************)
(* _register: for install with new code, for enable without.               *)
(***************************************************************************)
LookUp(c) ==
  /\ job[c].pc = "lookup"
  /\ LET found == job[c].names \cap EntryPoints IN
     IF found # {} THEN job' = [job EXCEPT ![c].pc = "load", ![c].queue = found]
     ELSE IF job[c].op = "install" THEN GoTo(c, "source") ELSE Return(c)
  /\ UNCHANGED <<process, stored, bounds, observers>>

Registered(c) ==
  LET p == Min(job[c].queue) IN
  /\ modules' = [modules EXCEPT ![p] = Loaded(modules, p)]
  /\ registered' = IF Loaded(modules, p) # 0 THEN registered \cup {p} ELSE registered \ {p}
  /\ records' = [records EXCEPT ![p] = Record(p, Loaded(modules, p))]

\* A plausible bug: a pack whose old module is in memory is registered again.
LoadOver(c) ==
  /\ job[c].pc = "load" /\ job[c].queue # {}
  /\ Registered(c)
  /\ job' = [job EXCEPT ![c].queue = @ \ {Min(@)}]
  /\ UNCHANGED <<stored, restart, compiled, bounds, observers>>

\* New code of a module in memory has to wait for a restart.
Load(c) ==
  /\ job[c].pc = "load" /\ job[c].queue # {}
  /\ LET waits == job[c].op = "install" /\ modules[Min(job[c].queue)] # 0 IN
     /\ job' = [job EXCEPT ![c].queue = @ \ {Min(@)}, ![c].restart = @ \/ waits]
     /\ IF waits THEN UNCHANGED <<modules, registered, records>> ELSE Registered(c)
  /\ UNCHANGED <<stored, restart, compiled, bounds, observers>>

AllLoaded(c) ==
  /\ job[c].pc = "load" /\ job[c].queue = {}
  /\ restart' = (restart \/ job[c].restart)
  /\ IF job[c].op = "install" THEN GoTo(c, "changed") ELSE Change(c)
  /\ UNCHANGED <<modules, registered, records, compiled, stored, bounds, observers>>

\* _record_source: every pack the install added has a row.
RecordSource(c) ==
  /\ At(c, "install", "source")
  /\ rows' = [p \in Packs |-> IF p \in job[c].names /\ rows[p] = "none" THEN "on" ELSE rows[p]]
  /\ Return(c)
  /\ UNCHANGED <<process, env, snapshots, bounds, observers>>

(***************************************************************************)
(* update, uninstall and set_enabled.                                      *)
(***************************************************************************)
\* uv upgrades the pack and what it likes of the rest; the plan was empty if nothing is newer.
UvUpgrades(c) ==
  /\ At(c, "update", "uv")
  /\ \/ Return(c) /\ UNCHANGED env
     \/ env' \in Results(c) /\ GoTo(c, "updated")
  /\ UNCHANGED <<process, rows, snapshots, bounds, observers>>

Updated(c) ==
  /\ At(c, "update", "updated")
  /\ restart' = TRUE
  /\ Change(c)
  /\ UNCHANGED <<modules, registered, records, compiled, stored, bounds, observers>>

UvUninstalls(c) ==
  /\ At(c, "uninstall", "uv")
  /\ env' \in Results(c)
  /\ GoTo(c, "forget")
  /\ UNCHANGED <<process, rows, snapshots, bounds, observers>>

\* A plausible bug: the record stays listed.
ForgetNodes(c) ==
  /\ At(c, "uninstall", "forget")
  /\ registered' = registered \ {job[c].pack}
  /\ GoTo(c, "row")
  /\ UNCHANGED <<modules, records, restart, compiled, stored, bounds, observers>>

\* NodeRegistry.remove_pack, and the record.
Forget(c) ==
  /\ At(c, "uninstall", "forget")
  /\ registered' = registered \ {job[c].pack}
  /\ records' = [records EXCEPT ![job[c].pack] = "none"]
  /\ GoTo(c, "row")
  /\ UNCHANGED <<modules, restart, compiled, stored, bounds, observers>>

\* A plausible bug: the open workflows are not compiled again.
UninstalledQuietly(c) ==
  /\ At(c, "uninstall", "row")
  /\ rows' = [rows EXCEPT ![job[c].pack] = "none"]
  /\ Return(c)
  /\ UNCHANGED <<process, env, snapshots, bounds, observers>>

Uninstalled(c) ==
  /\ At(c, "uninstall", "row")
  /\ rows' = [rows EXCEPT ![job[c].pack] = "none"]
  /\ Change(c)
  /\ UNCHANGED <<process, env, snapshots, bounds, observers>>

\* set_enabled: the choice is committed first; an unknown pack is refused.
CommitEnabled(c) ==
  /\ job[c].op \in {"enable", "disable"} /\ job[c].pc = "row"
  /\ LET p == job[c].pack
         choice == IF job[c].op = "enable" THEN "on" ELSE "off"
     IN IF rows[p] = "none" THEN Return(c) /\ UNCHANGED rows
        ELSE /\ rows' = [rows EXCEPT ![p] = choice]
             /\ job' = [job EXCEPT ![c].pc = IF choice = "on" THEN "lookup" ELSE "drop",
                                   ![c].names = {p}]
  /\ UNCHANGED <<process, env, snapshots, bounds, observers>>

Drop(c) ==
  /\ At(c, "disable", "drop")
  /\ registered' = registered \ {job[c].pack}
  /\ Change(c)
  /\ UNCHANGED <<modules, records, restart, compiled, stored, bounds, observers>>

Step(c) ==
  \/ TakeSnapshot(c) \/ UvFails(c) \/ UvStops(c) \/ ListBefore(c) \/ UvInstalls(c) \/ FindAdded(c) \/ ImportTest(c)
  \/ Diff(c) \/ RolledBack(c) \/ Recompile(c) \/ SetGraph(c)
  \/ \E ok \in BOOLEAN : RollbackRemoves(c, ok) \/ RollbackInstalls(c, ok)
  \/ LookUp(c) \/ Load(c) \/ AllLoaded(c) \/ RecordSource(c)
  \/ UvUpgrades(c) \/ Updated(c) \/ UvUninstalls(c) \/ Forget(c) \/ Uninstalled(c)
  \/ CommitEnabled(c) \/ Drop(c)

Next ==
  \/ \E c \in Clients :
       \/ Step(c) \/ BeginSnapshot(c)
       \/ \E p \in Packs : BeginUpdate(c, p) \/ BeginUninstall(c, p) \/ BeginEnable(c, p) \/ BeginDisable(c, p)
       \/ \E p \in Packs, v \in Versions : BeginInstall(c, p, v)
       \/ \E s \in 1..MaxRequests : BeginRollback(c, s)
  \/ Restart

Spec == Init /\ [][Next]_vars

(***************************************************************************)
(* Properties.                                                             *)
(***************************************************************************)
\* Types; and every registered pack is one this process has imported.
TypeOK ==
  /\ env \in Environments /\ modules \in [Packs -> 0..MaxVersion]
  /\ registered \subseteq Packs /\ compiled \subseteq Packs
  /\ records \in [Packs -> {"none", "loaded", "failed"}]
  /\ rows \in [Packs -> {"none", "on", "off"}]
  /\ \A s \in DOMAIN snapshots : snapshots[s] \in Environments
  /\ \A c \in Clients : job[c].snapshot \in 0..Len(snapshots)
  /\ \A p \in registered : modules[p] # 0
  /\ {restart, overlapped, unseen, crossed} \subseteq BOOLEAN

\* However requests interleave, once none is in progress the open workflow runs on the
\* packs the registry holds: each change of the registry is followed by a recompilation
\* of its own -- unless the one begun last began while another was under way, and the
\* graphs were set in the other order.
CanvasFollowsRegistry == Busy = {} /\ ~crossed => compiled = registered

\* "New code always needs a restart to take effect" (packs.py:404).  Whoever runs code that
\* is not the installed one is told so, by requests one after the other of which no
\* install and no failed call of uv has touched an installed pack: the restart banner
\* is absent only if every pack's nodes are those of its installed version.
RestartIsHonest ==
  Busy = {} /\ ~overlapped /\ ~unseen /\ ~restart =>
    \A p \in registered : modules[p] = env[p]

\* "Loaded" in the list of packs (enabled and without an error) is true: no sequence
\* of such requests, of failures of uv and of restarts lists a pack as loaded whose nodes
\* the registry does not hold, unless a restart is asked for.
ListedAsLoaded(p) == records[p] = "loaded" /\ rows[p] # "off"
ListIsTruthful ==
  Busy = {} /\ ~overlapped /\ ~unseen /\ ~restart => \A p \in Packs : ListedAsLoaded(p) => p \in registered

\* A rollback that is answered ok has its snapshot's distributions and no others ("matches
\* the snapshot line for line", docs/guide/packs.md:84), but for direct versions, which
\* have no pin, and for what the reinstall of others settles: it brings back what they
\* cannot do without, and may move what was as in the snapshot already.
RollbackRestores ==
  [][\A c \in Clients : ~overlapped /\ job[c].ok /\ RolledBack(c) =>
       LET wanted == snapshots[job[c].snapshot]
           pins == job[c].pins
       IN \A d \in Dists :
            \/ env[d] = wanted[d] \/ <<d, wanted[d]>> \in Direct
            \/ pins[d] = 0 /\ IF wanted[d] = 0 THEN IsRequired(d, pins) ELSE pins # None]_vars

=============================================================================
