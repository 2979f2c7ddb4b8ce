-------------------------- MODULE PackManagerProofs --------------------------
(***************************************************************************)
(* What TLAPS proves of PackManager for every number of packs, libraries,  *)
(* versions, clients and requests.                                         *)
(*                                                                         *)
(* The argument for CanvasFollowsRegistry: whenever the registry and the   *)
(* packs the open workflow was compiled with differ, some request stands   *)
(* at a step that will compile it again (Owes), or is about to set a graph *)
(* compiled with the registry as it is (Sets), however other requests      *)
(* interleave; and as long as no recompilation crossed the one before it,  *)
(* no other graph is about to be set.                                      *)
(*                                                                         *)
(* The argument for RestartIsHonest and ListIsTruthful: as long as the     *)
(* requests come one after the other, a pack that is not as the process    *)
(* or the list has it is the business of the request in progress, at a     *)
(* place from which it puts that right or asks for a restart (Enables,     *)
(* Moves), also when uv fails or the server stops there.                   *)
(***************************************************************************)
EXTENDS PackManager, SequenceTheorems, WellFoundedInduction, TLAPS

Operation == {"none", "install", "update", "uninstall", "enable", "disable", "snapshot", "rollback", "change"}
Place == {"idle", "snapshot", "list", "uv", "added", "test", "diff", "remove", "pin", "rolled",
          "lookup", "load", "source", "updated", "forget", "row", "drop", "changed", "set"}
Job == [op : Operation, pc : Place, pack : Packs, version : 0..MaxVersion, snapshot : Nat,
        names : SUBSET Packs, queue : SUBSET Packs, restart : BOOLEAN,
        remove : SUBSET Dists, pins : Environments, ok : BOOLEAN, graph : SUBSET Packs]

\* A request that may roll back has a snapshot to go back to; n are there.
MayRollBack == {"list", "uv", "added", "test"}
RollsBack == {"diff", "remove", "pin", "rolled"}
JobIsGood(j, n) ==
  /\ j \in Job /\ j.snapshot <= n
  /\ j.op = "none" => j.pc = "idle"
  /\ j.pc \in RollsBack => j.op = "rollback"
  /\ j.op = "rollback" \/ (j.op = "install" /\ j.pc \in MayRollBack) => j.snapshot >= 1

StoredTyped ==
  /\ env \in Environments /\ rows \in [Packs -> {"none", "on", "off"}]
  /\ snapshots \in Seq(Environments)
ProcessTyped ==
  /\ modules \in [Packs -> 0..MaxVersion]
  /\ registered \subseteq Packs /\ compiled \subseteq Packs
  /\ records \in [Packs -> {"none", "loaded", "failed"}]
  /\ \A p \in registered : modules[p] # 0 /\ records[p] # "none"
  /\ {restart, overlapped, unseen, crossed} \subseteq BOOLEAN
JobsTyped ==
  /\ job \in [Clients -> Job]
  /\ \A c \in Clients : JobIsGood(job[c], Len(snapshots))

Typed == StoredTyped /\ ProcessTyped /\ JobsTyped

\* A request at a step from which it compiles the open workflow again before it answers.
Owes(c) == job[c].pc \in {"load", "changed"} \/ At(c, "uninstall", "row")
SetsRegistry(c) == Sets(c) /\ job[c].graph = registered
Followed ==
  ~crossed =>
    /\ \A c, d \in Clients : Sets(c) /\ Sets(d) => c = d
    /\ compiled = registered \/ \E c \in Clients : Owes(c) \/ SetsRegistry(c)
    /\ \A c \in Clients : Sets(c) => SetsRegistry(c) \/ \E d \in Clients : Owes(d)

PacksInv == Typed /\ Followed

-----------------------------------------------------------------------------
(* Versions and names *)

LEMMA Numbers ==
  /\ Packs \subseteq Nat /\ 1 \in Packs /\ Packs \subseteq Dists /\ 0 \in 0..MaxVersion
  /\ MaxVersion \in Nat /\ Versions \subseteq 0..MaxVersion /\ 1 \in Versions
  /\ Libs \subseteq Dists
BY PackManagerAssumption DEF Packs, Dists, Versions

LEMMA MinIsIn ==
  ASSUME NEW S \in SUBSET Packs, S # {}
  PROVE  Min(S) \in S
<1>1. S \subseteq Nat
  BY Numbers
<1>2. PICK x \in S : \A y \in S : ~(<<y, x>> \in OpToRel(<, Nat))
  BY <1>1, NatLessThanWellFounded, WFMin
<1>3. ASSUME NEW y \in S PROVE x =< y
  <2>1. x \in Nat /\ y \in Nat /\ <<y, x>> \in Nat \X Nat
    BY <1>1
  <2>2. ~(y < x)
    BY <1>2, <2>1 DEF OpToRel
  <2> QED
    BY <2>1, <2>2
<1> QED
  BY <1>3 DEF Min

LEMMA LoadedType ==
  ASSUME env \in Environments, NEW m \in [Packs -> 0..MaxVersion], NEW p \in Packs
  PROVE  Loaded(m, p) \in 0..MaxVersion
BY Numbers DEF Environments, Loaded

LEMMA FreshType ==
  ASSUME env \in Environments
  PROVE  /\ Fresh \in [Packs -> 0..MaxVersion]
         /\ Discovered \in [Packs -> {"none", "loaded", "failed"}]
<1>1. [q \in Packs |-> 0] \in [Packs -> 0..MaxVersion]
  BY Numbers
<1>2. \A p \in Packs : Loaded([q \in Packs |-> 0], p) \in 0..MaxVersion
  BY <1>1, LoadedType
<1> QED
  BY <1>2 DEF Fresh, Discovered, Record

LEMMA IdleIsGood == \A n \in Nat : JobIsGood(Idle, n)
<1>1. None \in Environments
  BY Numbers DEF None, Environments
<1>2. Idle \in Job
  BY <1>1, Numbers DEF Idle, Job, Operation, Place
<1>3. Idle.snapshot = 0 /\ Idle.op = "none" /\ Idle.pc = "idle"
  BY DEF Idle
<1> QED
  BY <1>2, <1>3 DEF JobIsGood, RollsBack

-----------------------------------------------------------------------------
(* The requests *)

LEMMA OneJobChanges ==
  ASSUME Typed, NEW c \in Clients, NEW j \in Job, job' = [job EXCEPT ![c] = j],
         JobIsGood(j, Len(snapshots')), Len(snapshots') \in Nat, Len(snapshots) <= Len(snapshots')
  PROVE  JobsTyped'
<1>1. Len(snapshots) \in Nat /\ j \in Job /\ job \in [Clients -> Job]
  BY DEF Typed, StoredTyped, JobsTyped, JobIsGood
<1>2. job' \in [Clients -> Job] /\ job'[c] = j /\ \A d \in Clients \ {c} : job'[d] = job[d]
  BY <1>1
<1>3. ASSUME NEW d \in Clients PROVE JobIsGood(job'[d], Len(snapshots'))
  <2>1. CASE d = c
    BY <1>2, <2>1
  <2>2. CASE d # c
    <3>1. JobIsGood(job[d], Len(snapshots)) /\ job[d].snapshot \in Nat
      BY <1>1 DEF Typed, JobsTyped, Job
    <3> QED
      BY <1>1, <1>2, <2>2, <3>1 DEF JobIsGood
  <2> QED
    BY <2>1, <2>2
<1> QED
  BY <1>2, <1>3 DEF JobsTyped

LEMMA JobReturns ==
  ASSUME Typed, UNCHANGED snapshots, NEW c \in Clients, Return(c)
  PROVE  JobsTyped'
<1>1. Len(snapshots) \in Nat /\ Len(snapshots') = Len(snapshots)
  BY DEF Typed, StoredTyped
<1>2. Idle \in Job /\ JobIsGood(Idle, Len(snapshots')) /\ job' = [job EXCEPT ![c] = Idle]
  BY <1>1, IdleIsGood DEF JobIsGood, Return
<1>3. Len(snapshots') \in Nat /\ Len(snapshots) <= Len(snapshots')
  BY <1>1
<1> QED
  BY <1>2, <1>3, OneJobChanges

LEMMA JobTurnsTo ==
  ASSUME Typed, UNCHANGED snapshots, NEW c \in Clients, NEW j \in Job, job' = [job EXCEPT ![c] = j],
         j.op = job[c].op, j.snapshot = job[c].snapshot, j.op # "none",
         j.pc \in RollsBack => job[c].pc \in RollsBack,
         j.op = "install" /\ j.pc \in MayRollBack => job[c].pc \in MayRollBack
  PROVE  JobsTyped'
<1>1. Len(snapshots) \in Nat /\ Len(snapshots') = Len(snapshots)
  BY DEF Typed, StoredTyped
<1>2. JobIsGood(job[c], Len(snapshots))
  BY DEF Typed, JobsTyped
<1>3. JobIsGood(j, Len(snapshots'))
  BY <1>1, <1>2 DEF JobIsGood
<1>4. Len(snapshots') \in Nat /\ Len(snapshots) <= Len(snapshots')
  BY <1>1
<1> QED
  BY <1>3, <1>4, OneJobChanges

LEMMA JobGoesTo ==
  ASSUME Typed, UNCHANGED snapshots, NEW c \in Clients, NEW pc \in Place, GoTo(c, pc),
         job[c].op # "none", pc \notin RollsBack, pc \notin MayRollBack
  PROVE  JobsTyped'
<1> DEFINE j == [job[c] EXCEPT !.pc = pc]
<1>1. job[c] \in Job
  BY DEF Typed, JobsTyped
<1>2. j \in Job /\ j.pc = pc /\ j.op = job[c].op /\ j.snapshot = job[c].snapshot
  BY <1>1 DEF Job
<1>3. job' = [job EXCEPT ![c] = j]
  BY DEF GoTo
<1> HIDE DEF j
<1> QED
  BY <1>2, <1>3, JobTurnsTo

LEMMA JobChanges ==
  ASSUME Typed, UNCHANGED snapshots, NEW c \in Clients, Change(c)
  PROVE  JobsTyped'
<1> DEFINE j == Request("change", "changed", 1)
<1>1. Len(snapshots) \in Nat /\ Len(snapshots') = Len(snapshots)
  BY DEF Typed, StoredTyped
<1>2. Idle \in Job /\ Idle.snapshot = 0
  BY <1>1, IdleIsGood DEF JobIsGood, Idle
<1>3. j \in Job /\ j.op = "change" /\ j.pc = "changed" /\ j.snapshot = 0
  BY <1>2, Numbers DEF Request, Job, Operation, Place
<1>4. job' = [job EXCEPT ![c] = j]
  BY DEF Change
<1> HIDE DEF j
<1>5. JobIsGood(j, Len(snapshots'))
  BY <1>1, <1>3 DEF JobIsGood, RollsBack
<1>6. Len(snapshots') \in Nat /\ Len(snapshots) <= Len(snapshots')
  BY <1>1
<1> QED
  BY <1>3, <1>4, <1>5, <1>6, OneJobChanges

LEMMA JobBegins ==
  ASSUME Typed, NEW c \in Clients, NEW j \in Job, Begin(c, j), j.op # "none", j.snapshot <= Len(snapshots),
         j.pc \in RollsBack => j.op = "rollback",
         j.op = "install" => j.pc \notin MayRollBack,
         j.op = "rollback" => j.snapshot >= 1
  PROVE  JobsTyped'
<1>1. Len(snapshots) \in Nat /\ Len(snapshots') = Len(snapshots)
  BY DEF Typed, StoredTyped, Begin, stored
<1>2. JobIsGood(j, Len(snapshots'))
  BY <1>1 DEF JobIsGood
<1>3. Len(snapshots') \in Nat /\ Len(snapshots) <= Len(snapshots') /\ job' = [job EXCEPT ![c] = j]
  BY <1>1 DEF Begin
<1> QED
  BY <1>2, <1>3, OneJobChanges

Begins(c) ==
  \/ BeginSnapshot(c)
  \/ \E p \in Packs : BeginUpdate(c, p) \/ BeginUninstall(c, p) \/ BeginEnable(c, p) \/ BeginDisable(c, p)
  \/ \E p \in Packs, v \in Versions : BeginInstall(c, p, v)
  \/ \E s \in 1..MaxRequests : BeginRollback(c, s)

LEMMA BeginsTyped ==
  ASSUME Typed, NEW c \in Clients, Begins(c)
  PROVE  JobsTyped'
<1>0. Idle \in Job /\ Idle.snapshot = 0 /\ Len(snapshots) \in Nat /\ 1 \in Packs
  <2>1. Idle.snapshot = 0
    BY DEF Idle
  <2>2. Len(snapshots) \in Nat
    BY DEF Typed, StoredTyped
  <2> QED
    BY <2>1, <2>2, IdleIsGood, Numbers DEF JobIsGood
<1>1. ASSUME NEW op \in Operation, NEW pc \in Place, NEW p \in Packs
      PROVE  /\ Request(op, pc, p) \in Job /\ Request(op, pc, p).op = op /\ Request(op, pc, p).pc = pc
             /\ Request(op, pc, p).snapshot = 0
  BY <1>0 DEF Request, Job
<1>2. ASSUME NEW op \in {"update", "uninstall", "enable", "disable", "snapshot"},
             NEW pc \in {"snapshot", "row"}, NEW p \in Packs, Begin(c, Request(op, pc, p))
      PROVE  JobsTyped'
  <2> DEFINE j == Request(op, pc, p)
  <2>1. j \in Job /\ j.op = op /\ j.pc = pc /\ j.snapshot = 0
    BY <1>1 DEF Operation, Place
  <2>2. Begin(c, j)
    BY <1>2
  <2> HIDE DEF j
  <2> QED
    BY <1>0, <2>1, <2>2, JobBegins DEF RollsBack, MayRollBack
<1>3. ASSUME NEW p \in Packs, NEW v \in Versions, BeginInstall(c, p, v) PROVE JobsTyped'
  <2> DEFINE r == Request("install", "snapshot", p)
             j == [r EXCEPT !.version = v]
  <2>1. r \in Job /\ r.op = "install" /\ r.pc = "snapshot" /\ r.snapshot = 0 /\ v \in 0..MaxVersion
    BY <1>1, Numbers DEF Operation, Place
  <2> HIDE DEF r
  <2>2. j \in Job /\ j.op = "install" /\ j.pc = "snapshot" /\ j.snapshot = 0
    BY <2>1 DEF Job
  <2>3. Begin(c, j)
    BY <1>3 DEF BeginInstall, r
  <2> HIDE DEF j
  <2> QED
    BY <1>0, <2>2, <2>3, JobBegins DEF RollsBack, MayRollBack
<1>4. ASSUME NEW s \in 1..MaxRequests, BeginRollback(c, s) PROVE JobsTyped'
  <2> DEFINE r == Request("rollback", "diff", 1)
             j == [r EXCEPT !.snapshot = s]
  <2>1. r \in Job /\ r.op = "rollback" /\ r.pc = "diff"
    BY <1>0, <1>1 DEF Operation, Place
  <2>2. s \in 1..Len(snapshots) /\ s \in Nat
    BY <1>4 DEF BeginRollback, Typed, StoredTyped
  <2> HIDE DEF r
  <2>3. j \in Job /\ j.op = "rollback" /\ j.pc = "diff" /\ j.snapshot = s
    BY <2>1, <2>2 DEF Job
  <2>4. Begin(c, j)
    BY <1>4 DEF BeginRollback, r
  <2> HIDE DEF j
  <2> QED
    BY <1>0, <2>2, <2>3, <2>4, JobBegins DEF RollsBack, MayRollBack
<1> QED
  BY <1>0, <1>2, <1>3, <1>4 DEF Begins, BeginSnapshot, BeginUpdate, BeginUninstall, BeginEnable, BeginDisable

LEMMA EntryPointsArePacks == EntryPoints \subseteq Packs
BY DEF EntryPoints

LEMMA StepTyped ==
  ASSUME Typed, NEW c \in Clients, Step(c)
  PROVE  JobsTyped'
<1>0. /\ job[c] \in Job /\ JobIsGood(job[c], Len(snapshots)) /\ job \in [Clients -> Job]
      /\ snapshots \in Seq(Environments) /\ Len(snapshots) \in Nat
  BY DEF Typed, JobsTyped, StoredTyped
<1>1. CASE TakeSnapshot(c)
  <2>0. Len(snapshots') = Len(snapshots) + 1
    BY <1>0, <1>1, AppendProperties DEF TakeSnapshot, Typed, StoredTyped
  <2>1. ASSUME NEW j \in Job, JobIsGood(j, Len(snapshots) + 1), job' = [job EXCEPT ![c] = j] PROVE JobsTyped'
    <3>1. Len(snapshots') \in Nat /\ Len(snapshots) <= Len(snapshots') /\ JobIsGood(j, Len(snapshots'))
      BY <1>0, <2>0, <2>1
    <3> QED
      BY <2>1, <3>1, OneJobChanges
  <2>2. CASE job[c].op = "snapshot"
    <3>1. job' = [job EXCEPT ![c] = Idle]
      BY <1>1, <2>2 DEF TakeSnapshot, Return
    <3>2. JobIsGood(Idle, Len(snapshots) + 1) /\ Idle \in Job
      BY <1>0, IdleIsGood DEF JobIsGood
    <3> QED
      BY <2>1, <3>1, <3>2
  <2>3. CASE job[c].op = "install"
    <3> DEFINE next == Len(snapshots) + 1
               j == [job[c] EXCEPT !.pc = "list", !.snapshot = next]
    <3>0. next \in Nat /\ next >= 1
      BY <1>0
    <3>1. job' = [job EXCEPT ![c] = j]
      BY <1>1, <2>3 DEF TakeSnapshot
    <3> HIDE DEF next
    <3>2. j \in Job /\ j.op = "install" /\ j.pc = "list" /\ j.snapshot = next
      BY <1>0, <2>3, <3>0 DEF Job, Place
    <3> HIDE DEF j
    <3>3. JobIsGood(j, Len(snapshots) + 1)
      BY <3>0, <3>2 DEF JobIsGood, RollsBack, next
    <3> QED
      BY <2>1, <3>1, <3>2, <3>3
  <2>4. CASE job[c].op \notin {"snapshot", "install"}
    <3> DEFINE j == [job[c] EXCEPT !.pc = "uv"]
    <3>1. job' = [job EXCEPT ![c] = j]
      BY <1>1, <2>4 DEF TakeSnapshot, GoTo
    <3>2. j \in Job /\ j.op = job[c].op /\ j.pc = "uv" /\ j.snapshot = job[c].snapshot
      BY <1>0 DEF Job, Place
    <3>3. job[c].op # "none"
      BY <1>0, <1>1 DEF TakeSnapshot, JobIsGood
    <3> HIDE DEF j
    <3>4. JobIsGood(j, Len(snapshots) + 1)
      BY <1>0, <2>4, <3>2, <3>3 DEF JobIsGood, RollsBack, Job
    <3> QED
      BY <2>1, <3>1, <3>2, <3>4
  <2> QED
    BY <2>2, <2>3, <2>4
<1>2. ASSUME UNCHANGED snapshots, NEW pc \in Place \ (RollsBack \cup MayRollBack), GoTo(c, pc), job[c].pc # "idle"
      PROVE  JobsTyped'
  <2>1. job[c].op # "none"
    BY <1>0, <1>2 DEF JobIsGood
  <2> QED
    BY <1>2, <2>1, JobGoesTo
<1>3. ASSUME UNCHANGED snapshots, NEW j \in Job, job' = [job EXCEPT ![c] = j], job[c].pc # "idle",
             j.op = job[c].op, j.snapshot = job[c].snapshot,
             j.pc \in RollsBack => job[c].pc \in RollsBack,
             j.pc \in MayRollBack => job[c].pc \in MayRollBack
      PROVE  JobsTyped'
  <2>1. job[c].op # "none"
    BY <1>0, <1>3 DEF JobIsGood
  <2> QED
    BY <1>3, <2>1, JobTurnsTo
<1>4. CASE UvFails(c) \/ UvStops(c)
  BY <1>4, JobReturns DEF UvFails, UvStops, stored
<1>5. CASE ListBefore(c)
  <2> DEFINE j == [job[c] EXCEPT !.pc = "uv", !.names = EntryPoints]
  <2>1. j \in Job /\ j.op = job[c].op /\ j.snapshot = job[c].snapshot /\ j.pc = "uv"
    BY <1>0, EntryPointsArePacks DEF Job, Place
  <2>2. job' = [job EXCEPT ![c] = j] /\ UNCHANGED snapshots /\ job[c].pc = "list"
    BY <1>5 DEF ListBefore, At, stored
  <2> HIDE DEF j
  <2> QED
    BY <1>3, <2>1, <2>2 DEF RollsBack, MayRollBack
<1>6. CASE UvUninstalls(c) \/ Forget(c)
  BY <1>2, <1>6 DEF UvUninstalls, Forget, At, stored, Place, RollsBack, MayRollBack
<1>18. CASE UvInstalls(c)
  <2> DEFINE j == [job[c] EXCEPT !.pc = "added", !.version = 0]
  <2>1. j \in Job /\ j.op = job[c].op /\ j.snapshot = job[c].snapshot /\ j.pc = "added"
    BY <1>0, Numbers DEF Job, Place
  <2>2. job' = [job EXCEPT ![c] = j] /\ UNCHANGED snapshots /\ job[c].pc = "uv"
    BY <1>18 DEF UvInstalls, At
  <2> HIDE DEF j
  <2> QED
    BY <1>3, <2>1, <2>2 DEF RollsBack, MayRollBack
<1>19. CASE Recompile(c)
  <2> DEFINE j == [job[c] EXCEPT !.pc = "set", !.graph = registered]
  <2>0. registered \in SUBSET Packs
    BY DEF Typed, ProcessTyped
  <2>1. j \in Job /\ j.op = job[c].op /\ j.snapshot = job[c].snapshot /\ j.pc = "set"
    BY <1>0, <2>0 DEF Job, Place
  <2>2. job' = [job EXCEPT ![c] = j] /\ UNCHANGED snapshots /\ job[c].pc = "changed"
    BY <1>19 DEF Recompile, stored
  <2> HIDE DEF j
  <2> QED
    BY <1>3, <2>1, <2>2 DEF RollsBack, MayRollBack
<1>20. CASE SetGraph(c)
  <2> DEFINE j == [job[c] EXCEPT !.pc = "source", !.graph = {}]
  <2>1. j \in Job /\ j.op = job[c].op /\ j.snapshot = job[c].snapshot /\ j.pc = "source"
    BY <1>0 DEF Job, Place
  <2>2. (job' = [job EXCEPT ![c] = j] \/ Return(c)) /\ UNCHANGED snapshots /\ job[c].pc = "set"
    BY <1>20 DEF SetGraph, Sets, stored
  <2> HIDE DEF j
  <2> QED
    BY <1>3, <2>1, <2>2, JobReturns DEF RollsBack, MayRollBack
<1>7. CASE FindAdded(c)
  <2>1. UNCHANGED snapshots /\ job[c].pc = "added"
    BY <1>7 DEF FindAdded, At, stored
  <2>2. CASE Return(c)
    BY <2>1, <2>2, JobReturns
  <2>3. CASE ~Return(c)
    <3> DEFINE j == [job[c] EXCEPT !.pc = "test", !.names = EntryPoints \ job[c].names]
    <3>1. j \in Job /\ j.op = job[c].op /\ j.snapshot = job[c].snapshot /\ j.pc = "test"
      BY <1>0, EntryPointsArePacks DEF Job, Place
    <3>2. job' = [job EXCEPT ![c] = j]
      BY <1>7, <2>3 DEF FindAdded
    <3> HIDE DEF j
    <3> QED
      BY <1>3, <2>1, <3>1, <3>2 DEF RollsBack, MayRollBack
  <2> QED
    BY <2>2, <2>3
<1>8. CASE ImportTest(c)
  <2> DEFINE back == [job[c] EXCEPT !.op = "rollback", !.pc = "diff"]
             on == [job[c] EXCEPT !.pc = "lookup", !.snapshot = 0]
  <2>1. /\ UNCHANGED snapshots /\ job[c].snapshot >= 1 /\ Len(snapshots') = Len(snapshots)
        /\ job[c].snapshot \in Nat /\ job[c].snapshot <= Len(snapshots) /\ job[c].op = "install"
    BY <1>0, <1>8 DEF ImportTest, At, stored, JobIsGood, MayRollBack, Job
  <2>2. back \in Job /\ back.op = "rollback" /\ back.pc = "diff" /\ back.snapshot = job[c].snapshot
    BY <1>0 DEF Job, Place, Operation
  <2>3. on \in Job /\ on.op = "install" /\ on.pc = "lookup" /\ on.snapshot = 0
    BY <1>0, <2>1 DEF Job, Place
  <2>4. job' = [job EXCEPT ![c] = back] \/ job' = [job EXCEPT ![c] = on]
    BY <1>8 DEF ImportTest
  <2> HIDE DEF back, on
  <2>5. JobIsGood(back, Len(snapshots'))
    BY <2>1, <2>2 DEF JobIsGood
  <2>6. JobIsGood(on, Len(snapshots'))
    BY <1>0, <2>1, <2>3 DEF JobIsGood, RollsBack, MayRollBack
  <2>7. Len(snapshots') \in Nat /\ Len(snapshots) <= Len(snapshots')
    BY <1>0, <2>1
  <2> QED
    BY <2>2, <2>3, <2>4, <2>5, <2>6, <2>7, OneJobChanges
<1>9. CASE Diff(c)
  <2> DEFINE wanted == snapshots[job[c].snapshot]
             gone == {d \in Dists : env[d] # 0 /\ wanted[d] = 0}
             pins == [d \in Dists |-> IF wanted[d] # env[d] /\ <<d, wanted[d]>> \notin Direct THEN wanted[d] ELSE 0]
             j == [job[c] EXCEPT !.pc = "remove", !.remove = gone, !.pins = pins]
  <2>1. UNCHANGED snapshots /\ job[c].pc = "diff" /\ job' = [job EXCEPT ![c] = j]
    BY <1>9 DEF Diff, stored
  <2>2. job[c].snapshot \in 1..Len(snapshots)
    BY <1>0, <2>1 DEF JobIsGood, RollsBack, Job
  <2>3. wanted \in Environments
    BY <1>0, <2>2
  <2>4. gone \in SUBSET Dists /\ pins \in Environments
    BY <2>3, Numbers DEF Environments
  <2> HIDE DEF wanted, gone, pins
  <2>5. j \in Job /\ j.op = job[c].op /\ j.snapshot = job[c].snapshot /\ j.pc = "remove"
    BY <1>0, <2>4 DEF Job, Place
  <2> HIDE DEF j
  <2> QED
    BY <1>3, <2>1, <2>5 DEF RollsBack, MayRollBack
<1>10. ASSUME NEW ok \in BOOLEAN, RollbackRemoves(c, ok) PROVE JobsTyped'
  <2> DEFINE j == [job[c] EXCEPT !.pc = "pin", !.ok = ok]
  <2>1. j \in Job /\ j.op = job[c].op /\ j.snapshot = job[c].snapshot /\ j.pc = "pin"
    BY <1>0 DEF Job, Place
  <2>2. job' = [job EXCEPT ![c] = j] /\ UNCHANGED snapshots /\ job[c].pc = "remove"
    BY <1>10 DEF RollbackRemoves
  <2> HIDE DEF j
  <2> QED
    BY <1>3, <2>1, <2>2 DEF RollsBack, MayRollBack
<1>11. ASSUME NEW ok \in BOOLEAN, RollbackInstalls(c, ok) PROVE JobsTyped'
  <2> DEFINE j == [job[c] EXCEPT !.pc = "rolled", !.ok = @ /\ ok]
  <2>1. j \in Job /\ j.op = job[c].op /\ j.snapshot = job[c].snapshot /\ j.pc = "rolled"
    <3>1. (job[c].ok /\ ok) \in BOOLEAN
      OBVIOUS
    <3> QED
      BY <1>0, <3>1 DEF Job, Place
  <2>2. job' = [job EXCEPT ![c] = j] /\ UNCHANGED snapshots /\ job[c].pc = "pin"
    BY <1>11 DEF RollbackInstalls
  <2> HIDE DEF j
  <2> QED
    BY <1>3, <2>1, <2>2 DEF RollsBack, MayRollBack
<1>12. CASE RolledBack(c) \/ RecordSource(c) \/ Updated(c) \/ Uninstalled(c) \/ Drop(c)
  BY <1>12, JobReturns, JobChanges DEF RolledBack, RecordSource, Updated, Uninstalled, Drop, stored
<1>13. CASE LookUp(c)
  <2> DEFINE found == job[c].names \cap EntryPoints
             j == [job[c] EXCEPT !.pc = "load", !.queue = found]
  <2>1. j \in Job /\ j.op = job[c].op /\ j.snapshot = job[c].snapshot /\ j.pc = "load"
    BY <1>0 DEF Job, Place
  <2>2. UNCHANGED snapshots /\ job[c].pc = "lookup"
        /\ (job' = [job EXCEPT ![c] = j] \/ GoTo(c, "source") \/ Return(c))
    BY <1>13 DEF LookUp, stored
  <2> HIDE DEF j
  <2> QED
    BY <1>2, <1>3, <2>1, <2>2, JobReturns DEF Place, RollsBack, MayRollBack
<1>14. CASE Load(c)
  <2> DEFINE more == job[c].queue \ {Min(job[c].queue)}
             waits == job[c].restart \/ (job[c].op = "install" /\ modules[Min(job[c].queue)] # 0)
             j == [job[c] EXCEPT !.queue = more, !.restart = waits]
  <2>0. more \in SUBSET Packs /\ waits \in BOOLEAN
    BY <1>0 DEF Job
  <2>1. job' = [job EXCEPT ![c] = j] /\ UNCHANGED snapshots /\ job[c].pc = "load"
    BY <1>14 DEF Load, stored
  <2> HIDE DEF more, waits
  <2>2. j \in Job /\ j.op = job[c].op /\ j.snapshot = job[c].snapshot /\ j.pc = job[c].pc
    BY <1>0, <2>0 DEF Job
  <2> HIDE DEF j
  <2> QED
    BY <1>3, <2>1, <2>2 DEF RollsBack, MayRollBack
<1>15. CASE AllLoaded(c)
  BY <1>2, <1>15, JobChanges DEF AllLoaded, stored, Place, RollsBack, MayRollBack
<1>16. CASE UvUpgrades(c)
  <2>1. UNCHANGED snapshots /\ job[c].pc = "uv" /\ (Return(c) \/ GoTo(c, "updated"))
    BY <1>16 DEF UvUpgrades, At
  <2> QED
    BY <1>2, <2>1, JobReturns DEF Place, RollsBack, MayRollBack
<1>17. CASE CommitEnabled(c)
  <2>1. UNCHANGED snapshots /\ job[c].pc = "row"
    BY <1>17 DEF CommitEnabled
  <2>2. CASE Return(c)
    BY <2>1, <2>2, JobReturns
  <2>3. ASSUME NEW pc \in {"lookup", "drop"},
               job' = [job EXCEPT ![c].pc = pc, ![c].names = {job[c].pack}]
        PROVE  JobsTyped'
    <3> DEFINE j == [job[c] EXCEPT !.pc = pc, !.names = {job[c].pack}]
    <3>1. j \in Job /\ j.op = job[c].op /\ j.snapshot = job[c].snapshot /\ j.pc = pc
      BY <1>0 DEF Job, Place
    <3>2. job' = [job EXCEPT ![c] = j]
      BY <2>3
    <3> HIDE DEF j
    <3> QED
      BY <1>3, <2>1, <3>1, <3>2 DEF RollsBack, MayRollBack
  <2>4. Return(c) \/ \E pc \in {"lookup", "drop"} : job' = [job EXCEPT ![c].pc = pc, ![c].names = {job[c].pack}]
    BY <1>17 DEF CommitEnabled
  <2> QED
    BY <2>2, <2>3, <2>4
<1> QED
  BY <1>1, <1>4, <1>5, <1>6, <1>7, <1>8, <1>9, <1>10, <1>11, <1>12, <1>13, <1>14, <1>15, <1>16, <1>17,
     <1>18, <1>19, <1>20
  DEF Step

LEMMA JobsTypedStep ==
  ASSUME Typed, [Next]_vars
  PROVE  JobsTyped'
<1>1. ASSUME NEW c \in Clients, Begins(c) PROVE JobsTyped'
  BY <1>1, BeginsTyped
<1>2. ASSUME NEW c \in Clients, Step(c) PROVE JobsTyped'
  BY <1>2, StepTyped
<1>3. CASE Restart
  <2>1. job' = [c \in Clients |-> Idle] /\ Len(snapshots') \in Nat
    BY <1>3 DEF Restart, Typed, StoredTyped
  <2>2. Idle \in Job /\ JobIsGood(Idle, Len(snapshots'))
    BY <2>1, IdleIsGood DEF JobIsGood
  <2> QED
    BY <2>1, <2>2 DEF JobsTyped
<1>4. CASE UNCHANGED vars
  BY <1>4 DEF vars, stored, Typed, JobsTyped
<1> QED
  BY <1>1, <1>2, <1>3, <1>4 DEF Next, Begins

-----------------------------------------------------------------------------
(* The environment, the tables and the process *)

LEMMA UvLeaves ==
  ASSUME Typed, NEW c \in Clients
  PROVE  Results(c) \subseteq Environments /\ CutShort(c) \subseteq Environments
<1>1. env \in [Dists -> 0..MaxVersion] /\ 0 \in 0..MaxVersion
  BY Numbers DEF Typed, StoredTyped, Environments
<1>2. \A pins : Resolutions(pins) \subseteq Environments
  BY DEF Resolutions
<1>3. UNION {Resolutions(Pins(job[c].pack, v)) : v \in {w \in Versions : w >= env[job[c].pack]}} \subseteq Environments
  BY <1>2
<1>4. [env EXCEPT ![job[c].pack] = 0] \in Environments
  BY <1>1 DEF Environments
<1>5. [d \in Dists |-> IF d \in job[c].remove THEN 0 ELSE env[d]] \in Environments
  BY <1>1 DEF Environments
<1>6. Results(c) \subseteq Environments
  BY <1>2, <1>3, <1>4, <1>5 DEF Results
<1> QED
  BY <1>6 DEF CutShort

LEMMA StoredTypedStep ==
  ASSUME Typed, [Next]_vars
  PROVE  StoredTyped'
<1>0. /\ StoredTyped /\ job \in [Clients -> Job] /\ MaxVersion \in Nat
      /\ 0 \in 0..MaxVersion /\ env \in [Dists -> 0..MaxVersion]
  BY Numbers DEF Typed, StoredTyped, JobsTyped, Environments
<1>1. CASE UNCHANGED stored
  BY <1>0, <1>1 DEF stored, StoredTyped
<1>2. ASSUME env' \in Environments, UNCHANGED <<rows, snapshots>> PROVE StoredTyped'
  BY <1>0, <1>2 DEF StoredTyped
<1>3. ASSUME UNCHANGED <<env, snapshots>>, rows' \in [Packs -> {"none", "on", "off"}] PROVE StoredTyped'
  BY <1>0, <1>3 DEF StoredTyped
<1>4. ASSUME NEW c \in Clients, Begins(c) PROVE StoredTyped'
  BY <1>1, <1>4 DEF Begins, BeginSnapshot, BeginUpdate, BeginUninstall, BeginEnable, BeginDisable,
                    BeginInstall, BeginRollback, Begin
<1>5. ASSUME NEW c \in Clients, TakeSnapshot(c) PROVE StoredTyped'
  <2>1. snapshots' \in Seq(Environments)
    BY <1>0, <1>5, AppendProperties DEF TakeSnapshot, StoredTyped
  <2> QED
    BY <1>0, <1>5, <2>1 DEF TakeSnapshot, StoredTyped
<1>6. ASSUME NEW c \in Clients, UvInstalls(c) \/ UvUpgrades(c) \/ UvUninstalls(c) \/ UvStops(c) PROVE StoredTyped'
  <2>1. env' \in Environments
    BY <1>0, <1>6, UvLeaves DEF UvInstalls, UvUpgrades, UvUninstalls, UvStops, StoredTyped
  <2> QED
    BY <1>2, <1>6, <2>1 DEF UvInstalls, UvUpgrades, UvUninstalls, UvStops
<1>7. ASSUME NEW c \in Clients, NEW ok \in BOOLEAN, RollbackRemoves(c, ok) \/ RollbackInstalls(c, ok)
      PROVE  StoredTyped'
  <2>1. env' \in Environments
    BY <1>0, <1>7, UvLeaves DEF RollbackRemoves, RollbackInstalls, StoredTyped
  <2> QED
    BY <1>2, <1>7, <2>1 DEF RollbackRemoves, RollbackInstalls
<1>10. ASSUME NEW c \in Clients, RecordSource(c) \/ Uninstalled(c) \/ CommitEnabled(c) PROVE StoredTyped'
  <2>1. rows' \in [Packs -> {"none", "on", "off"}]
    BY <1>0, <1>10 DEF RecordSource, Uninstalled, CommitEnabled, StoredTyped
  <2> QED
    BY <1>3, <1>10, <2>1 DEF RecordSource, Uninstalled, CommitEnabled
<1>11. CASE Restart
  BY <1>0, <1>3, <1>11 DEF Restart, StoredTyped
<1>12. ASSUME NEW c \in Clients,
              \/ UvFails(c) \/ ListBefore(c) \/ FindAdded(c) \/ ImportTest(c) \/ Diff(c) \/ RolledBack(c)
              \/ LookUp(c) \/ Load(c) \/ AllLoaded(c) \/ Updated(c) \/ Forget(c) \/ Drop(c) \/ Recompile(c) \/ SetGraph(c)
       PROVE  StoredTyped'
  BY <1>1, <1>12 DEF UvFails, ListBefore, FindAdded, ImportTest, Diff, RolledBack, LookUp, Load,
                     AllLoaded, Updated, Forget, Drop, Recompile, SetGraph
<1> QED
  BY <1>1, <1>4, <1>5, <1>6, <1>7, <1>10, <1>11, <1>12 DEF Next, Begins, Step, vars

LEMMA ProcessTypedStep ==
  ASSUME Typed, [Next]_vars
  PROVE  ProcessTyped'
<1>0. /\ ProcessTyped /\ env \in Environments /\ job \in [Clients -> Job]
  BY DEF Typed, StoredTyped, JobsTyped
<1>1. ASSUME UNCHANGED <<modules, registered, records>>, compiled' \subseteq Packs,
             restart' \in BOOLEAN, {overlapped, unseen, crossed}' \subseteq BOOLEAN
      PROVE  ProcessTyped'
  BY <1>0, <1>1 DEF ProcessTyped
<1>2. ASSUME NEW c \in Clients, Begins(c) PROVE ProcessTyped'
  <2>1. overlapped' \in BOOLEAN /\ UNCHANGED <<process, unseen, crossed>>
    BY <1>0, <1>2 DEF Begins, BeginSnapshot, BeginUpdate, BeginUninstall, BeginEnable, BeginDisable,
                      BeginInstall, BeginRollback, Begin, ProcessTyped
  <2> QED
    BY <1>0, <1>1, <2>1 DEF process, ProcessTyped
<1>3. ASSUME NEW c \in Clients, UvInstalls(c) \/ UvStops(c) PROVE ProcessTyped'
  <2>1. unseen' \in BOOLEAN /\ UNCHANGED <<process, overlapped, crossed>>
    BY <1>0, <1>3 DEF UvInstalls, UvStops, ProcessTyped
  <2> QED
    BY <1>0, <1>1, <2>1 DEF process, ProcessTyped
<1>12. ASSUME NEW c \in Clients, Recompile(c) PROVE ProcessTyped'
  <2>1. crossed' \in BOOLEAN /\ UNCHANGED <<process, overlapped, unseen>>
    BY <1>12 DEF Recompile
  <2> QED
    BY <1>0, <1>1, <2>1 DEF process, ProcessTyped
<1>13. ASSUME NEW c \in Clients, SetGraph(c) PROVE ProcessTyped'
  <2>1. compiled' \subseteq Packs /\ UNCHANGED <<modules, registered, records, restart, observers>>
    BY <1>0, <1>13 DEF SetGraph, Job
  <2> QED
    BY <1>0, <1>1, <2>1 DEF observers, ProcessTyped
<1>4. ASSUME NEW c \in Clients, Load(c) PROVE ProcessTyped'
  <2> DEFINE p == Min(job[c].queue)
             v == Loaded(modules, p)
  <2>1. p \in Packs
    <3>1. job[c].queue \in SUBSET Packs /\ job[c].queue # {}
      BY <1>0, <1>4 DEF Load, Job
    <3> QED
      BY <3>1, MinIsIn
  <2>2. v \in 0..MaxVersion
    BY <1>0, <2>1, LoadedType DEF ProcessTyped
  <2>3. UNCHANGED <<restart, compiled, observers>>
    BY <1>4 DEF Load
  <2>4. CASE UNCHANGED <<modules, registered, records>>
    BY <1>0, <1>1, <2>3, <2>4 DEF observers, ProcessTyped
  <2>5. CASE Registered(c)
    <3>1. /\ modules' = [modules EXCEPT ![p] = v]
          /\ registered' = IF v # 0 THEN registered \cup {p} ELSE registered \ {p}
          /\ records' = [records EXCEPT ![p] = Record(p, v)]
      BY <2>5 DEF Registered
    <3>2. Record(p, v) \in {"loaded", "failed"}
      BY DEF Record
    <3> HIDE DEF p, v
    <3> QED
      BY <1>0, <2>1, <2>2, <2>3, <3>1, <3>2 DEF observers, ProcessTyped
  <2> QED
    BY <1>4, <2>4, <2>5 DEF Load
<1>5. ASSUME NEW c \in Clients, Forget(c) \/ Drop(c) PROVE ProcessTyped'
  <2>1. job[c].pack \in Packs
    BY <1>0 DEF Job
  <2> QED
    BY <1>0, <1>5, <2>1 DEF Forget, Drop, observers, ProcessTyped
<1>6. CASE Restart
  <2>1. /\ modules' = Fresh /\ records' = Discovered /\ restart' = FALSE
        /\ registered' = {p \in Packs : Fresh[p] # 0 /\ rows[p] # "off"} /\ compiled' = registered'
        /\ overlapped' = FALSE /\ unseen' = FALSE /\ crossed' = FALSE
    BY <1>6 DEF Restart
  <2>2. Fresh \in [Packs -> 0..MaxVersion] /\ Discovered \in [Packs -> {"none", "loaded", "failed"}]
    BY <1>0, FreshType
  <2>3. \A p \in Packs : Fresh[p] # 0 => Discovered[p] # "none"
    BY DEF Fresh, Loaded, Discovered, EntryPoints, Record
  <2> QED
    BY <1>0, <2>1, <2>2, <2>3 DEF ProcessTyped
<1>7. ASSUME NEW c \in Clients, RolledBack(c) \/ AllLoaded(c) \/ Updated(c) PROVE ProcessTyped'
  <2>1. restart' \in BOOLEAN /\ UNCHANGED <<modules, registered, records, compiled, observers>>
    BY <1>0, <1>7 DEF RolledBack, AllLoaded, Updated, ProcessTyped, Job
  <2> QED
    BY <1>0, <1>1, <2>1 DEF observers, ProcessTyped
<1>8. ASSUME UNCHANGED <<process, observers>> PROVE ProcessTyped'
  BY <1>0, <1>1, <1>8 DEF process, observers, ProcessTyped
<1>9. ASSUME NEW c \in Clients, NEW ok \in BOOLEAN, RollbackRemoves(c, ok) \/ RollbackInstalls(c, ok)
      PROVE  ProcessTyped'
  BY <1>8, <1>9 DEF RollbackRemoves, RollbackInstalls
<1>10. ASSUME NEW c \in Clients,
              \/ TakeSnapshot(c) \/ UvFails(c) \/ ListBefore(c) \/ FindAdded(c) \/ ImportTest(c) \/ Diff(c)
              \/ LookUp(c) \/ RecordSource(c) \/ UvUpgrades(c) \/ UvUninstalls(c) \/ CommitEnabled(c)
              \/ Uninstalled(c)
       PROVE  ProcessTyped'
  BY <1>8, <1>10 DEF TakeSnapshot, UvFails, ListBefore, FindAdded, ImportTest, Diff, LookUp, RecordSource,
                     UvUpgrades, UvUninstalls, CommitEnabled, Uninstalled
<1>11. CASE UNCHANGED vars
  BY <1>8, <1>11 DEF vars
<1> QED
  BY <1>2, <1>3, <1>4, <1>5, <1>6, <1>7, <1>9, <1>10, <1>11, <1>12, <1>13 DEF Next, Begins, Step

-----------------------------------------------------------------------------
(* The canvas follows the registry *)

\* What a request's step does to the requests: its own record changes.
LEMMA OthersStay ==
  ASSUME Typed, NEW c \in Clients, Begins(c) \/ Step(c)
  PROVE  \A d \in Clients \ {c} : job'[d] = job[d]
<1>0. job \in [Clients -> Job]
  BY DEF Typed, JobsTyped
<1>1. ASSUME NEW j, job' = [job EXCEPT ![c] = j] PROVE \A d \in Clients \ {c} : job'[d] = job[d]
  BY <1>0, <1>1
<1>2. CASE Begins(c)
  BY <1>1, <1>2 DEF Begins, BeginSnapshot, BeginUpdate, BeginUninstall, BeginEnable, BeginDisable,
                    BeginInstall, BeginRollback, Begin
<1>3. ASSUME NEW ok \in BOOLEAN, RollbackRemoves(c, ok) \/ RollbackInstalls(c, ok)
      PROVE  \A d \in Clients \ {c} : job'[d] = job[d]
  BY <1>0, <1>3 DEF RollbackRemoves, RollbackInstalls
<1>4. CASE \/ TakeSnapshot(c) \/ UvFails(c) \/ UvStops(c) \/ ListBefore(c) \/ UvInstalls(c) \/ FindAdded(c)
           \/ ImportTest(c)
  BY <1>0, <1>4 DEF TakeSnapshot, UvFails, UvStops, ListBefore, UvInstalls, FindAdded, ImportTest, Return, GoTo
<1>5. CASE \/ Diff(c) \/ RolledBack(c) \/ LookUp(c) \/ Load(c) \/ AllLoaded(c) \/ RecordSource(c)
           \/ Recompile(c) \/ SetGraph(c)
  BY <1>0, <1>5 DEF Diff, RolledBack, LookUp, Load, AllLoaded, RecordSource, Recompile, SetGraph,
                    Return, Change, GoTo
<1>6. CASE \/ UvUpgrades(c) \/ Updated(c) \/ UvUninstalls(c) \/ Forget(c) \/ Uninstalled(c)
           \/ CommitEnabled(c) \/ Drop(c)
  BY <1>0, <1>6 DEF UvUpgrades, Updated, UvUninstalls, Forget, Uninstalled, CommitEnabled, Drop,
                    Return, Change, GoTo
<1> QED
  BY <1>2, <1>3, <1>4, <1>5, <1>6 DEF Step

LEMMA BeginsAt ==
  ASSUME Typed, NEW c \in Clients, Begins(c)
  PROVE  job'[c].pc \in {"snapshot", "row", "diff"}
<1>0. job \in [Clients -> Job]
  BY DEF Typed, JobsTyped
<1>2. ASSUME NEW op, NEW pc \in {"snapshot", "row", "diff"}, NEW p, Begin(c, Request(op, pc, p))
      PROVE  job'[c].pc \in {"snapshot", "row", "diff"}
  BY <1>0, <1>2 DEF Begin, Request, Idle
<1>3. ASSUME NEW p \in Packs, NEW v \in Versions, BeginInstall(c, p, v)
      PROVE  job'[c].pc \in {"snapshot", "row", "diff"}
  BY <1>0, <1>3 DEF BeginInstall, Begin, Request, Idle
<1>4. ASSUME NEW s \in 1..MaxRequests, BeginRollback(c, s)
      PROVE  job'[c].pc \in {"snapshot", "row", "diff"}
  BY <1>0, <1>4 DEF BeginRollback, Begin, Request, Idle
<1> QED
  BY <1>2, <1>3, <1>4 DEF Begins, BeginSnapshot, BeginUpdate, BeginUninstall, BeginEnable, BeginDisable

LEMMA ChangesTo ==
  ASSUME NEW c \in Clients, job \in [Clients -> Job], Change(c)
  PROVE  job'[c].op = "change" /\ job'[c].pc = "changed"
BY DEF Change, Request, Idle

LEMMA FollowedStep ==
  ASSUME Typed, Followed, [Next]_vars
  PROVE  Followed'
<1>0. /\ job \in [Clients -> Job] /\ {crossed} \subseteq BOOLEAN
      /\ \A c \in Clients : job[c].op = "none" => job[c].pc = "idle"
  BY DEF Typed, ProcessTyped, JobsTyped, JobIsGood
\* A step of a request that neither recompiles nor owes it, and leaves the registry.
<1>1. ASSUME NEW c \in Clients, Begins(c) \/ Step(c), ~Sets(c), ~Sets(c)',
             UNCHANGED <<registered, compiled, crossed>>, Owes(c) => Owes(c)'
      PROVE  Followed'
  <2>1. \A d \in Clients : /\ Sets(d)' <=> Sets(d)
                           /\ SetsRegistry(d)' <=> SetsRegistry(d)
                           /\ Owes(d) => Owes(d)'
    BY <1>1, OthersStay DEF Owes, Sets, SetsRegistry, At
  <2> QED
    BY <1>1, <2>1 DEF Followed
\* One that owes a recompilation when it is done.
<1>2. ASSUME NEW c \in Clients, Begins(c) \/ Step(c), ~Sets(c), ~Sets(c)', UNCHANGED crossed, Owes(c)'
      PROVE  Followed'
  <2>1. \A d \in Clients : Sets(d)' => Sets(d)
    BY <1>2, OthersStay DEF Sets
  <2> QED
    BY <1>2, <2>1 DEF Followed
<1>3. ASSUME NEW c \in Clients, Begins(c) PROVE Followed'
  <2>1. job[c].op = "none" /\ UNCHANGED <<registered, compiled, crossed>>
    BY <1>3 DEF Begins, BeginSnapshot, BeginUpdate, BeginUninstall, BeginEnable, BeginDisable,
                BeginInstall, BeginRollback, Begin, process
  <2>2. job'[c].pc \in {"snapshot", "row", "diff"}
    BY <1>3, BeginsAt
  <2> QED
    BY <1>0, <1>1, <1>3, <2>1, <2>2 DEF Owes, Sets, At
\* The steps that change the registry, or go to such a place.
<1>4. ASSUME NEW c \in Clients, Load(c) PROVE Followed'
  <2>1. job[c].pc = "load" /\ job'[c].pc = "load" /\ UNCHANGED crossed
    BY <1>0, <1>4 DEF Load, observers, Job
  <2> QED
    BY <1>2, <1>4, <2>1 DEF Step, Owes, Sets
<1>5. ASSUME NEW c \in Clients, Forget(c) PROVE Followed'
  <2>1. job[c].pc = "forget" /\ job'[c].pc = "row" /\ job'[c].op = "uninstall" /\ UNCHANGED crossed
    BY <1>0, <1>5 DEF Forget, At, GoTo, observers, Job
  <2> QED
    BY <1>2, <1>5, <2>1 DEF Step, Owes, Sets, At
<1>6. ASSUME NEW c \in Clients,
             RolledBack(c) \/ AllLoaded(c) \/ Updated(c) \/ Uninstalled(c) \/ Drop(c)
      PROVE  Followed'
  <2>1. UNCHANGED crossed /\ job[c].pc # "set" /\ (Change(c) \/ GoTo(c, "changed"))
    BY <1>6 DEF RolledBack, AllLoaded, Updated, Uninstalled, Drop, At, observers
  <2>2. job'[c].pc = "changed"
    BY <1>0, <2>1, ChangesTo DEF GoTo, Job
  <2> QED
    BY <1>2, <1>6, <2>1, <2>2 DEF Step, Owes, Sets
\* If no graph was about to be set, only the newly compiled one is.
<1>7. ASSUME NEW c \in Clients, Recompile(c) PROVE Followed'
  <2>1. /\ UNCHANGED <<registered, compiled>> /\ crossed' = \E d \in Clients : Sets(d)
        /\ job'[c].pc = "set" /\ job'[c].graph = registered
    BY <1>0, <1>7 DEF Recompile, process, Job
  <2>2. ASSUME ~crossed' PROVE \A d \in Clients : Sets(d)' => d = c
    BY <1>7, <2>1, <2>2, OthersStay DEF Step, Sets
  <2>3. SetsRegistry(c)'
    BY <2>1 DEF SetsRegistry, Sets
  <2> QED
    BY <2>2, <2>3 DEF Followed
<1>8. ASSUME NEW c \in Clients, SetGraph(c) PROVE Followed'
  <2> SUFFICES ASSUME ~crossed PROVE Followed'
    BY <1>8 DEF SetGraph, observers, Followed
  <2>1. Sets(c) /\ compiled' = job[c].graph /\ UNCHANGED <<registered, crossed>>
    BY <1>8 DEF SetGraph, observers
  <2>2. job'[c].pc \in {"source", "idle"}
    BY <1>0, <1>8 DEF SetGraph, Return, Idle, Job
  <2>3. \A d \in Clients : ~Sets(d)'
    BY <1>8, <2>1, <2>2, OthersStay DEF Step, Followed, Sets
  <2>4. \A d \in Clients : Owes(d) => Owes(d)'
    BY <1>8, <2>1, OthersStay DEF Step, Owes, Sets, At
  <2>5. compiled' = registered' \/ \E d \in Clients : Owes(d)
    BY <2>1 DEF Followed, SetsRegistry
  <2> QED
    BY <2>3, <2>4, <2>5 DEF Followed
<1>9. CASE Restart
  BY <1>9 DEF Restart, Followed, Sets, Idle
<1>10. ASSUME NEW c \in Clients,
             \/ TakeSnapshot(c) \/ UvFails(c) \/ ListBefore(c) \/ UvInstalls(c) \/ FindAdded(c) \/ UvStops(c)
      PROVE  Followed'
  <2>1. /\ job[c].pc \in {"snapshot", "test", "diff", "list", "uv", "added", "remove", "pin"}
        /\ UNCHANGED <<registered, compiled, crossed>>
    BY <1>10 DEF TakeSnapshot, UvFails, ListBefore, UvInstalls, FindAdded, UvStops, Calls, At, process, observers
  <2>2. job'[c].pc \in {"list", "uv", "added", "test", "idle"}
    BY <1>0, <1>10 DEF TakeSnapshot, UvFails, ListBefore, UvInstalls, FindAdded, UvStops, Return, GoTo, Idle, Job
  <2> QED
    BY <1>1, <1>10, <2>1, <2>2 DEF Step, Owes, Sets, At
<1>11. ASSUME NEW c \in Clients,
             \/ ImportTest(c) \/ Diff(c) \/ RecordSource(c) \/ UvUpgrades(c) \/ UvUninstalls(c) \/ CommitEnabled(c)
      PROVE  Followed'
  <2>1. /\ job[c].pc \in {"test", "diff", "source", "uv"} \/ (job[c].pc = "row" /\ job[c].op # "uninstall")
        /\ UNCHANGED <<registered, compiled, crossed>>
    BY <1>11 DEF ImportTest, Diff, RecordSource, UvUpgrades, UvUninstalls, CommitEnabled, At, process, observers
  <2>2. ImportTest(c) => job'[c].pc \in {"diff", "lookup"}
    BY <1>0 DEF ImportTest, Job
  <2>3. Diff(c) => job'[c].pc = "remove"
    BY <1>0 DEF Diff, Job
  <2>4. RecordSource(c) => job'[c].pc = "idle"
    BY <1>0 DEF RecordSource, Return, Idle
  <2>5. UvUpgrades(c) \/ UvUninstalls(c) => job'[c].pc \in {"idle", "updated", "forget"}
    BY <1>0 DEF UvUpgrades, UvUninstalls, Return, GoTo, Idle, Job
  <2>6. CommitEnabled(c) => job'[c].pc \in {"idle", "lookup", "drop"}
    BY <1>0 DEF CommitEnabled, Return, Idle, Job
  <2>7. job'[c].pc \in {"diff", "lookup", "remove", "idle", "updated", "forget", "drop"}
    BY <1>11, <2>2, <2>3, <2>4, <2>5, <2>6
  <2> QED
    BY <1>1, <1>11, <2>1, <2>7 DEF Step, Owes, Sets, At
\* A lookup goes on to the registrations, which owe one anyway.
<1>12. ASSUME NEW c \in Clients, LookUp(c) PROVE Followed'
  <2>1. job[c].pc = "lookup" /\ UNCHANGED <<registered, compiled, crossed>>
    BY <1>12 DEF LookUp, process, observers
  <2>2. job'[c].pc \in {"load", "source", "idle"}
    BY <1>0, <1>12 DEF LookUp, Return, GoTo, Idle, Job
  <2> QED
    BY <1>1, <1>12, <2>1, <2>2 DEF Step, Owes, Sets, At
<1>13. ASSUME NEW c \in Clients, NEW ok \in BOOLEAN, RollbackRemoves(c, ok) \/ RollbackInstalls(c, ok)
      PROVE  Followed'
  <2>1. job[c].pc \in {"remove", "pin"} /\ UNCHANGED <<registered, compiled, crossed>>
    BY <1>13 DEF RollbackRemoves, RollbackInstalls, process, observers
  <2>2. job'[c].pc \in {"pin", "rolled"}
    BY <1>0, <1>13 DEF RollbackRemoves, RollbackInstalls, Job
  <2> QED
    BY <1>1, <1>13, <2>1, <2>2 DEF Step, Owes, Sets, At
<1>14. CASE UNCHANGED vars
  BY <1>14 DEF vars, process, observers, Followed, Owes, Sets, SetsRegistry, At
<1> QED
  BY <1>3, <1>4, <1>5, <1>6, <1>7, <1>8, <1>9, <1>10, <1>11, <1>12, <1>13, <1>14 DEF Next, Begins, Step

-----------------------------------------------------------------------------
(* The theorems *)

LEMMA InitInv == Init => PacksInv
<1> SUFFICES ASSUME Init PROVE PacksInv
  OBVIOUS
<1>1. env \in Environments
  BY Numbers DEF Init, Environments, Versions
<1>2. Fresh \in [Packs -> 0..MaxVersion] /\ Discovered \in [Packs -> {"none", "loaded", "failed"}]
  BY <1>1, FreshType
<1>3. StoredTyped
  BY <1>1 DEF Init, StoredTyped
<1>4. ProcessTyped
  <2>1. \A p \in Packs : Fresh[p] # 0 => Discovered[p] # "none"
    BY DEF Fresh, Loaded, Discovered, EntryPoints, Record
  <2> QED
    BY <1>2, <2>1 DEF Init, ProcessTyped
<1>5. JobsTyped
  <2>1. Len(snapshots) = 0 /\ job = [c \in Clients |-> Idle]
    BY DEF Init
  <2>2. Idle \in Job /\ JobIsGood(Idle, Len(snapshots))
    BY <2>1, IdleIsGood DEF JobIsGood
  <2> QED
    BY <2>1, <2>2 DEF JobsTyped
<1>6. Followed
  BY DEF Init, Followed, Sets, Idle
<1> QED
  BY <1>3, <1>4, <1>5, <1>6 DEF PacksInv, Typed

LEMMA StepInv == PacksInv /\ [Next]_vars => PacksInv'
BY StoredTypedStep, ProcessTypedStep, JobsTypedStep, FollowedStep DEF PacksInv, Typed

LEMMA PacksInvAlways == Spec => []PacksInv
BY InitInv, StepInv, PTL DEF Spec

\* Types of the environment, the tables, the process and the requests; and every pack in
\* the registry is one this process has imported.
THEOREM TypeCorrect == Spec => []TypeOK
<1>1. PacksInv => TypeOK
  <2> SUFFICES ASSUME PacksInv PROVE TypeOK
    OBVIOUS
  <2>1. /\ \A s \in DOMAIN snapshots : snapshots[s] \in Environments
        /\ \A c \in Clients : job[c].snapshot \in 0..Len(snapshots)
    BY DEF PacksInv, Typed, StoredTyped, JobsTyped, JobIsGood, Job
  <2> QED
    BY <2>1 DEF PacksInv, Typed, StoredTyped, ProcessTyped, TypeOK
<1> QED
  BY PacksInvAlways, <1>1, PTL

\* Once no request is in progress, the open workflow runs on the packs of the registry
\* (PackManager._changed), however the requests before it interleaved, unless the
\* recompilation begun last crossed another.
THEOREM CanvasFollowsRegistryAlways == Spec => []CanvasFollowsRegistry
<1>1. PacksInv => CanvasFollowsRegistry
  <2> SUFFICES ASSUME PacksInv, Busy = {}, ~crossed PROVE compiled = registered
    BY DEF CanvasFollowsRegistry
  <2>1. \A c \in Clients : job[c].op = "none" /\ job[c].pc = "idle"
    BY DEF Busy, PacksInv, Typed, JobsTyped, JobIsGood
  <2>2. \A c \in Clients : ~Owes(c) /\ ~Sets(c)
    BY <2>1 DEF Owes, Sets, At
  <2> QED
    BY <2>2 DEF PacksInv, Followed, SetsRegistry
<1> QED
  BY PacksInvAlways, <1>1, PTL

-----------------------------------------------------------------------------
(* What a rollback restores *)

Wanted(c) == snapshots[job[c].snapshot]
Restores(c, d) == env[d] = Wanted(c)[d] \/ <<d, Wanted(c)[d]>> \in Direct

\* What the reinstall settles of d, which it does not pin.
Settles(c, d) ==
  job[c].pins[d] = 0 /\ IF Wanted(c)[d] = 0 THEN IsRequired(d, job[c].pins) ELSE job[c].pins # None

\* What a rollback knows, place by place, if nothing else changes the environment: what
\* it will remove and pin is the difference to its snapshot, then the rest of it.
RollbackGoesOn(c) ==
  /\ job[c].pc = "remove" =>
       \A d \in Dists : /\ d \in job[c].remove <=> env[d] # 0 /\ Wanted(c)[d] = 0
                        /\ job[c].pins[d] # 0 => job[c].pins[d] = Wanted(c)[d]
                        /\ Restores(c, d) \/ Wanted(c)[d] = 0 \/ job[c].pins[d] # 0
  /\ job[c].pc = "pin" /\ job[c].ok =>
       \A d \in Dists : /\ job[c].pins[d] # 0 => job[c].pins[d] = Wanted(c)[d]
                        /\ Restores(c, d) \/ job[c].pins[d] # 0
  /\ job[c].pc = "rolled" /\ job[c].ok => \A d \in Dists : Restores(c, d) \/ Settles(c, d)

RollbackInv ==
  ~overlapped => /\ \A c, d \in Busy : c = d
                 /\ \A c \in Clients : RollbackGoesOn(c)

LEMMA BeginsAlone ==
  ASSUME Typed, NEW c \in Clients, Begins(c), ~overlapped'
  PROVE  ~overlapped /\ Busy = {}
<1>1. overlapped' = (overlapped \/ Busy # {})
  BY DEF Begins, BeginSnapshot, BeginUpdate, BeginUninstall, BeginEnable, BeginDisable,
         BeginInstall, BeginRollback, Begin
<1> QED
  BY <1>1 DEF Typed, ProcessTyped

LEMMA StepAlone ==
  ASSUME Typed, NEW c \in Clients, Step(c)
  PROVE  c \in Busy /\ overlapped' = overlapped
<1>1. job[c].pc # "idle" \/ job[c].op # "none"
  BY DEF Step, TakeSnapshot, UvFails, UvStops, Calls, ListBefore, UvInstalls, FindAdded, ImportTest, Diff,
         RolledBack, Recompile, SetGraph, Sets, RollbackRemoves, RollbackInstalls, LookUp, Load, AllLoaded,
         RecordSource, UvUpgrades, Updated, UvUninstalls, Forget, Uninstalled, CommitEnabled, Drop, At
<1>2. overlapped' = overlapped
  BY DEF Step, TakeSnapshot, UvFails, UvStops, ListBefore, UvInstalls, FindAdded, ImportTest, Diff,
         RolledBack, Recompile, SetGraph, RollbackRemoves, RollbackInstalls, LookUp, Load, AllLoaded,
         RecordSource, UvUpgrades, Updated, UvUninstalls, Forget, Uninstalled, CommitEnabled, Drop, observers
<1> QED
  BY <1>1, <1>2 DEF Busy, Typed, JobsTyped, JobIsGood

LEMMA RollbackStep ==
  ASSUME Typed, NEW c \in Clients, Step(c), RollbackGoesOn(c)
  PROVE  RollbackGoesOn(c)'
<1>0. /\ job \in [Clients -> Job] /\ env \in [Dists -> 0..MaxVersion] /\ MaxVersion \in Nat
      /\ snapshots \in Seq(Environments) /\ job[c].pins \in [Dists -> 0..MaxVersion]
      /\ job[c].pc \in RollsBack => job[c].op = "rollback"
  BY Numbers DEF Typed, JobsTyped, JobIsGood, StoredTyped, Environments, Job
<1>1. ASSUME job'[c].pc \notin {"remove", "pin", "rolled"} PROVE RollbackGoesOn(c)'
  BY <1>1 DEF RollbackGoesOn
<1>2. CASE Diff(c)
  <2> DEFINE wanted == Wanted(c)
  <2>1. /\ job'[c].pc = "remove" /\ job'[c].snapshot = job[c].snapshot /\ UNCHANGED <<env, snapshots>>
        /\ job'[c].remove = {d \in Dists : env[d] # 0 /\ wanted[d] = 0}
        /\ job'[c].pins = [d \in Dists |-> IF wanted[d] # env[d] /\ <<d, wanted[d]>> \notin Direct
                                           THEN wanted[d] ELSE 0]
    BY <1>0, <1>2 DEF Diff, stored, Wanted, Job
  <2>2. \A d \in Dists : wanted[d] = Wanted(c)'[d]
    BY <2>1 DEF Wanted
  <2> HIDE DEF wanted
  <2> QED
    BY <2>1, <2>2 DEF RollbackGoesOn, Restores
<1>3. ASSUME NEW ok \in BOOLEAN, RollbackRemoves(c, ok) PROVE RollbackGoesOn(c)'
  <2>1. /\ job[c].pc = "remove" /\ job'[c].pc = "pin" /\ job'[c].ok = ok /\ UNCHANGED snapshots
        /\ job'[c].snapshot = job[c].snapshot /\ job'[c].pins = job[c].pins
    BY <1>0, <1>3 DEF RollbackRemoves, Job
  <2>2. \A d \in Dists : Wanted(c)'[d] = Wanted(c)[d]
    BY <2>1 DEF Wanted
  <2>3. ok => env' = [d \in Dists |-> IF d \in job[c].remove THEN 0 ELSE env[d]]
    BY <1>0, <1>3, <2>1 DEF RollbackRemoves, Results, RollsBack
  <2> QED
    BY <2>1, <2>2, <2>3 DEF RollbackGoesOn, Restores
<1>4. ASSUME NEW ok \in BOOLEAN, RollbackInstalls(c, ok) PROVE RollbackGoesOn(c)'
  <2> DEFINE pins == job[c].pins
  <2>1. /\ job[c].pc = "pin" /\ job'[c].pc = "rolled" /\ job'[c].ok = (job[c].ok /\ ok)
        /\ UNCHANGED snapshots /\ job'[c].snapshot = job[c].snapshot /\ job'[c].pins = pins
    BY <1>0, <1>4 DEF RollbackInstalls, Job
  <2>2. \A d \in Dists : Wanted(c)'[d] = Wanted(c)[d]
    BY <2>1 DEF Wanted
  <2>3. \A d \in Dists : Settles(c, d)' <=> pins[d] = 0 /\ IF Wanted(c)[d] = 0 THEN IsRequired(d, pins) ELSE pins # None
    BY <2>1, <2>2 DEF Settles, IsRequired
  <2>4. CASE pins = None
    <3>1. UNCHANGED env /\ \A d \in Dists : pins[d] = 0
      BY <1>4, <2>1, <2>4 DEF RollbackInstalls, Calls, None
    <3> QED
      BY <2>1, <2>2, <3>1 DEF RollbackGoesOn, Restores
  <2>5. CASE pins # None
    <3>1. ok => env' \in Resolutions(pins)
      BY <1>0, <1>4, <2>1, <2>5 DEF RollbackInstalls, Calls, Results, RollsBack
    <3>2. ASSUME job[c].ok, ok, NEW d \in Dists PROVE Restores(c, d)' \/ Settles(c, d)'
      <4>1. /\ pins[d] # 0 => env'[d] = pins[d]
            /\ pins[d] = 0 /\ ~IsRequired(d, pins) /\ env[d] = 0 => env'[d] = 0
        BY <3>1, <3>2 DEF Resolutions
      <4>2. /\ pins[d] # 0 => pins[d] = Wanted(c)[d]
            /\ Restores(c, d) \/ pins[d] # 0
        BY <2>1, <3>2 DEF RollbackGoesOn
      <4>3. CASE pins[d] # 0
        BY <2>2, <4>1, <4>2, <4>3 DEF Restores
      <4>4. CASE pins[d] = 0 /\ Wanted(c)[d] # 0
        BY <2>3, <2>5, <4>4
      <4>5. CASE pins[d] = 0 /\ Wanted(c)[d] = 0 /\ IsRequired(d, pins)
        BY <2>3, <4>5
      <4>6. CASE pins[d] = 0 /\ Wanted(c)[d] = 0 /\ ~IsRequired(d, pins)
        BY <2>2, <4>1, <4>2, <4>6 DEF Restores
      <4> QED
        BY <4>3, <4>4, <4>5, <4>6
    <3> QED
      BY <2>1, <3>2 DEF RollbackGoesOn
  <2> QED
    BY <2>4, <2>5
<1>5. CASE \/ TakeSnapshot(c) \/ UvFails(c) \/ UvStops(c) \/ ListBefore(c) \/ UvInstalls(c) \/ FindAdded(c)
           \/ ImportTest(c)
  <2>1. job'[c].pc \notin {"remove", "pin", "rolled"}
    BY <1>0, <1>5 DEF TakeSnapshot, UvFails, UvStops, ListBefore, UvInstalls, FindAdded, ImportTest, Return, GoTo,
                      Idle, Job
  <2> QED
    BY <1>1, <2>1
<1>6. CASE LookUp(c) \/ Load(c) \/ RecordSource(c) \/ Recompile(c) \/ SetGraph(c)
  <2>1. LookUp(c) => job'[c].pc \in {"load", "source", "idle"}
    BY <1>0 DEF LookUp, Return, GoTo, Idle, Job
  <2>2. Load(c) => job'[c].pc = "load"
    BY <1>0 DEF Load, Job
  <2>3. RecordSource(c) => job'[c].pc = "idle"
    BY <1>0 DEF RecordSource, Return, Idle
  <2>4. Recompile(c) => job'[c].pc = "set"
    BY <1>0 DEF Recompile, Job
  <2>5. SetGraph(c) => job'[c].pc \in {"source", "idle"}
    BY <1>0 DEF SetGraph, Return, Idle, Job
  <2> QED
    BY <1>1, <1>6, <2>1, <2>2, <2>3, <2>4, <2>5
<1>7. CASE UvUpgrades(c) \/ UvUninstalls(c) \/ Forget(c) \/ CommitEnabled(c)
  <2>1. job'[c].pc \notin {"remove", "pin", "rolled"}
    BY <1>0, <1>7 DEF UvUpgrades, UvUninstalls, Forget, CommitEnabled, Return, GoTo, Idle, Job
  <2> QED
    BY <1>1, <2>1
<1>8. CASE RolledBack(c) \/ AllLoaded(c) \/ Updated(c) \/ Uninstalled(c) \/ Drop(c)
  <2>1. Change(c) \/ GoTo(c, "changed")
    BY <1>8 DEF RolledBack, AllLoaded, Updated, Uninstalled, Drop
  <2>2. job'[c].pc = "changed"
    BY <1>0, <2>1, ChangesTo DEF GoTo, Job
  <2> QED
    BY <1>1, <2>2
<1> QED
  BY <1>2, <1>3, <1>4, <1>5, <1>6, <1>7, <1>8 DEF Step

LEMMA RollbackInvStep ==
  ASSUME Typed, RollbackInv, [Next]_vars
  PROVE  RollbackInv'
<1>0. \A c \in Clients : c \notin Busy => job[c].pc = "idle"
  BY DEF Typed, JobsTyped, JobIsGood, Busy
<1>1. ASSUME NEW c \in Clients, ~overlapped, \A d \in Clients \ {c} : d \notin Busy /\ job'[d] = job[d],
             RollbackGoesOn(c)'
      PROVE  RollbackInv'
  <2>1. \A d \in Clients \ {c} : d \notin Busy' /\ job'[d].pc = "idle"
    BY <1>0, <1>1 DEF Busy
  <2>2. \A d \in Clients \ {c} : RollbackGoesOn(d)'
    BY <2>1 DEF RollbackGoesOn
  <2>3. \A d, e \in Busy' : d = e
    BY <2>1 DEF Busy
  <2> QED
    BY <1>1, <2>2, <2>3 DEF RollbackInv
<1>2. ASSUME NEW c \in Clients, Begins(c) PROVE RollbackInv'
  <2> SUFFICES ASSUME ~overlapped' PROVE RollbackInv'
    BY DEF RollbackInv
  <2>1. ~overlapped /\ Busy = {} /\ job'[c].pc \in {"snapshot", "row", "diff"}
    BY <1>2, BeginsAlone, BeginsAt
  <2>2. RollbackGoesOn(c)'
    BY <2>1 DEF RollbackGoesOn
  <2> QED
    BY <1>1, <1>2, <2>1, <2>2, OthersStay
<1>3. ASSUME NEW c \in Clients, Step(c) PROVE RollbackInv'
  <2> SUFFICES ASSUME ~overlapped' PROVE RollbackInv'
    BY DEF RollbackInv
  <2>1. c \in Busy /\ ~overlapped
    BY <1>3, StepAlone
  <2>2. \A d \in Clients \ {c} : d \notin Busy
    BY <2>1 DEF RollbackInv
  <2>3. RollbackGoesOn(c)'
    BY <1>3, <2>1, RollbackStep DEF RollbackInv
  <2> QED
    BY <1>1, <1>3, <2>1, <2>2, <2>3, OthersStay
<1>4. CASE Restart
  <2>1. \A c \in Clients : job'[c].pc = "idle" /\ job'[c].op = "none"
    BY <1>4 DEF Restart, Idle
  <2> QED
    BY <2>1 DEF RollbackInv, RollbackGoesOn, Busy
<1>5. CASE UNCHANGED vars
  BY <1>5 DEF vars, stored, observers, RollbackInv, RollbackGoesOn, Restores, Settles, IsRequired, Wanted, Busy
<1> QED
  BY <1>2, <1>3, <1>4, <1>5 DEF Next, Begins

\* A rollback whose calls of uv both succeeded, and that no other request overlapped, has
\* brought every distribution back to its snapshot but the direct ones, which have no pin,
\* and what its reinstall settled: requirements brought back, and versions it did not pin.
THEOREM RollbackRestoresAlways == Spec => RollbackRestores
<1> DEFINE Restored == \A c \in Clients : ~overlapped /\ job[c].ok /\ RolledBack(c) =>
       LET wanted == snapshots[job[c].snapshot]
           pins == job[c].pins
       IN \A d \in Dists :
            \/ env[d] = wanted[d] \/ <<d, wanted[d]>> \in Direct
            \/ pins[d] = 0 /\ IF wanted[d] = 0 THEN IsRequired(d, pins) ELSE pins # None
<1>1. Init => RollbackInv
  BY DEF Init, Idle, RollbackInv, RollbackGoesOn, Busy
<1>2. PacksInv /\ RollbackInv /\ [Next]_vars => RollbackInv'
  BY RollbackInvStep DEF PacksInv
<1>3. RollbackInv => [Restored]_vars
  BY DEF RollbackInv, RollbackGoesOn, Restores, Settles, Wanted, RolledBack
<1> QED
  BY PacksInvAlways, <1>1, <1>2, <1>3, PTL DEF Spec, RollbackRestores

-----------------------------------------------------------------------------
(* What is told of the packs *)

\* The list is right about p; and only what is installed has a record, and then the
\* process runs the installed version or nothing of it.
Shown(p) == ListedAsLoaded(p) => p \in registered
Known(p) == records[p] # "none" => env[p] # 0 /\ modules[p] \in {0, env[p]}

\* The places of a request that will make it so, or ask for a restart.
Enables(c, p) ==
  \/ At(c, "enable", "lookup") /\ p = job[c].pack
  \/ At(c, "enable", "load") /\ p \in job[c].queue
Moves(c, p) ==
  \/ At(c, "uninstall", "forget") /\ p = job[c].pack
  \/ At(c, "update", "updated") \/ job[c].pc = "rolled"
  \/ job[c].pc = "pin" /\ job[c].remove # {}
Told(c) == \A p \in Packs : (Shown(p) \/ Enables(c, p)) /\ (Known(p) \/ Moves(c, p))

\* What a request has seen or done still holds when it goes on alone.
InOrder(c) ==
  /\ job[c].pc \in {"lookup", "load"} => job[c].op \in {"install", "enable"}
  /\ job[c].pc = "load" => job[c].queue \subseteq EntryPoints
  /\ At(c, "uninstall", "row") => records[job[c].pack] = "none"
  /\ At(c, "disable", "drop") => rows[job[c].pack] = "off"
  /\ job[c].op = "enable" => records[job[c].pack] # "none"
  /\ At(c, "enable", "lookup") => job[c].names = {job[c].pack}
  /\ At(c, "enable", "load") => job[c].queue \subseteq {job[c].pack}

LEMMA JobFields ==
  ASSUME Typed, NEW c \in Clients
  PROVE  /\ job \in [Clients -> Job] /\ job[c] \in Job /\ job[c].pack \in Packs /\ job[c].pack \in Dists
         /\ job[c].names \subseteq Packs /\ job[c].queue \subseteq Packs
         /\ env \in [Dists -> 0..MaxVersion] /\ modules \in [Packs -> 0..MaxVersion]
         /\ records \in [Packs -> {"none", "loaded", "failed"}] /\ rows \in [Packs -> {"none", "on", "off"}]
         /\ registered \subseteq Packs /\ Packs \subseteq Dists /\ MaxVersion \in Nat
         /\ job[c].pc \in RollsBack => job[c].op = "rollback"
BY Numbers DEF Typed, StoredTyped, ProcessTyped, JobsTyped, JobIsGood, Job, Environments

LEMMA InOrderStep ==
  ASSUME Typed, NEW c \in Clients, Step(c), InOrder(c)
  PROVE  InOrder(c)'
<1>0. /\ job \in [Clients -> Job] /\ job[c] \in Job /\ job[c].pack \in Packs /\ job[c].pack \in Dists
      /\ job[c].queue \subseteq Packs
      /\ env \in [Dists -> 0..MaxVersion] /\ records \in [Packs -> {"none", "loaded", "failed"}]
      /\ rows \in [Packs -> {"none", "on", "off"}]
  BY JobFields
<1>1. ASSUME job'[c].op # "enable", job'[c].pc \notin {"load", "row", "drop"},
             job'[c].pc = "lookup" => job'[c].op = "install"
      PROVE  InOrder(c)'
  BY <1>1 DEF InOrder, At
<1>2. ASSUME Return(c) PROVE InOrder(c)'
  <2>1. job'[c].pc = "idle" /\ job'[c].op = "none"
    BY <1>0, <1>2 DEF Return, Idle
  <2> QED
    BY <1>1, <2>1
<1>3. ASSUME Change(c) PROVE InOrder(c)'
  BY <1>0, <1>1, <1>3, ChangesTo
<1>4. ASSUME NEW pc, GoTo(c, pc)
      PROVE  job'[c].pc = pc /\ job'[c].op = job[c].op /\ job'[c].pack = job[c].pack
  BY <1>0, <1>4 DEF GoTo, Job
<1>5. CASE TakeSnapshot(c)
  <2>1. CASE job[c].op = "snapshot"
    BY <1>2, <1>5, <2>1 DEF TakeSnapshot
  <2>2. CASE job[c].op = "install"
    <3>1. job'[c].pc = "list" /\ job'[c].op = "install"
      BY <1>0, <1>5, <2>2 DEF TakeSnapshot, Job
    <3> QED
      BY <1>1, <3>1
  <2>3. CASE job[c].op \notin {"snapshot", "install"}
    <3>1. job'[c].pc = "uv" /\ job'[c].op = job[c].op /\ job'[c].pack = job[c].pack /\ UNCHANGED records
      BY <1>4, <1>5, <2>3 DEF TakeSnapshot, process
    <3> QED
      BY <3>1 DEF InOrder, At
  <2> QED
    BY <2>1, <2>2, <2>3
<1>6. CASE UvFails(c) \/ UvStops(c) \/ RecordSource(c)
  BY <1>2, <1>6 DEF UvFails, UvStops, RecordSource
<1>7. CASE ListBefore(c) \/ UvInstalls(c)
  <2>1. job'[c].pc \in {"uv", "added"} /\ job'[c].op = "install"
    BY <1>0, <1>7 DEF ListBefore, UvInstalls, At, Job
  <2> QED
    BY <1>1, <2>1
<1>8. CASE FindAdded(c)
  <2>1. Return(c) \/ (job'[c].pc = "test" /\ job'[c].op = "install")
    BY <1>0, <1>8 DEF FindAdded, At, Job
  <2> QED
    BY <1>1, <1>2, <2>1
<1>9. CASE ImportTest(c)
  <2>1. \/ job'[c].op = "rollback" /\ job'[c].pc = "diff"
        \/ job'[c].op = "install" /\ job'[c].pc = "lookup"
    BY <1>0, <1>9 DEF ImportTest, At, Job
  <2> QED
    BY <1>1, <2>1
<1>10. CASE Diff(c)
  <2>1. job[c].op = "rollback"
    BY <1>10, JobFields DEF Diff, RollsBack
  <2>2. job'[c].pc = "remove" /\ job'[c].op = "rollback"
    BY <1>0, <1>10, <2>1 DEF Diff, Job
  <2> QED
    BY <1>1, <2>2
<1>11. ASSUME NEW ok \in BOOLEAN, RollbackRemoves(c, ok) \/ RollbackInstalls(c, ok) PROVE InOrder(c)'
  <2>1. job[c].op = "rollback"
    BY <1>11, JobFields DEF RollbackRemoves, RollbackInstalls, RollsBack
  <2>2. job'[c].pc \in {"pin", "rolled"} /\ job'[c].op = "rollback"
    BY <1>0, <1>11, <2>1 DEF RollbackRemoves, RollbackInstalls, Job
  <2> QED
    BY <1>1, <2>2
<1>12. CASE RolledBack(c) \/ Updated(c) \/ Uninstalled(c) \/ Drop(c)
  BY <1>3, <1>12 DEF RolledBack, Updated, Uninstalled, Drop
<1>13. CASE LookUp(c)
  <2>1. CASE Return(c)
    BY <1>2, <2>1
  <2>2. CASE job[c].op = "install" /\ GoTo(c, "source")
    <3>1. job'[c].pc = "source" /\ job'[c].op = "install"
      BY <1>4, <2>2
    <3> QED
      BY <1>1, <3>1
  <2>3. CASE job' = [job EXCEPT ![c].pc = "load", ![c].queue = job[c].names \cap EntryPoints]
    <3>1. /\ job'[c].pc = "load" /\ job'[c].queue = job[c].names \cap EntryPoints
          /\ job'[c].op = job[c].op /\ job'[c].pack = job[c].pack /\ job[c].pc = "lookup"
          /\ UNCHANGED <<env, records>>
      BY <1>0, <1>13, <2>3 DEF LookUp, stored, process, Job
    <3>2. EntryPoints' = EntryPoints
      BY <3>1 DEF EntryPoints
    <3> QED
      BY <3>1, <3>2 DEF InOrder, At
  <2> QED
    BY <1>13, <2>1, <2>2, <2>3 DEF LookUp
<1>14. CASE Load(c)
  <2>1. /\ job'[c].pc = "load" /\ job[c].pc = "load" /\ job'[c].queue \subseteq job[c].queue
        /\ job'[c].op = job[c].op /\ job'[c].pack = job[c].pack /\ UNCHANGED env
    BY <1>0, <1>14 DEF Load, stored, Job
  <2>2. EntryPoints' = EntryPoints
    BY <2>1 DEF EntryPoints
  <2>3. records[job[c].pack] # "none" => records'[job[c].pack] # "none"
    BY <1>0, <1>14 DEF Load, Registered, Record
  <2> QED
    BY <2>1, <2>2, <2>3 DEF InOrder, At
<1>15. CASE AllLoaded(c)
  <2>1. Change(c) \/ (job'[c].pc = "changed" /\ job'[c].op = "install")
    BY <1>4, <1>15 DEF AllLoaded
  <2> QED
    BY <1>1, <1>3, <2>1
<1>16. CASE Recompile(c)
  <2>1. job'[c].pc = "set" /\ job'[c].op = job[c].op /\ job'[c].pack = job[c].pack /\ UNCHANGED records
    BY <1>0, <1>16 DEF Recompile, process, Job
  <2> QED
    BY <2>1 DEF InOrder, At
<1>17. CASE SetGraph(c)
  <2>1. CASE job[c].op = "install"
    <3>1. job'[c].pc = "source" /\ job'[c].op = "install"
      BY <1>0, <1>17, <2>1 DEF SetGraph, Job
    <3> QED
      BY <1>1, <3>1
  <2>2. CASE job[c].op # "install"
    BY <1>2, <1>17, <2>2 DEF SetGraph
  <2> QED
    BY <2>1, <2>2
<1>18. CASE UvUpgrades(c) \/ UvUninstalls(c)
  <2>1. Return(c) \/ (job'[c].pc \in {"updated", "forget"} /\ job'[c].op \in {"update", "uninstall"})
    BY <1>4, <1>18 DEF UvUpgrades, UvUninstalls, At
  <2> QED
    BY <1>1, <1>2, <2>1
<1>19. CASE Forget(c)
  <2>1. job'[c].op = "uninstall" /\ job'[c].pc = "row" /\ job'[c].pack = job[c].pack
    BY <1>4, <1>19 DEF Forget, At
  <2>2. records'[job[c].pack] = "none"
    BY <1>0, <1>19 DEF Forget
  <2> QED
    BY <2>1, <2>2 DEF InOrder, At
<1>20. CASE CommitEnabled(c)
  <2>1. CASE Return(c)
    BY <1>2, <2>1
  <2>2. CASE job[c].op = "enable" /\ ~Return(c)
    <3>1. /\ job'[c].pc = "lookup" /\ job'[c].op = "enable" /\ job'[c].names = {job[c].pack}
          /\ job'[c].pack = job[c].pack /\ UNCHANGED records
      BY <1>0, <1>20, <2>2 DEF CommitEnabled, process, Job
    <3> QED
      BY <2>2, <3>1 DEF InOrder, At
  <2>3. CASE job[c].op = "disable" /\ ~Return(c)
    <3>1. job'[c].pc = "drop" /\ job'[c].op = "disable" /\ job'[c].pack = job[c].pack
      BY <1>0, <1>20, <2>3 DEF CommitEnabled, Job
    <3>2. rows'[job[c].pack] = "off"
      BY <1>0, <1>20, <2>3 DEF CommitEnabled
    <3> QED
      BY <3>1, <3>2 DEF InOrder, At
  <2> QED
    BY <1>20, <2>1, <2>2, <2>3 DEF CommitEnabled
<1> QED
  BY <1>5, <1>6, <1>7, <1>8, <1>9, <1>10, <1>11, <1>12, <1>13, <1>14, <1>15, <1>16, <1>17, <1>18,
     <1>19, <1>20 DEF Step

LEMMA ToldStep ==
  ASSUME Typed, NEW c \in Clients, Step(c), InOrder(c), Told(c), ~restart', ~unseen'
  PROVE  Told(c)'
<1>0. /\ job \in [Clients -> Job] /\ job[c] \in Job /\ job[c].pack \in Packs /\ job[c].pack \in Dists
      /\ job[c].queue \subseteq Packs
      /\ env \in [Dists -> 0..MaxVersion] /\ modules \in [Packs -> 0..MaxVersion]
      /\ records \in [Packs -> {"none", "loaded", "failed"}]
      /\ rows \in [Packs -> {"none", "on", "off"}] /\ registered \subseteq Packs /\ Packs \subseteq Dists
  BY JobFields
<1>1. ASSUME NEW p \in Packs, records'[p] = records[p], rows'[p] = rows[p],
             p \in registered => p \in registered', Shown(p)
      PROVE  Shown(p)'
  BY <1>1 DEF Shown, ListedAsLoaded
<1>2. ASSUME NEW p \in Packs, records'[p] = records[p], modules'[p] = modules[p],
             env[p] # 0 => env'[p] = env[p], Known(p)
      PROVE  Known(p)'
  BY <1>2 DEF Known
\* Places with nothing pending.
<1>3. ASSUME job[c].pc \notin {"pin", "rolled", "updated", "forget", "lookup", "load"}
      PROVE  \A p \in Packs : Shown(p) /\ Known(p)
  BY <1>3 DEF Told, Enables, Moves, At
<1>4. ASSUME \A p \in Packs : Shown(p)' /\ Known(p)' PROVE Told(c)'
  BY <1>4 DEF Told
\* A step that leaves every installed pack, where nothing is pending.
<1>5. ASSUME UNCHANGED <<registered, records, rows, modules>>, \A p \in Packs : env[p] # 0 => env'[p] = env[p],
             \A p \in Packs : Shown(p) /\ Known(p)
      PROVE  Told(c)'
  BY <1>1, <1>2, <1>4, <1>5
<1>6. CASE \/ TakeSnapshot(c) \/ UvFails(c) \/ ListBefore(c) \/ FindAdded(c) \/ ImportTest(c) \/ Diff(c)
           \/ Recompile(c) \/ SetGraph(c)
  <2>1. /\ UNCHANGED <<registered, records, rows, modules, env>>
        /\ job[c].pc \notin {"pin", "rolled", "updated", "forget", "lookup", "load"}
    BY <1>6 DEF TakeSnapshot, UvFails, ListBefore, FindAdded, ImportTest, Diff, Recompile, SetGraph, Sets, At,
                process, stored
  <2> QED
    BY <1>3, <1>5, <2>1
<1>7. CASE UvInstalls(c)
  <2>1. /\ UNCHANGED <<registered, records, rows, modules>> /\ job[c].pc = "uv" /\ ~Upsets
    BY <1>7 DEF UvInstalls, At, process
  <2> QED
    BY <1>3, <1>5, <2>1 DEF Upsets
<1>8. CASE UvStops(c)
  <2>1. /\ UNCHANGED <<registered, records, rows, modules>> /\ ~Upsets
        /\ job[c].pc \in {"uv", "remove"} \/ (job[c].pc = "pin" /\ job[c].remove = {})
    BY <1>8 DEF UvStops, Calls, process
  <2>2. \A p \in Packs : Shown(p) /\ Known(p)
    BY <2>1 DEF Told, Enables, Moves, At
  <2> QED
    BY <1>5, <2>1, <2>2 DEF Upsets
<1>9. CASE UvUpgrades(c)
  <2>1. /\ UNCHANGED <<registered, records, rows, modules>> /\ job[c].pc = "uv" /\ job[c].op = "update"
        /\ \A p \in Packs : Shown(p) /\ Known(p)
    BY <1>3, <1>9 DEF UvUpgrades, At, process
  <2>2. CASE UNCHANGED env
    BY <1>5, <2>1, <2>2
  <2>3. CASE GoTo(c, "updated")
    <3>1. job'[c].pc = "updated" /\ job'[c].op = "update"
      BY <1>0, <2>1, <2>3 DEF GoTo, Job
    <3>2. \A p \in Packs : Shown(p)' /\ Moves(c, p)'
      BY <1>1, <2>1, <3>1 DEF Moves, At
    <3> QED
      BY <3>2 DEF Told
  <2> QED
    BY <1>9, <2>2, <2>3 DEF UvUpgrades
<1>10. ASSUME NEW ok \in BOOLEAN, RollbackRemoves(c, ok) PROVE Told(c)'
  <2>1. /\ job[c].pc = "remove" /\ job[c].op = "rollback" /\ UNCHANGED <<registered, records, rows, modules>>
        /\ job'[c].pc = "pin" /\ job'[c].remove = job[c].remove
    BY <1>0, <1>10, JobFields DEF RollbackRemoves, RollsBack, process, Job
  <2>2. \A p \in Packs : Shown(p) /\ Known(p)
    BY <1>3, <2>1
  <2>3. CASE job[c].remove = {}
    <3>1. env' = [d \in Dists |-> env[d]]
      BY <1>10, <2>1, <2>3 DEF RollbackRemoves, Calls, Results
    <3> QED
      BY <1>0, <1>5, <2>1, <2>2, <3>1
  <2>4. CASE job[c].remove # {}
    <3>1. \A p \in Packs : Shown(p)' /\ Moves(c, p)'
      BY <1>1, <2>1, <2>2, <2>4 DEF Moves
    <3> QED
      BY <3>1 DEF Told
  <2> QED
    BY <2>3, <2>4
<1>11. ASSUME NEW ok \in BOOLEAN, RollbackInstalls(c, ok) PROVE Told(c)'
  <2>1. job[c].pc = "pin" /\ UNCHANGED <<registered, records, rows, modules>> /\ job'[c].pc = "rolled"
    BY <1>0, <1>11 DEF RollbackInstalls, process, Job
  <2>2. \A p \in Packs : Shown(p)
    BY <2>1 DEF Told, Enables, At
  <2>3. \A p \in Packs : Shown(p)' /\ Moves(c, p)'
    BY <1>1, <2>1, <2>2 DEF Moves
  <2> QED
    BY <2>3 DEF Told
<1>12. ASSUME RolledBack(c) \/ Updated(c) PROVE FALSE
  BY <1>12 DEF RolledBack, Updated
<1>13. CASE LookUp(c)
  <2>1. job[c].pc = "lookup" /\ UNCHANGED <<registered, records, rows, modules, env>>
    BY <1>13 DEF LookUp, process, stored
  <2>2. \A p \in Packs : Known(p) /\ Known(p)'
    BY <1>2, <2>1 DEF Told, Moves, At
  <2>3. ASSUME NEW p \in Packs, Shown(p) PROVE Shown(p)'
    BY <1>1, <2>1, <2>3
  <2>4. ASSUME NEW p \in Packs, Enables(c, p) PROVE Shown(p)' \/ Enables(c, p)'
    <3>1. job[c].op = "enable" /\ p = job[c].pack /\ job[c].names = {p}
      BY <2>1, <2>4 DEF Enables, InOrder, At
    <3>2. CASE p \in EntryPoints
      <4>1. job' = [job EXCEPT ![c].pc = "load", ![c].queue = job[c].names \cap EntryPoints]
        BY <1>13, <3>1, <3>2 DEF LookUp
      <4>2. job'[c].pc = "load" /\ job'[c].op = "enable" /\ p \in job'[c].queue
        BY <1>0, <3>1, <3>2, <4>1 DEF Job
      <4> QED
        BY <4>2 DEF Enables, At
    <3>3. CASE p \notin EntryPoints
      BY <2>1, <2>2, <3>3 DEF EntryPoints, Known, Shown, ListedAsLoaded
    <3> QED
      BY <3>2, <3>3
  <2> QED
    BY <2>2, <2>3, <2>4 DEF Told
<1>14. CASE Load(c)
  <2>0. Min(job[c].queue) \in Packs
    BY <1>0, <1>14, MinIsIn DEF Load
  <2>p. PICK first \in Packs : first = Min(job[c].queue)
    BY <2>0
  <2> DEFINE v == Loaded(modules, first)
             waits == job[c].op = "install" /\ modules[first] # 0
  <2>1. first \in job[c].queue /\ env[first] # 0
    BY <1>0, <1>14, <2>p, MinIsIn DEF Load, InOrder, EntryPoints
  <2>2. /\ job[c].pc = "load" /\ job'[c].pc = "load" /\ job'[c].op = job[c].op
        /\ job'[c].queue = job[c].queue \ {first} /\ UNCHANGED <<rows, env>>
    BY <1>0, <1>14, <2>p DEF Load, stored, Job
  <2>3. \A p \in Packs : Known(p)
    BY <2>2 DEF Told, Moves, At
  <2>4. CASE waits
    <3>1. UNCHANGED <<registered, records, modules>>
      BY <1>14, <2>4, <2>p DEF Load
    <3>2. \A p \in Packs : Shown(p)
      BY <2>4 DEF Told, Enables, At
    <3> QED
      BY <1>5, <2>2, <2>3, <3>1, <3>2
  <2>5. CASE ~waits
    <3>1. /\ modules' = [modules EXCEPT ![first] = v]
          /\ registered' = IF v # 0 THEN registered \cup {first} ELSE registered \ {first}
          /\ records' = [records EXCEPT ![first] = Record(first, v)]
      BY <1>14, <2>5, <2>p DEF Load, Registered
    <3>2. v \in {0, env[first]}
      <4>1. CASE modules[first] = 0
        BY <4>1 DEF Loaded
      <4>2. CASE modules[first] # 0
        <5>1. job[c].op # "install" /\ first \in Packs
          BY <2>5, <4>2
        <5>2. CASE job[c].op = "enable"
          <6>1. records[first] # "none"
            BY <2>1, <2>2, <5>2 DEF InOrder, At
          <6> QED
            BY <2>3, <4>2, <6>1 DEF Known, Loaded
        <5> QED
          BY <2>2, <5>1, <5>2 DEF InOrder
      <4> QED
        BY <4>1, <4>2
    <3> HIDE DEF v, waits
    <3>3. Shown(first)' /\ Known(first)'
      BY <1>0, <2>1, <2>2, <3>1, <3>2 DEF Record, Shown, Known, ListedAsLoaded
    <3>4. ASSUME NEW p \in Packs, p # first
          PROVE  /\ Known(p)' /\ (Shown(p) => Shown(p)')
                 /\ Enables(c, p) => Enables(c, p)'
      <4>1. records'[p] = records[p] /\ modules'[p] = modules[p] /\ (p \in registered <=> p \in registered')
        BY <1>0, <2>1, <3>1, <3>4
      <4>2. Known(p)' /\ (Shown(p) => Shown(p)')
        BY <1>1, <1>2, <2>2, <2>3, <4>1
      <4>3. Enables(c, p) => Enables(c, p)'
        BY <2>2, <3>4 DEF Enables, At
      <4> QED
        BY <4>2, <4>3
    <3> QED
      BY <3>3, <3>4 DEF Told
  <2> QED
    BY <2>4, <2>5
<1>15. CASE AllLoaded(c)
  <2>1. \A p \in Packs : Shown(p) /\ Known(p)
    BY <1>15 DEF AllLoaded, Told, Enables, Moves, At
  <2> QED
    BY <1>5, <1>15, <2>1 DEF AllLoaded, stored
<1>16. CASE RecordSource(c)
  <2>1. /\ UNCHANGED <<registered, records, env, modules>> /\ job[c].pc = "source"
        /\ \A p \in Packs : rows'[p] = rows[p] \/ rows[p] = "none"
    BY <1>0, <1>16 DEF RecordSource, At, process
  <2>2. ASSUME NEW p \in Packs PROVE Shown(p)' /\ Known(p)'
    <3>1. Shown(p) /\ Known(p)
      BY <1>3, <2>1
    <3> QED
      BY <2>1, <3>1 DEF Shown, Known, ListedAsLoaded
  <2> QED
    BY <1>4, <2>2
<1>p. PICK pack \in Packs : pack = job[c].pack
  BY <1>0
<1>17. CASE UvUninstalls(c)
  <2>1. /\ UNCHANGED <<registered, records, rows, modules>> /\ job[c].pc = "uv" /\ job[c].op = "uninstall"
        /\ env' = [env EXCEPT ![pack] = 0]
        /\ job'[c].pc = "forget" /\ job'[c].op = "uninstall" /\ job'[c].pack = pack
    BY <1>0, <1>p, <1>17 DEF UvUninstalls, Results, At, GoTo, process, Job
  <2>2. Moves(c, pack)'
    BY <2>1 DEF Moves, At
  <2>3. \A p \in Packs : p # pack => env'[p] = env[p]
    BY <1>0, <1>p, <2>1
  <2>4. \A p \in Packs : Shown(p) /\ Known(p)
    BY <1>3, <2>1
  <2>5. \A p \in Packs : Shown(p)'
    BY <1>1, <2>1, <2>4
  <2>6. \A p \in Packs : p # pack => Known(p)'
    BY <1>2, <2>1, <2>3, <2>4
  <2> QED
    BY <1>0, <1>p, <2>2, <2>5, <2>6 DEF Told
<1>18. CASE Forget(c)
  <2>1. /\ job[c].pc = "forget" /\ UNCHANGED <<rows, env, modules>>
        /\ records'[pack] = "none"
        /\ \A p \in Packs : p # pack =>
             records'[p] = records[p] /\ (p \in registered => p \in registered')
    BY <1>0, <1>p, <1>18 DEF Forget, At, stored
  <2>2. \A p \in Packs : Shown(p) /\ (p # pack => Known(p))
    BY <1>p, <2>1 DEF Told, Enables, Moves, At
  <2>3. ASSUME NEW p \in Packs PROVE Shown(p)' /\ Known(p)'
    <3>1. CASE p = pack
      BY <2>1, <3>1 DEF Shown, Known, ListedAsLoaded
    <3>2. CASE p # pack
      BY <1>1, <1>2, <2>1, <2>2, <3>2
    <3> QED
      BY <3>1, <3>2
  <2> QED
    BY <1>4, <2>3
<1>19. CASE Uninstalled(c)
  <2>1. /\ job[c].pc = "row" /\ UNCHANGED <<registered, records, env, modules>>
        /\ records[pack] = "none"
        /\ \A p \in Packs : p # pack => rows'[p] = rows[p]
    BY <1>0, <1>p, <1>19 DEF Uninstalled, At, InOrder, process
  <2>2. \A p \in Packs : Shown(p) /\ Known(p)
    BY <1>3, <2>1
  <2>3. ASSUME NEW p \in Packs PROVE Shown(p)' /\ Known(p)'
    <3>1. CASE p = pack
      BY <2>1, <3>1 DEF Shown, Known, ListedAsLoaded
    <3>2. CASE p # pack
      BY <1>1, <1>2, <2>1, <2>2, <3>2
    <3> QED
      BY <3>1, <3>2
  <2> QED
    BY <1>4, <2>3
<1>20. CASE CommitEnabled(c)
  <2>1. job[c].pc = "row" /\ UNCHANGED <<registered, records, env, modules>>
    BY <1>20 DEF CommitEnabled, process
  <2>2. \A p \in Packs : Shown(p) /\ Known(p)
    BY <1>3, <2>1
  <2>3. CASE UNCHANGED rows
    BY <1>5, <2>1, <2>2, <2>3
  <2>4. \A p \in Packs : Known(p)'
    BY <1>2, <2>1, <2>2
  <2>5. ASSUME rows' # rows
        PROVE  \A p \in Packs : p # pack => Shown(p)'
    <3>1. \A p \in Packs : p # pack => rows'[p] = rows[p]
      BY <1>0, <1>p, <1>20, <2>5 DEF CommitEnabled
    <3> QED
      BY <1>1, <2>1, <2>2, <3>1
  <2>6. CASE rows' # rows /\ job[c].op = "enable"
    <3>1. /\ job'[c].pc = "lookup" /\ job'[c].op = "enable" /\ job'[c].pack = pack
      BY <1>0, <1>p, <1>20, <2>6 DEF CommitEnabled, Job
    <3>2. Enables(c, pack)'
      BY <3>1 DEF Enables, At
    <3> QED
      BY <2>4, <2>5, <2>6, <3>2 DEF Told
  <2>7. CASE rows' # rows /\ job[c].op # "enable"
    <3>1. rows'[pack] = "off"
      BY <1>0, <1>p, <1>20, <2>7 DEF CommitEnabled
    <3>2. Shown(pack)'
      BY <3>1 DEF Shown, ListedAsLoaded
    <3> QED
      BY <1>4, <2>4, <2>5, <2>7, <3>2
  <2> QED
    BY <2>3, <2>6, <2>7
<1>21. CASE Drop(c)
  <2>1. /\ job[c].pc = "drop" /\ UNCHANGED <<records, rows, env, modules>> /\ rows[pack] = "off"
        /\ \A p \in Packs : p # pack => (p \in registered => p \in registered')
    BY <1>0, <1>p, <1>21 DEF Drop, At, InOrder, stored
  <2>2. \A p \in Packs : Shown(p) /\ Known(p)
    BY <1>3, <2>1
  <2>3. ASSUME NEW p \in Packs PROVE Shown(p)' /\ Known(p)'
    <3>1. CASE p = pack
      BY <1>2, <2>1, <2>2, <3>1 DEF Shown, ListedAsLoaded
    <3>2. CASE p # pack
      BY <1>1, <1>2, <2>1, <2>2, <3>2
    <3> QED
      BY <3>1, <3>2
  <2> QED
    BY <1>4, <2>3
<1> QED
  BY <1>6, <1>7, <1>8, <1>9, <1>10, <1>11, <1>12, <1>13, <1>14, <1>15, <1>16, <1>17, <1>18, <1>19, <1>20,
     <1>21 DEF Step

OneByOne == ~overlapped => \A c, d \in Busy : c = d
OrderInv == ~overlapped => \A c \in Busy : InOrder(c)
ListInv ==
  ~overlapped /\ ~restart /\ ~unseen => /\ Busy = {} => \A p \in Packs : Shown(p) /\ Known(p)
                                        /\ \A c \in Busy : Told(c)
ToldInv == OneByOne /\ OrderInv /\ ListInv

LEMMA BeginsInOrder ==
  ASSUME Typed, NEW c \in Clients, Begins(c)
  PROVE  InOrder(c)' /\ job'[c].op # "none"
         /\ UNCHANGED <<env, modules, registered, records, rows, restart, unseen>>
<1>0. job \in [Clients -> Job]
  BY JobFields
<1> DEFINE Goal == InOrder(c)' /\ job'[c].op # "none"
                   /\ UNCHANGED <<env, modules, registered, records, rows, restart, unseen>>
<1>1. ASSUME NEW j, Begin(c, j), j.op # "none", j.pc \in {"snapshot", "row", "diff"},
             j.op = "uninstall" => j.pc # "row", j.op = "enable" => records[j.pack] # "none"
      PROVE  Goal
  <2>1. job'[c] = j /\ UNCHANGED <<process, stored, unseen>>
    BY <1>0, <1>1 DEF Begin
  <2> QED
    BY <1>1, <2>1 DEF InOrder, At, process, stored
<1>2. ASSUME NEW op, NEW pc, NEW p
      PROVE  Request(op, pc, p).op = op /\ Request(op, pc, p).pc = pc /\ Request(op, pc, p).pack = p
  BY DEF Request, Idle
<1>3. CASE BeginSnapshot(c)
  BY <1>1, <1>2, <1>3 DEF BeginSnapshot
<1>4. ASSUME NEW p \in Packs, BeginUpdate(c, p) \/ BeginUninstall(c, p) \/ BeginEnable(c, p) \/ BeginDisable(c, p)
      PROVE  Goal
  BY <1>1, <1>2, <1>4 DEF BeginUpdate, BeginUninstall, BeginEnable, BeginDisable, IsListed
<1>5. ASSUME NEW p \in Packs, NEW v \in Versions, BeginInstall(c, p, v) PROVE Goal
  <2> DEFINE j == [Request("install", "snapshot", p) EXCEPT !.version = v]
  <2>1. j.op = "install" /\ j.pc = "snapshot"
    BY DEF Request, Idle
  <2>2. Begin(c, j)
    BY <1>5 DEF BeginInstall
  <2> HIDE DEF j
  <2> QED
    BY <1>1, <2>1, <2>2
<1>6. ASSUME NEW s \in 1..MaxRequests, BeginRollback(c, s) PROVE Goal
  <2> DEFINE j == [Request("rollback", "diff", 1) EXCEPT !.snapshot = s]
  <2>1. j.op = "rollback" /\ j.pc = "diff"
    BY DEF Request, Idle
  <2>2. Begin(c, j)
    BY <1>6 DEF BeginRollback
  <2> HIDE DEF j
  <2> QED
    BY <1>1, <2>1, <2>2
<1> QED
  BY <1>3, <1>4, <1>5, <1>6 DEF Begins

\* What is asked for stays asked for, and what has changed unseen stays so.
LEMMA StepKeepsAsking ==
  ASSUME Typed, NEW c \in Clients, Step(c)
  PROVE  (restart => restart') /\ (unseen => unseen')
<1>1. ((restart => restart') /\ UNCHANGED unseen) \/ UvInstalls(c) \/ UvStops(c)
  BY DEF Step, TakeSnapshot, UvFails, ListBefore, FindAdded, ImportTest, Diff, RolledBack, Recompile, SetGraph,
         RollbackRemoves, RollbackInstalls, LookUp, Load, AllLoaded, RecordSource, UvUpgrades, Updated,
         UvUninstalls, Forget, Uninstalled, CommitEnabled, Drop, observers, process
<1>2. UvInstalls(c) \/ UvStops(c) => (restart => restart') /\ (unseen => unseen')
  <2>1. unseen \in BOOLEAN
    BY DEF Typed, ProcessTyped
  <2> QED
    BY <2>1 DEF UvInstalls, UvStops, process
<1> QED
  BY <1>1, <1>2

LEMMA ToldRestart ==
  ASSUME Typed, Restart
  PROVE  ToldInv'
<1>1. Busy' = {} /\ UNCHANGED env
  BY DEF Restart, Idle, Busy
<1>2. \A p \in Packs : Fresh[p] \in {0, env[p]}
  BY DEF Fresh, Loaded
<1>3. /\ modules' = Fresh /\ records' = Discovered
      /\ registered' = {p \in Packs : Fresh[p] # 0 /\ rows[p] # "off"}
      /\ rows' = [p \in Packs |-> IF rows[p] = "none" /\ p \in EntryPoints THEN "on" ELSE rows[p]]
  BY DEF Restart
<1>4. \A p \in Packs : Discovered[p] = IF p \in EntryPoints THEN Record(p, Fresh[p]) ELSE "none"
  BY DEF Discovered
<1>5. \A p \in Packs : Shown(p)'
  BY <1>3, <1>4 DEF Shown, ListedAsLoaded, Record
<1>6. \A p \in Packs : Known(p)'
  BY <1>1, <1>2, <1>3, <1>4 DEF Known, EntryPoints
<1> QED
  BY <1>1, <1>5, <1>6 DEF ToldInv, OneByOne, OrderInv, ListInv

LEMMA ToldInvStep ==
  ASSUME Typed, Typed', ToldInv, [Next]_vars
  PROVE  ToldInv'
<1>0. /\ job \in [Clients -> Job]
      /\ \A c \in Clients : job'[c].op = "none" => job'[c].pc = "idle"
  BY DEF Typed, JobsTyped, JobIsGood
<1>1. ASSUME NEW c \in Clients, ~overlapped', \A d \in Clients \ {c} : d \notin Busy /\ job'[d] = job[d]
      PROVE  /\ Busy' \subseteq {c} /\ OneByOne'
             /\ (InOrder(c)' => OrderInv')
             /\ ((~restart' /\ ~unseen' => Told(c)') => ListInv')
  <2>1. Busy' \subseteq {c}
    BY <1>1 DEF Busy
  <2>2. c \notin Busy' => job'[c].op = "none" /\ job'[c].pc = "idle"
    BY <1>0 DEF Busy
  <2>3. c \notin Busy' => (Told(c)' => \A p \in Packs : Shown(p)' /\ Known(p)')
    BY <2>2 DEF Told, Moves, Enables, At
  <2> QED
    BY <2>1, <2>3 DEF OneByOne, OrderInv, ListInv
<1>2. ASSUME NEW c \in Clients, Begins(c) PROVE ToldInv'
  <2> SUFFICES ASSUME ~overlapped' PROVE ToldInv'
    BY DEF ToldInv, OneByOne, OrderInv, ListInv
  <2>1. ~overlapped /\ Busy = {}
    BY <1>2, BeginsAlone
  <2>2. InOrder(c)' /\ UNCHANGED <<env, modules, registered, records, rows, restart, unseen>>
    BY <1>2, BeginsInOrder
  <2>3. ~restart' /\ ~unseen' => Told(c)'
    BY <2>1, <2>2 DEF ToldInv, ListInv, Told, Shown, Known, ListedAsLoaded
  <2>4. \A d \in Clients \ {c} : d \notin Busy /\ job'[d] = job[d]
    BY <1>2, <2>1, OthersStay
  <2> QED
    BY <1>1, <2>2, <2>3, <2>4 DEF ToldInv
<1>3. ASSUME NEW c \in Clients, Step(c) PROVE ToldInv'
  <2> SUFFICES ASSUME ~overlapped' PROVE ToldInv'
    BY DEF ToldInv, OneByOne, OrderInv, ListInv
  <2>1. ~overlapped /\ c \in Busy
    BY <1>3, StepAlone
  <2>2. \A d \in Clients \ {c} : d \notin Busy /\ job'[d] = job[d]
    BY <1>3, <2>1, OthersStay DEF ToldInv, OneByOne
  <2>3. InOrder(c) /\ InOrder(c)'
    BY <1>3, <2>1, InOrderStep DEF ToldInv, OrderInv
  <2>4. ASSUME ~restart', ~unseen' PROVE Told(c)'
    <3>1. Told(c)
      BY <1>3, <2>1, <2>4, StepKeepsAsking DEF ToldInv, ListInv
    <3> QED
      BY <1>3, <2>3, <2>4, <3>1, ToldStep
  <2> QED
    BY <1>1, <2>2, <2>3, <2>4 DEF ToldInv
<1>4. CASE Restart
  BY <1>4, ToldRestart
<1>5. CASE UNCHANGED vars
  <2>1. UNCHANGED <<env, modules, registered, records, rows, restart, unseen, overlapped, job>>
    BY <1>5 DEF vars, process, stored, observers
  <2>2. OneByOne' /\ OrderInv'
    BY <2>1 DEF ToldInv, OneByOne, OrderInv, Busy, InOrder, At, EntryPoints
  <2>3. ListInv'
    BY <2>1 DEF ToldInv, ListInv, Busy, Told, Shown, Known, ListedAsLoaded, Enables, Moves, At
  <2> QED
    BY <2>2, <2>3 DEF ToldInv
<1> QED
  BY <1>2, <1>3, <1>4, <1>5 DEF Next, Begins

LEMMA ToldInit == Init => ToldInv
<1> SUFFICES ASSUME Init PROVE ToldInv
  OBVIOUS
<1>1. Busy = {}
  BY DEF Init, Idle, Busy
<1>2. \A p \in Packs : Fresh[p] \in {0, env[p]}
  BY DEF Fresh, Loaded
<1>3. /\ modules = Fresh /\ records = Discovered /\ registered = {p \in Packs : Fresh[p] # 0}
  BY DEF Init
<1>4. \A p \in Packs : Discovered[p] = IF p \in EntryPoints THEN Record(p, Fresh[p]) ELSE "none"
  BY DEF Discovered
<1>5. \A p \in Packs : Shown(p) /\ Known(p)
  BY <1>2, <1>3, <1>4 DEF Shown, ListedAsLoaded, Record, Known, EntryPoints
<1> QED
  BY <1>1, <1>5 DEF ToldInv, OneByOne, OrderInv, ListInv

LEMMA ToldInvAlways == Spec => []ToldInv
<1>1. PacksInv /\ PacksInv' /\ ToldInv /\ [Next]_vars => ToldInv'
  BY ToldInvStep DEF PacksInv
<1> QED
  BY PacksInvAlways, ToldInit, <1>1, PTL DEF Spec

\* Whoever runs code that is not the installed one is told to restart (restart_required):
\* after requests that came one after the other, whose installs and failed calls of uv
\* changed no installed pack, each pack in the registry is the installed version unless
\* the restart banner is up.
THEOREM RestartIsHonestAlways == Spec => []RestartIsHonest
<1>1. PacksInv /\ ToldInv => RestartIsHonest
  <2> SUFFICES ASSUME PacksInv, ToldInv, Busy = {}, ~overlapped, ~unseen, ~restart, NEW p \in registered
               PROVE  modules[p] = env[p]
    BY DEF RestartIsHonest
  <2>1. p \in Packs /\ modules[p] # 0 /\ records[p] # "none"
    BY DEF PacksInv, Typed, ProcessTyped
  <2>2. Known(p)
    BY <2>1 DEF ToldInv, ListInv
  <2> QED
    BY <2>1, <2>2 DEF Known
<1> QED
  BY PacksInvAlways, ToldInvAlways, <1>1, PTL

\* A pack listed as loaded (PackManager.list_packs) has its nodes in the registry, after any
\* such requests, their failures, and restarts at any point.
THEOREM ListIsTruthfulAlways == Spec => []ListIsTruthful
<1>1. ToldInv => ListIsTruthful
  BY DEF ToldInv, ListInv, Shown, ListIsTruthful
<1> QED
  BY ToldInvAlways, <1>1, PTL
=============================================================================
