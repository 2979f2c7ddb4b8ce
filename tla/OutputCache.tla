----------------------------- MODULE OutputCache -----------------------------
(***************************************************************************)
(* The output cache of a workspace                                         *)
(* (backend/src/astro_canvas/engine/cache.py): a memory LRU in front of an *)
(* index of rows (key, port) -> digest and a directory of content-addressed*)
(* blobs.                                                                  *)
(*                                                                         *)
(* Lookups, stores, adoptions and the garbage collector run on the event   *)
(* loop, one at a time; the worker processes (engine/worker.py) read and   *)
(* write the blob directory whenever they like, also while the collector   *)
(* is between two of its deletions.  A crash loses the memory, the jobs    *)
(* and whatever step the loop was in; the next start collects garbage.     *)
(***************************************************************************)
EXTENDS Integers, Sequences, FiniteSets, SequencesExt, FiniteSetsExt

CONSTANTS
  Keys,       \* cache keys
  Digests,    \* blob digests
  Content,    \* Content[k]: the digest of each output port of the node keyed k
  AnyPorts,   \* AnyPorts[k]: its ports whose value cannot be written as a blob
  Needs,      \* Needs[k]: the keys whose blobs a process job for k reads
  ProcessKeys,\* keys computed in a worker process (the others on a thread)
  Weight,     \* bytes of k's outputs in memory when computed here
  MemMax,     \* MemoryLRU.max_bytes
  DiskMax,    \* OutputCache.max_disk_bytes, a blob counting one
  MaxCrashes  \* bound on crashes

NoOutputs == "$none"
Ports(k) == DOMAIN Content[k]
Port == UNION {Ports(k) : k \in Keys}
Blobbable(k) == Ports(k) \ AnyPorts[k]

ASSUME CacheAssumption ==
  /\ \A k \in Keys : /\ Content[k] \in [Ports(k) -> Digests]
                     /\ NoOutputs \notin Ports(k)
                     /\ AnyPorts[k] \subseteq Ports(k)
                     /\ Needs[k] \subseteq Keys
                     /\ Weight[k] \in Nat \ {0}
  /\ ProcessKeys \subseteq Keys
  /\ MemMax \in Nat /\ DiskMax \in Nat /\ MaxCrashes \in Nat

VARIABLES
  lru,     \* MemoryLRU._items, least recently used first
  nbytes,  \* MemoryLRU._bytes
  rows,    \* the outputs table: the ports indexed under each key
  used,    \* the indexed keys, least recently used first (Output.last_used)
  blobs,   \* digests on disk
  job,     \* the worker job of each process key
  gc,      \* the collector: what it has left to delete; fresh, an observer: what
           \* workers wrote since it began to delete
  lost,    \* observer: keys whose rows were indexed although a blob was gone
  crashes

vars == <<lru, nbytes, rows, used, blobs, job, gc, lost, crashes>>

Entry == [key : Keys, ports : SUBSET Port, size : Nat]
WorkerJob == [ph : {"off", "sent", "writing"}, left : SUBSET Port]
Collector == [ph : {"off", "open", "evicted", "delete"},
              doomed : SUBSET Digests, fresh : SUBSET Digests]
NoJob == [ph |-> "off", left |-> {}]
Idle == [ph |-> "off", doomed |-> {}, fresh |-> {}]

OnLoop == gc.ph = "off"
Row(k, p) == Content[k][p]
DataPorts(k) == rows[k] \ {NoOutputs}
Referenced == UNION {{Row(k, p) : p \in DataPorts(k)} : k \in Keys}
OnDisk(k) == \A p \in DataPorts(k) : Row(k, p) \in blobs
-----------------------------------------------------------------------------
(* MemoryLRU *)

InMemory(k) == \E i \in DOMAIN lru : lru[i].key = k
Place(k) == CHOOSE i \in DOMAIN lru : lru[i].key = k
Held(k) == IF InMemory(k) THEN lru[Place(k)].size ELSE 0
Others(k) == IF InMemory(k) THEN RemoveAt(lru, Place(k)) ELSE lru

SizeOf(s) ==
  LET total[n \in 0..Len(s)] == IF n = 0 THEN 0 ELSE total[n - 1] + s[n].size
  IN total[Len(s)]

\* The oldest entries make room until the account fits or one entry is left.
Shrunk(s, b) ==
  LET n == Min({i \in 0..(Len(s) - 1) : \/ b - SizeOf(SubSeq(s, 1, i)) <= MemMax
                                        \/ i = Len(s) - 1})
  IN [items |-> SubSeq(s, n + 1, Len(s)), bytes |-> b - SizeOf(SubSeq(s, 1, n))]

\* Mutant of MemoryPut: an entry that is replaced keeps its bytes on the account.
MemoryPutTwice(k, ports, size) ==
  LET rest == Others(k)
      kept == IF size > MemMax THEN [items |-> rest, bytes |-> nbytes]
              ELSE Shrunk(Append(rest, [key |-> k, ports |-> ports, size |-> size]),
                          nbytes + size)
  IN lru' = kept.items /\ nbytes' = kept.bytes

\* put replaces the entry; a value that outweighs the whole cache is not kept.
MemoryPut(k, ports, size) ==
  LET rest == Others(k)
      bytes == nbytes - Held(k)
      kept == IF size > MemMax THEN [items |-> rest, bytes |-> bytes]
              ELSE Shrunk(Append(rest, [key |-> k, ports |-> ports, size |-> size]),
                          bytes + size)
  IN lru' = kept.items /\ nbytes' = kept.bytes

MemoryGet(k) == /\ lru' = Append(Others(k), lru[Place(k)])
                /\ UNCHANGED nbytes
-----------------------------------------------------------------------------
Init ==
  /\ lru = <<>> /\ nbytes = 0
  /\ rows = [k \in Keys |-> {}] /\ used = <<>>
  /\ blobs = {}
  /\ job = [k \in Keys |-> NoJob]
  /\ gc = Idle /\ lost = {} /\ crashes = 0

\* The order of use without k.
Unused(k) ==
  IF \E i \in DOMAIN used : used[i] = k
  THEN RemoveAt(used, CHOOSE i \in DOMAIN used : used[i] = k) ELSE used
Touch(k) == used' = Append(Unused(k), k)
Indexed(k, ports) == /\ rows' = [rows EXCEPT ![k] = @ \cup ports]
                     /\ Touch(k)

Forget(k) == /\ rows' = [rows EXCEPT ![k] = {}]
             /\ used' = Unused(k)
             /\ lost' = lost \ {k}

\* lookup: from memory, else from disk, else nothing; rows with a blob missing
\* are forgotten.  A value read back is memory-mapped and weighs little.
LookupMemory(k) ==
  /\ OnLoop /\ InMemory(k)
  /\ MemoryGet(k)
  /\ UNCHANGED <<rows, used, blobs, job, gc, lost, crashes>>

LookupDisk(k) ==
  /\ OnLoop /\ ~InMemory(k) /\ rows[k] # {} /\ OnDisk(k)
  /\ Touch(k)
  /\ MemoryPut(k, DataPorts(k), 1)
  /\ UNCHANGED <<rows, blobs, job, gc, lost, crashes>>

LookupDangling(k) ==
  /\ OnLoop /\ ~InMemory(k) /\ rows[k] # {} /\ ~OnDisk(k)
  /\ Forget(k)
  /\ UNCHANGED <<lru, nbytes, blobs, job, gc, crashes>>

\* store: memory first, then one blob per serializable output, then the rows in
\* one transaction; a node without outputs leaves a marker row.
StoredRows(k) == IF Ports(k) = {} THEN {NoOutputs} ELSE Blobbable(k)

Store(k) ==
  /\ OnLoop
  /\ k \notin ProcessKeys
  /\ MemoryPut(k, Ports(k), Weight[k])
  /\ blobs' = blobs \cup {Row(k, p) : p \in Blobbable(k)}
  /\ IF StoredRows(k) # {} THEN Indexed(k, StoredRows(k)) ELSE UNCHANGED <<rows, used>>
  /\ lost' = IF StoredRows(k) # {} THEN lost \ {k} ELSE lost
  /\ UNCHANGED <<job, gc, crashes>>
-----------------------------------------------------------------------------
(* Worker processes *)

\* _process_refs: every input must be indexed; nobody looks for its blobs.
StartJob(k) ==
  /\ OnLoop
  /\ k \in ProcessKeys /\ job[k].ph = "off"
  /\ \A u \in Needs[k] : DataPorts(u) # {}
  /\ job' = [job EXCEPT ![k] = [ph |-> "sent", left |-> {}]]
  /\ UNCHANGED <<lru, nbytes, rows, used, blobs, gc, lost, crashes>>

\* run_job: rehydrate the inputs; a blob collected meanwhile fails the node.
JobReads(k) ==
  /\ job[k].ph = "sent"
  /\ job' = [job EXCEPT ![k] =
               IF \A u \in Needs[k] : \A p \in Blobbable(u) : Row(u, p) \in blobs
               THEN [ph |-> "writing", left |-> Ports(k)] ELSE NoJob]
  /\ UNCHANGED <<lru, nbytes, rows, used, blobs, gc, lost, crashes>>

\* BlobStore.put, one output at a time; a value that is no blob fails the node.
JobWrites(k) ==
  /\ job[k].ph = "writing"
  /\ \E p \in job[k].left :
       IF p \in AnyPorts[k]
       THEN /\ job' = [job EXCEPT ![k] = NoJob]
            /\ UNCHANGED <<blobs, gc>>
       ELSE /\ job' = [job EXCEPT ![k].left = @ \ {p}]
            /\ blobs' = blobs \cup {Row(k, p)}
            /\ gc' = IF gc.ph = "delete" THEN [gc EXCEPT !.fresh = @ \cup {Row(k, p)}] ELSE gc
  /\ UNCHANGED <<lru, nbytes, rows, used, lost, crashes>>

\* Mutant of Adopt: the outputs whose blobs are left are taken for all of them.
AdoptLeftovers(k) ==
  /\ OnLoop
  /\ job[k].ph = "writing" /\ job[k].left = {}
  /\ IF Ports(k) # {} THEN Indexed(k, Ports(k)) ELSE UNCHANGED <<rows, used>>
  /\ MemoryPut(k, {p \in Ports(k) : Row(k, p) \in blobs}, 1)
  /\ UNCHANGED lost
  /\ job' = [job EXCEPT ![k] = NoJob]
  /\ UNCHANGED <<blobs, gc, crashes>>

\* adopt: the rows are written before the blobs are read back; if one is gone
\* the node fails with KeyError and the rows stay.  Without outputs there is
\* no row, not even the marker.
Adopt(k) ==
  /\ OnLoop
  /\ job[k].ph = "writing" /\ job[k].left = {}
  /\ IF Ports(k) # {} THEN Indexed(k, Ports(k)) ELSE UNCHANGED <<rows, used>>
  /\ IF \A p \in Ports(k) : Row(k, p) \in blobs
     THEN /\ MemoryPut(k, Ports(k), 1)
          /\ lost' = lost \ {k}
     ELSE /\ UNCHANGED <<lru, nbytes>>
          /\ lost' = lost \cup {k}
  /\ job' = [job EXCEPT ![k] = NoJob]
  /\ UNCHANGED <<blobs, gc, crashes>>

\* Cancelling the node kills the worker wherever it is.
KillJob(k) ==
  /\ job[k].ph # "off"
  /\ job' = [job EXCEPT ![k] = NoJob]
  /\ UNCHANGED <<lru, nbytes, rows, used, blobs, gc, lost, crashes>>
-----------------------------------------------------------------------------
(* The garbage collector *)

RowCount(S) == Cardinality(UNION {{k} \X DataPorts(k) : k \in S})
Newest(n) == ToSet(SubSeq(used, n + 1, Len(used)))

\* evict drops the keys beyond the age limit (the oldest `old` ones), then the
\* least recently used until the rest fits; returns how many went.
Evicted(old) == Min({n \in old..Len(used) : RowCount(Newest(n)) <= DiskMax})

\* Mutant of GcEvict: the age limit only.
GcEvictByAge ==
  /\ gc.ph \in {"open", "off"}
  /\ gc.ph = "off" => RowCount(Newest(0)) > DiskMax
  /\ \E old \in 0..Len(used) :
       LET gone == ToSet(used) \ Newest(old)
       IN /\ rows' = [k \in Keys |-> IF k \in gone THEN {} ELSE rows[k]]
          /\ used' = SubSeq(used, old + 1, Len(used))
          /\ lost' = lost \ gone
  /\ gc' = [Idle EXCEPT !.ph = "evicted"]
  /\ UNCHANGED <<lru, nbytes, blobs, job, crashes>>

\* _after_run collects when the index outgrew the limit, opening a workspace always.
GcEvict ==
  /\ gc.ph \in {"open", "off"}
  /\ gc.ph = "off" => RowCount(Newest(0)) > DiskMax
  /\ \E old \in 0..Len(used) :
       LET gone == ToSet(used) \ Newest(Evicted(old))
       IN /\ rows' = [k \in Keys |-> IF k \in gone THEN {} ELSE rows[k]]
          /\ used' = SubSeq(used, Evicted(old) + 1, Len(used))
          /\ lost' = lost \ gone
  /\ gc' = [Idle EXCEPT !.ph = "evicted"]
  /\ UNCHANGED <<lru, nbytes, blobs, job, crashes>>

\* Mutant of GcScan: spares the blobs of the keys in memory, not of the rows.
GcScanMemory ==
  /\ gc.ph = "evicted"
  /\ gc' = [ph |-> "delete", fresh |-> {},
            doomed |-> blobs \ UNION {{Row(k, p) : p \in DataPorts(k)} :
                                        k \in {j \in Keys : InMemory(j)}}]
  /\ UNCHANGED <<lru, nbytes, rows, used, blobs, job, lost, crashes>>

\* The blobs no row references, listed before the first is deleted.
GcScan ==
  /\ gc.ph = "evicted"
  /\ gc' = [ph |-> "delete", fresh |-> {}, doomed |-> blobs \ Referenced]
  /\ UNCHANGED <<lru, nbytes, rows, used, blobs, job, lost, crashes>>

GcDelete ==
  /\ gc.ph = "delete"
  /\ \E d \in gc.doomed : /\ gc' = [gc EXCEPT !.doomed = @ \ {d}]
                          /\ blobs' = blobs \ {d}
  /\ UNCHANGED <<lru, nbytes, rows, used, job, lost, crashes>>

GcEnd ==
  /\ gc.ph = "delete" /\ gc.doomed = {}
  /\ gc' = Idle
  /\ UNCHANGED <<lru, nbytes, rows, used, blobs, job, lost, crashes>>
-----------------------------------------------------------------------------
\* The server dies, in the middle of a store perhaps, and is started again; the
\* index commits in one piece and blobs appear by atomic rename.
Crash ==
  /\ crashes < MaxCrashes
  /\ crashes' = crashes + 1
  /\ lru' = <<>> /\ nbytes' = 0
  /\ job' = [k \in Keys |-> NoJob]
  /\ gc' = [Idle EXCEPT !.ph = "open"]
  /\ \E k \in Keys \ ProcessKeys : \E S \in SUBSET Blobbable(k) :
       blobs' = IF OnLoop THEN blobs \cup {Row(k, p) : p \in S} ELSE blobs
  /\ UNCHANGED <<rows, used, lost>>

Collect == GcEvict \/ GcScan \/ GcDelete \/ GcEnd
Job(k) == StartJob(k) \/ JobReads(k) \/ JobWrites(k) \/ Adopt(k) \/ KillJob(k)
Use(k) == LookupMemory(k) \/ LookupDisk(k) \/ LookupDangling(k) \/ Store(k)

Next == Collect \/ Crash \/ \E k \in Keys : Use(k) \/ Job(k)

Spec == Init /\ [][Next]_vars
-----------------------------------------------------------------------------
(* Properties *)

TypeOK ==
  /\ lru \in Seq(Entry) /\ nbytes \in Int
  /\ rows \in [Keys -> SUBSET (Port \cup {NoOutputs})]
  /\ \A k \in Keys : rows[k] \subseteq Ports(k) \cup {NoOutputs}
  /\ used \in Seq(Keys)
  /\ blobs \subseteq Digests
  /\ job \in [Keys -> WorkerJob]
  /\ \A k \in Keys : job[k].left \subseteq Ports(k)
  /\ gc \in Collector
  /\ lost \subseteq Keys /\ crashes \in 0..MaxCrashes

\* The account of the memory cache is exact and within its limit, whatever is
\* replaced, read back memory-mapped, too large to keep or pushed out (MemoryLRU).
MemoryAccount ==
  /\ nbytes = SizeOf(lru)
  /\ nbytes <= MemMax
  /\ \A i, j \in DOMAIN lru : lru[i].key = lru[j].key => i = j

\* What a lookup answers is all that was stored under the key, or nothing: never
\* the outputs whose blobs happen to be left, nor a leftover of a failed adoption.
LookupWholeOrNothing ==
  \A k \in Keys :
    /\ \A i \in DOMAIN lru : lru[i].key = k => lru[i].ports = Ports(k)
    /\ rows[k] # {} /\ OnDisk(k) => DataPorts(k) = Ports(k)

\* The collector never takes a blob from under a row: a row points nowhere only
\* after an adoption that came too late, whatever the workers write meanwhile.
DanglingOnlyFromAdopt ==
  \A k \in Keys : ~OnDisk(k) => k \in lost

\* A finished collection leaves nothing unreferenced but what workers wrote while
\* it deleted, and no more rows than the disk limit allows -- also after a crash in
\* the middle of a store or of an earlier collection.
CollectionIsExact ==
  [][(gc.ph = "delete" /\ gc'.ph = "off")
     => blobs \ gc.fresh \subseteq Referenced /\ RowCount(Keys) <= DiskMax]_vars
=============================================================================
