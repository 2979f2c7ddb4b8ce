------------------------- MODULE WorkspaceFilesProofs -------------------------
(***************************************************************************)
(* What TLAPS proves of WorkspaceFiles for every number of uploads,        *)
(* requests, blocks and outside events.                                    *)
(*                                                                         *)
(* The argument: a modification time names one content of one file.  What  *)
(* the index, a hashing thread, the loader's key and its cached outputs    *)
(* have seen is a time that no later write gives again, and that no part   *)
(* file still waiting for its name has.  So if the file behind a name has  *)
(* a time that was seen before, it was there before, with this content.    *)
(***************************************************************************)
EXTENDS WorkspaceFiles, SequenceTheorems, TLAPS

-----------------------------------------------------------------------------
(* Writing to a file *)

File == [blocks : Seq(Nat), mtime : Nat, by : Nat]

LEMMA WholeType == ASSUME NEW w \in Nat PROVE Whole(w) \in Seq(Nat)
<1>1. Size \in Nat
  BY FilesAssumption
<1> QED
  BY <1>1 DEF Whole

LEMMA WithBlockType ==
  ASSUME NEW blocks \in Seq(Nat), NEW at \in Nat \ {0}, NEW b \in Nat
  PROVE  WithBlock(blocks, at, b) \in Seq(Nat)
<1> DEFINE len == IF at > Len(blocks) THEN at ELSE Len(blocks)
<1>1. len \in Nat
  OBVIOUS
<1>2. \A k \in 1..len : (IF k = at THEN b ELSE IF k <= Len(blocks) THEN blocks[k] ELSE Hole) \in Nat
  BY DEF Hole
<1>3. WithBlock(blocks, at, b) = [k \in 1..len |-> IF k = at THEN b
                                    ELSE IF k <= Len(blocks) THEN blocks[k] ELSE Hole]
  BY DEF WithBlock
<1> HIDE DEF len
<1> QED
  BY <1>1, <1>2, <1>3

LEMMA FileAt ==
  ASSUME files \in Seq(File), NEW f \in 1..Len(files)
  PROVE  /\ files[f].blocks \in Seq(Nat) /\ files[f].mtime \in Nat /\ files[f].by \in Nat
         /\ Len(files[f].blocks) \in Nat
<1>1. files[f] \in File
  OBVIOUS
<1> QED
  BY <1>1 DEF File

\* A write gives its file the clock's next time and leaves the others alone.
LEMMA WroteFiles ==
  ASSUME files \in Seq(File), clock \in Nat,
         NEW f \in 1..(Len(files) + 1), NEW blocks \in Seq(Nat), NEW by \in Nat,
         Wrote(f, blocks, by)
  PROVE  /\ files' \in Seq(File) /\ clock' = clock + 1
         /\ Len(files') = IF f = Len(files) + 1 THEN f ELSE Len(files)
         /\ files'[f] = [blocks |-> blocks, mtime |-> clock + 1, by |-> by]
         /\ \A g \in 1..Len(files) : g # f => files'[g] = files[g]
<1> DEFINE file == [blocks |-> blocks, mtime |-> clock + 1, by |-> by]
<1>1. file \in File
  BY DEF File
<1>2. clock' = clock + 1 /\ files' = IF f \in DOMAIN files THEN [files EXCEPT ![f] = file] ELSE Append(files, file)
  BY DEF Wrote
<1>3. DOMAIN files = 1..Len(files) /\ Len(files) \in Nat
  OBVIOUS
<1> HIDE DEF file
<1>4. CASE f \in DOMAIN files
  <2>1. files' = [files EXCEPT ![f] = file] /\ f # Len(files) + 1
    BY <1>2, <1>3, <1>4
  <2>2. files' \in Seq(File) /\ Len(files') = Len(files)
    BY <2>1, <1>1, <1>3, ExceptSeq
  <2>3. files'[f] = file /\ \A g \in 1..Len(files) : g # f => files'[g] = files[g]
    BY <2>1, <1>3, <1>4
  <2> QED
    BY <2>1, <2>2, <2>3, <1>2 DEF file
<1>5. CASE f \notin DOMAIN files
  <2>1. f = Len(files) + 1
    BY <1>3, <1>5
  <2>2. files' = Append(files, file)
    BY <1>2, <1>5
  <2>3. files' \in Seq(File) /\ Len(files') = Len(files) + 1
    BY <2>2, <1>1, AppendProperties
  <2>4. files'[f] = file /\ \A g \in 1..Len(files) : files'[g] = files[g]
    BY <2>1, <2>2, <1>1, AppendProperties
  <2> QED
    BY <2>1, <2>3, <2>4, <1>2 DEF file
<1> QED
  BY <1>4, <1>5

-----------------------------------------------------------------------------
(* The invariant *)

Row == [mtime : Nat, size : Nat, hash : Seq(Nat)]
Handler == [ph : {"none", "writing", "done", "refused"}, overwrites : BOOLEAN,
            chunked : BOOLEAN, name : Name, file : Nat, sent : Nat]
InfoCall == [ph : {"none", "stat", "look", "read", "over"}, name : Name, mtime : Nat,
             size : Nat, file : Nat, got : Seq(Nat)]
Key == Nat \X Nat

DiskTyped ==
  /\ clock \in Nat /\ files \in Seq(File) /\ disk \in [Name -> Nat] /\ events \in Nat
  /\ \A n \in Name : disk[n] <= Len(files)
  /\ \A f \in 1..Len(files) : files[f].mtime \in 1..clock
  /\ \A f, g \in 1..Len(files) : files[f].mtime = files[g].mtime => f = g

UploadTyped ==
  /\ upload \in [Upload -> Handler]
  /\ \A u \in Upload : upload[u].ph = "writing" =>
       /\ upload[u].file \in 1..Len(files)
       /\ upload[u].overwrites \/ files[upload[u].file].by = u

ReaderTyped ==
  /\ index \in [Name -> Row]
  /\ info \in [Reader -> InfoCall]
  /\ \A r \in Reader : info[r].ph = "read" => info[r].file \in 1..Len(files)
  /\ \A r \in Reader : info[r].ph \in {"stat", "look"} => info[r].got = <<>>

LoaderTyped ==
  /\ loader \in [ph : {"dirty", "loading", "done", "error"}, key : Key, file : Nat, got : Seq(Nat)]
  /\ loader.ph = "loading" => loader.file \in 1..Len(files)
  /\ loader.ph # "loading" => loader.got = <<>>
  /\ DOMAIN cache \subseteq Key

\* The times that have been seen of files behind names.
Seen(t) ==
  \/ \E n \in Name : index[n].mtime = t
  \/ \E r \in Reader : info[r].mtime = t
  \/ loader.key[1] = t
  \/ \E k \in DOMAIN cache : k[1] = t

\* A part waits for its name: nobody else writes to it and nobody has seen it.
IsPart(u) == upload[u].ph = "writing" /\ upload[u].chunked

Hidden(u) ==
  /\ \A n \in Name : disk[n] # upload[u].file
  /\ \A v \in Upload \ {u} : upload[v].ph = "writing" => upload[v].file # upload[u].file
  /\ ~Seen(files[upload[u].file].mtime)

PartsHidden == \A u \in Upload : IsPart(u) => Hidden(u)

SeenIsPast == \A t \in Nat : Seen(t) => t <= clock

\* What has been read is what is there, as far as it has been read.
Prefix(got, blocks) == Len(got) <= Len(blocks) /\ \A k \in 1..Len(got) : got[k] = blocks[k]
Holds(n, t) == disk[n] # NoFile /\ files[disk[n]].mtime = t

RowsTrue ==
  \A n \in Name : Holds(n, index[n].mtime) /\ index[n].size = Len(Content(n)) =>
    index[n].hash = Content(n)
ReadersTrue ==
  \A r \in Reader : info[r].ph = "read" /\ Holds(info[r].name, info[r].mtime) =>
    info[r].file = disk[info[r].name] /\ Prefix(info[r].got, Content(info[r].name))
LoaderTrue ==
  loader.ph = "loading" /\ Holds(0, loader.key[1]) =>
    loader.file = disk[0] /\ Prefix(loader.got, Content(0))
CacheTrue ==
  \A k \in DOMAIN cache : Holds(0, k[1]) /\ k[2] = Len(Content(0)) => cache[k] = Content(0)

Typed == DiskTyped /\ UploadTyped /\ ReaderTyped /\ LoaderTyped
FilesInv == Typed /\ PartsHidden /\ SeenIsPast /\ RowsTrue /\ ReadersTrue /\ LoaderTrue /\ CacheTrue

LEMMA NamesAndNumbers ==
  /\ 0 \in Name /\ Name \subseteq Nat /\ Upload \subseteq Nat \ {0} /\ NumUploads \in Nat
  /\ \A u \in Upload : u \in Reader
BY FilesAssumption DEF Name, Upload, Reader

-----------------------------------------------------------------------------
(* What a step does to the files *)

FilesKept == UNCHANGED <<disk, files, clock>>

\* A file is written; a name that led to none may now lead to it, if it is new.
FileWritten ==
  \E f \in 1..(Len(files) + 1), blocks \in Seq(Nat), by \in Nat :
    /\ Wrote(f, blocks, by)
    /\ f <= Len(files) => files[f].by = by
    /\ \A n \in Name : disk'[n] = disk[n] \/ (f = Len(files) + 1 /\ disk[n] = NoFile /\ disk'[n] = f)

\* A part takes a name, or a name is unlinked.
FileNamed ==
  /\ UNCHANGED <<files, clock>>
  /\ \E u \in Upload, n \in Name :
       IsPart(u) /\ upload'[u].ph # "writing" /\ disk' = [disk EXCEPT ![n] = upload[u].file]
FileUnlinked ==
  /\ UNCHANGED <<files, clock>>
  /\ \E n \in Name : disk' = [disk EXCEPT ![n] = NoFile]

DiskStep == /\ FilesKept \/ FileWritten \/ FileNamed \/ FileUnlinked
            /\ disk' \in [Name -> Nat]

LEMMA OpenedIsWritten ==
  ASSUME Typed, NEW n \in Name, NEW blocks \in Seq(Nat), NEW u \in Nat,
         disk' = [disk EXCEPT ![n] = Opened(n)],
         Wrote(Opened(n), blocks, MakerOf(Opened(n), u))
  PROVE  DiskStep
<1> DEFINE f == Opened(n)
<1>1. f \in 1..(Len(files) + 1) /\ Len(files) \in Nat /\ DOMAIN files = 1..Len(files)
  BY DEF Typed, DiskTyped, Opened, NoFile
<1>2. MakerOf(f, u) \in Nat
  <2>1. \A g \in DOMAIN files : files[g].by \in Nat
    BY <1>1, FileAt DEF Typed, DiskTyped
  <2> HIDE DEF f
  <2> QED
    BY <1>1, <2>1 DEF MakerOf
<1>3. f <= Len(files) => files[f].by = MakerOf(f, u)
  BY <1>1 DEF MakerOf
<1>4. \A m \in Name : disk'[m] = disk[m] \/ (f = Len(files) + 1 /\ disk[m] = NoFile /\ disk'[m] = f)
  BY <1>1 DEF Opened, Typed, DiskTyped
<1>5. disk' \in [Name -> Nat]
  BY <1>1 DEF Typed, DiskTyped
<1> HIDE DEF f
<1>6. Wrote(f, blocks, MakerOf(f, u))
  BY DEF f
<1> QED
  BY <1>1, <1>2, <1>3, <1>4, <1>5, <1>6 DEF DiskStep, FileWritten

LEMMA DiskSteps ==
  ASSUME Typed, [Next]_vars
  PROVE  DiskStep
<1>0. /\ disk \in [Name -> Nat] /\ files \in Seq(File) /\ Len(files) \in Nat /\ events \in Nat
      /\ 0 \in Name /\ Name \subseteq Nat /\ Upload \subseteq Nat \ {0}
      /\ <<>> \in Seq(Nat)
  BY NamesAndNumbers DEF Typed, DiskTyped
<1>1. ASSUME FilesKept PROVE DiskStep
  BY <1>0, <1>1 DEF DiskStep, FilesKept
<1>2. ASSUME NEW u \in Upload, NEW c \in OnConflict, BeginUpload(u, c) PROVE DiskStep
  <2>1. CASE FilesKept
    BY <1>1, <2>1
  <2>2. CASE \E n \in FinalTarget(c) : /\ disk' = [disk EXCEPT ![n] = Opened(n)]
                                       /\ Wrote(Opened(n), <<>>, MakerOf(Opened(n), u))
    <3>1. FinalTarget(c) \subseteq Name
      BY <1>0 DEF FinalTarget, FirstFree
    <3> QED
      BY <1>0, <2>2, <3>1, OpenedIsWritten
  <2> QED
    BY <1>2, <2>1, <2>2 DEF BeginUpload, FilesKept
<1>3. ASSUME NEW u \in Upload, BeginChunks(u) PROVE DiskStep
  <2>1. Wrote(Len(files) + 1, <<>>, u) /\ disk' = disk
    BY <1>3 DEF BeginChunks
  <2>2. FileWritten
    BY <1>0, <2>1 DEF FileWritten
  <2> QED
    BY <1>0, <2>1, <2>2 DEF DiskStep
<1>4. ASSUME NEW u \in Upload, WriteBlock(u) PROVE DiskStep
  <2> DEFINE f == upload[u].file
             blocks == WithBlock(files[f].blocks, upload[u].sent + 1, u)
  <2>1. f \in 1..Len(files) /\ files[f] \in File /\ upload[u].sent + 1 \in Nat \ {0} /\ u \in Nat
    BY <1>0, <1>4 DEF WriteBlock, Typed, UploadTyped, Handler
  <2>2. blocks \in Seq(Nat) /\ files[f].by \in Nat
    BY <2>1, WithBlockType DEF File
  <2>3. Wrote(f, blocks, files[f].by) /\ disk' = disk
    BY <1>4 DEF WriteBlock
  <2> HIDE DEF f, blocks
  <2>4. FileWritten
    BY <1>0, <2>1, <2>2, <2>3 DEF FileWritten
  <2> QED
    BY <1>0, <2>3, <2>4 DEF DiskStep
<1>5. ASSUME NEW u \in Upload, EndUpload(u) PROVE DiskStep
  BY <1>1, <1>5 DEF EndUpload, FilesKept
<1>6. ASSUME NEW u \in Upload, NEW c \in OnConflict, EndChunks(u, c) PROVE DiskStep
  <2>1. FinalTarget(c) \subseteq Name
    BY <1>0 DEF FinalTarget, FirstFree
  <2>2. FilesKept \/ FileNamed
    <3>1. CASE FinalTarget(c) = {}
      BY <1>6, <3>1 DEF EndChunks, EndChunksAt, FilesKept
    <3>2. CASE FinalTarget(c) # {}
      <4>1. PICK n \in FinalTarget(c) : disk' = [disk EXCEPT ![n] = upload[u].file] /\ Answering(u, n, c = "overwrite")
        BY <1>6, <3>2 DEF EndChunks, EndChunksAt
      <4>2. upload'[u].ph # "writing"
        BY <4>1 DEF Answering, Over, NoUpload, Typed, UploadTyped
      <4> QED
        BY <1>6, <2>1, <4>1, <4>2 DEF EndChunks, EndChunksAt, FileNamed, IsPart
    <3> QED
      BY <3>1, <3>2
  <2>3. disk' \in [Name -> Nat]
    BY <1>0, <1>6, <2>1 DEF EndChunks, EndChunksAt, Typed, UploadTyped, Handler
  <2> QED
    BY <2>2, <2>3 DEF DiskStep
<1>7. ASSUME NEW n \in Name, Delete(n) PROVE DiskStep
  BY <1>0, <1>7 DEF Delete, DiskStep, FileUnlinked, NoFile
<1>8. ASSUME OutsideWrite PROVE DiskStep
  <2>1. Whole(NumUploads + 2 + events) \in Seq(Nat)
    BY <1>0, NamesAndNumbers, WholeType
  <2> QED
    BY <1>0, <1>8, <2>1, OpenedIsWritten DEF OutsideWrite
<1>9. ASSUME OutsideRemove PROVE DiskStep
  BY <1>0, <1>9 DEF OutsideRemove, DiskStep, FileUnlinked, NoFile
<1>10. ASSUME NEW r \in Reader, NEW n \in Name, RequestInfo(r, n) PROVE DiskStep
  BY <1>1, <1>10 DEF RequestInfo, FilesKept
<1>11. ASSUME NEW r \in Reader, InfoStat(r) \/ InfoLook(r) \/ InfoRead(r) \/ InfoRemember(r)
       PROVE  DiskStep
  BY <1>1, <1>11 DEF InfoStat, InfoLook, InfoRead, InfoRemember, FilesKept
<1>12. ASSUME Edit \/ Run \/ LoadRead \/ LoadDone PROVE DiskStep
  BY <1>1, <1>12 DEF Edit, Run, LoadRead, LoadDone, FilesKept
<1>13. ASSUME UNCHANGED vars PROVE DiskStep
  BY <1>1, <1>13 DEF vars, FilesKept
<1> QED
  BY <1>2, <1>3, <1>4, <1>5, <1>6, <1>7, <1>8, <1>9, <1>10, <1>11, <1>12, <1>13 DEF Next, UploadStep

\* If after a step the file behind a name has a time that was seen before the step, it was
\* behind that name already and has not changed.
LEMMA SeenIsUnchanged ==
  ASSUME Typed, PartsHidden, SeenIsPast, DiskStep,
         NEW n \in Name, NEW t \in Nat, Seen(t), Holds(n, t)'
  PROVE  Holds(n, t) /\ disk'[n] = disk[n] /\ Content(n)' = Content(n)
<1>0. /\ disk \in [Name -> Nat] /\ files \in Seq(File) /\ Len(files) \in Nat /\ clock \in Nat
      /\ t <= clock /\ disk'[n] # 0 /\ files'[disk'[n]].mtime = t
      /\ disk[n] # 0 => disk[n] \in 1..Len(files)
  BY DEF Typed, DiskTyped, SeenIsPast, Holds, NoFile
<1>1. CASE FilesKept
  BY <1>0, <1>1 DEF FilesKept, Holds, Content
<1>2. CASE FileUnlinked
  BY <1>0, <1>2 DEF FileUnlinked, Holds, Content, NoFile
<1>3. CASE FileNamed
  <2>1. PICK u \in Upload, m \in Name : IsPart(u) /\ disk' = [disk EXCEPT ![m] = upload[u].file]
    BY <1>3 DEF FileNamed
  <2>2. n # m
    BY <1>0, <1>3, <2>1 DEF FileNamed, PartsHidden, Hidden
  <2> QED
    BY <1>0, <1>3, <2>1, <2>2 DEF FileNamed, Holds, Content, NoFile
<1>4. CASE FileWritten
  <2>1. PICK f \in 1..(Len(files) + 1), blocks \in Seq(Nat), by \in Nat :
          /\ Wrote(f, blocks, by)
          /\ disk'[n] = disk[n] \/ (f = Len(files) + 1 /\ disk[n] = NoFile /\ disk'[n] = f)
    BY <1>4 DEF FileWritten
  <2>2. /\ files'[f] = [blocks |-> blocks, mtime |-> clock + 1, by |-> by]
        /\ \A g \in 1..Len(files) : g # f => files'[g] = files[g]
    <3>1. Wrote(f, blocks, by)
      BY <2>1
    <3> QED
      BY <1>0, <3>1, WroteFiles
  <2>3. disk'[n] # f
    BY <1>0, <2>2
  <2>4. disk'[n] = disk[n] /\ files'[disk[n]] = files[disk[n]]
    BY <1>0, <2>1, <2>2, <2>3
  <2> QED
    BY <1>0, <2>4 DEF Holds, Content, NoFile
<1> QED
  BY <1>1, <1>2, <1>3, <1>4 DEF DiskStep

\* Files stay, keep their maker, and change only to the clock's next time.
LEMMA FilesGrow ==
  ASSUME Typed, DiskStep
  PROVE  /\ Len(files') \in Nat /\ Len(files) <= Len(files') /\ files' \in Seq(File)
         /\ clock' \in Nat /\ clock <= clock'
         /\ \A g \in 1..Len(files) :
              /\ files'[g].by = files[g].by
              /\ files'[g] = files[g] \/ files'[g].mtime = clock + 1
         /\ \A g \in 1..Len(files') : g > Len(files) => files'[g].mtime = clock + 1 /\ g = Len(files) + 1
         /\ \A g \in 1..Len(files') : files'[g].mtime = clock + 1 => clock' = clock + 1
<1>0. files \in Seq(File) /\ Len(files) \in Nat /\ clock \in Nat
      /\ \A g \in 1..Len(files) : files[g].mtime \in 1..clock
  BY DEF Typed, DiskTyped
<1>1. CASE UNCHANGED <<files, clock>>
  BY <1>0, <1>1
<1>2. CASE FileWritten
  <2>1. PICK f \in 1..(Len(files) + 1), blocks \in Seq(Nat), by \in Nat :
          Wrote(f, blocks, by) /\ (f <= Len(files) => files[f].by = by)
    BY <1>2 DEF FileWritten
  <2>2. Wrote(f, blocks, by)
    BY <2>1
  <2>3. /\ files' \in Seq(File) /\ clock' = clock + 1
        /\ Len(files') = IF f = Len(files) + 1 THEN f ELSE Len(files)
        /\ files'[f] = [blocks |-> blocks, mtime |-> clock + 1, by |-> by]
        /\ \A g \in 1..Len(files) : g # f => files'[g] = files[g]
    BY <1>0, <2>2, WroteFiles
  <2> QED
    BY <1>0, <2>1, <2>3
<1> QED
  BY <1>1, <1>2 DEF DiskStep, FilesKept, FileNamed, FileUnlinked

LEMMA OneFileWritten ==
  ASSUME Typed, DiskStep, NEW f \in 1..Len(files'), NEW g \in 1..Len(files'), f # g
  PROVE  ~(files'[f].mtime = clock + 1 /\ files'[g].mtime = clock + 1)
<1>0. files \in Seq(File) /\ Len(files) \in Nat /\ clock \in Nat
      /\ \A h \in 1..Len(files) : files[h].mtime \in 1..clock
  BY DEF Typed, DiskTyped
<1>1. CASE UNCHANGED <<files, clock>>
  BY <1>0, <1>1
<1>2. CASE FileWritten
  <2>1. PICK h \in 1..(Len(files) + 1), blocks \in Seq(Nat), by \in Nat : Wrote(h, blocks, by)
    BY <1>2 DEF FileWritten
  <2>2. /\ files' \in Seq(File) /\ clock' = clock + 1
        /\ Len(files') = IF h = Len(files) + 1 THEN h ELSE Len(files)
        /\ files'[h] = [blocks |-> blocks, mtime |-> clock + 1, by |-> by]
        /\ \A k \in 1..Len(files) : k # h => files'[k] = files[k]
    BY <1>0, <2>1, WroteFiles
  <2> QED
    BY <1>0, <2>2
<1> QED
  BY <1>1, <1>2 DEF DiskStep, FilesKept, FileNamed, FileUnlinked

LEMMA EventsType ==
  ASSUME Typed, [Next]_vars
  PROVE  events' \in Nat
<1>0. events \in Nat
  BY DEF Typed, DiskTyped
<1>1. events' = events \/ events' = events + 1
  <2>1. ASSUME NEW u \in Upload, UploadStep(u) PROVE events' = events \/ events' = events + 1
    BY <2>1 DEF UploadStep, BeginUpload, BeginChunks, WriteBlock, EndUpload, EndChunks, EndChunksAt, Event
  <2>2. ASSUME NEW r \in Reader, NEW n \in Name,
               \/ RequestInfo(r, n) \/ InfoStat(r) \/ InfoLook(r)
               \/ InfoRead(r) \/ InfoRemember(r)
        PROVE  events' = events \/ events' = events + 1
    BY <2>2 DEF RequestInfo, InfoStat, InfoLook, InfoRead, InfoRemember, Event
  <2>3. ASSUME OutsideWrite \/ OutsideRemove \/ Edit \/ Run \/ LoadRead \/ LoadDone
        PROVE  events' = events \/ events' = events + 1
    BY <2>3 DEF OutsideWrite, OutsideRemove, Edit, Run, LoadRead, LoadDone, Event
  <2>4. 0 \in Name
    BY NamesAndNumbers
  <2>5. ASSUME NEW n \in Name, Delete(n) PROVE events' = events \/ events' = events + 1
    BY <2>5 DEF Delete, Event
  <2> QED
    BY <2>1, <2>2, <2>3, <2>4, <2>5 DEF Next, vars
<1> QED
  BY <1>0, <1>1

LEMMA DiskTypedStep ==
  ASSUME Typed, [Next]_vars
  PROVE  DiskTyped'
<1>1. DiskStep
  BY DiskSteps
<1>2. events' \in Nat
  BY EventsType
<1>3. /\ files' \in Seq(File) /\ clock' \in Nat /\ disk' \in [Name -> Nat] /\ Len(files) \in Nat
      /\ Len(files') \in Nat /\ Len(files) <= Len(files') /\ clock \in Nat /\ clock <= clock'
  BY <1>1, FilesGrow DEF Typed, DiskTyped, DiskStep
<1>4. \A n \in Name : disk'[n] <= Len(files')
  <2>1. CASE FilesKept \/ FileUnlinked
    BY <1>3, <2>1 DEF FilesKept, FileUnlinked, Typed, DiskTyped, NoFile
  <2>2. CASE FileNamed
    <3>1. PICK u \in Upload, n \in Name : IsPart(u) /\ disk' = [disk EXCEPT ![n] = upload[u].file]
      BY <2>2 DEF FileNamed
    <3>2. upload[u].file \in 1..Len(files)
      BY <3>1 DEF IsPart, Typed, UploadTyped
    <3> QED
      BY <1>3, <2>2, <3>1, <3>2 DEF FileNamed, Typed, DiskTyped
  <2>3. CASE FileWritten
    <3>1. PICK f \in 1..(Len(files) + 1), blocks \in Seq(Nat), by \in Nat :
            /\ Wrote(f, blocks, by)
            /\ \A n \in Name : disk'[n] = disk[n] \/ (f = Len(files) + 1 /\ disk'[n] = f)
      BY <2>3 DEF FileWritten
    <3>2. Wrote(f, blocks, by) /\ files \in Seq(File) /\ clock \in Nat
      BY <3>1 DEF Typed, DiskTyped
    <3>3. /\ files' \in Seq(File) /\ clock' = clock + 1
          /\ Len(files') = IF f = Len(files) + 1 THEN f ELSE Len(files)
          /\ files'[f] = [blocks |-> blocks, mtime |-> clock + 1, by |-> by]
          /\ \A k \in 1..Len(files) : k # f => files'[k] = files[k]
      BY <3>2, WroteFiles
    <3>4. \A n \in Name : disk[n] \in Nat /\ disk[n] <= Len(files)
      BY DEF Typed, DiskTyped
    <3>5. SUFFICES ASSUME NEW n \in Name PROVE disk'[n] <= Len(files')
      OBVIOUS
    <3>6. Len(files) \in Nat /\ Len(files') \in Nat /\ Len(files) <= Len(files')
      BY <1>3
    <3>7. disk[n] \in Nat /\ disk[n] <= Len(files)
      BY <3>4, <3>5
    <3>8. disk'[n] = disk[n] \/ (f = Len(files) + 1 /\ disk'[n] = f)
      BY <3>1, <3>5
    <3>9. CASE disk'[n] = disk[n]
      BY <3>6, <3>7, <3>9
    <3>10. CASE f = Len(files) + 1 /\ disk'[n] = f
      <4>1. Len(files') = f /\ disk'[n] = f
        BY <3>3, <3>10
      <4> QED
        BY <3>6, <4>1
    <3> QED
      BY <3>8, <3>9, <3>10
  <2> QED
    BY <1>1, <2>1, <2>2, <2>3 DEF DiskStep
<1>5. \A f \in 1..Len(files') : files'[f].mtime \in 1..clock'
  BY <1>1, <1>3, FilesGrow DEF Typed, DiskTyped
<1>6. \A f, g \in 1..Len(files') : files'[f].mtime = files'[g].mtime => f = g
  <2> SUFFICES ASSUME NEW f \in 1..Len(files'), NEW g \in 1..Len(files'), f # g,
                      files'[f].mtime = files'[g].mtime
               PROVE  FALSE
    OBVIOUS
  <2>1. /\ \A h \in {f, g} : files'[h].mtime # clock + 1 => h \in 1..Len(files) /\ files'[h] = files[h]
    BY <1>1, <1>3, FilesGrow
  <2>2. files'[f].mtime # clock + 1
    BY <1>1, OneFileWritten
  <2> QED
    BY <2>1, <2>2 DEF Typed, DiskTyped
<1> QED
  BY <1>2, <1>3, <1>4, <1>5, <1>6 DEF DiskTyped

-----------------------------------------------------------------------------
(* What a step does to the uploads *)

Begun(u) ==
  /\ upload'[u] \in Handler
  /\ \/ /\ upload'[u].chunked /\ upload'[u].file = Len(files) + 1
        /\ disk' = disk /\ Wrote(Len(files) + 1, <<>>, u)
     \/ /\ ~upload'[u].chunked
        /\ \E n \in Name :
             /\ upload'[u].file = Opened(n) /\ (upload'[u].overwrites \/ disk[n] = NoFile)
             /\ Wrote(Opened(n), <<>>, MakerOf(Opened(n), u))

UploadMoves(u) ==
  \/ upload'[u] = upload[u]
  \/ upload'[u] = [upload[u] EXCEPT !.sent = @ + 1]
  \/ upload'[u] \in Handler /\ upload'[u].ph # "writing"
  \/ Begun(u)

UploadsMove ==
  /\ upload' = [u \in Upload |-> upload'[u]] /\ \A u \in Upload : UploadMoves(u)
  /\ \A u, v \in Upload : u # v => upload'[u] = upload[u] \/ upload'[v] = upload[v]

LEMMA UploadSteps ==
  ASSUME Typed, [Next]_vars
  PROVE  UploadsMove
<1>0. /\ upload \in [Upload -> Handler] /\ Len(files) \in Nat /\ 0 \in Name
      /\ disk \in [Name -> Nat]
  BY NamesAndNumbers DEF Typed, DiskTyped, UploadTyped
<1>1. ASSUME UNCHANGED upload PROVE UploadsMove
  BY <1>0, <1>1 DEF UploadsMove, UploadMoves
<1>2. ASSUME NEW u \in Upload, NEW h \in Handler, h.ph # "writing",
             upload' = [upload EXCEPT ![u] = h]
      PROVE  UploadsMove
  BY <1>0, <1>2 DEF UploadsMove, UploadMoves
<1>3. \A o \in BOOLEAN : Over("done", o) \in Handler /\ Over("refused", o) \in Handler
                        /\ Over("done", o).ph # "writing" /\ Over("refused", o).ph # "writing"
  BY <1>0 DEF Over, NoUpload, Handler, NoFile
<1>4. ASSUME NEW u \in Upload, Begun(u), \A v \in Upload \ {u} : upload'[v] = upload[v],
             upload' \in [Upload -> Handler]
      PROVE  UploadsMove
  BY <1>4 DEF UploadsMove, UploadMoves
<1>5. ASSUME NEW u \in Upload, NEW c \in OnConflict, BeginUpload(u, c) PROVE UploadsMove
  <2>1. CASE upload' = [upload EXCEPT ![u] = Over("refused", FALSE)]
    BY <1>2, <1>3, <2>1
  <2>2. ASSUME NEW n \in FinalTarget(c),
               Wrote(Opened(n), <<>>, MakerOf(Opened(n), u)),
               upload' = [upload EXCEPT ![u] = [
                 ph |-> "writing", overwrites |-> c = "overwrite", chunked |-> FALSE,
                 name |-> n, file |-> Opened(n), sent |-> 0]]
        PROVE  UploadsMove
    <3>1. n \in Name /\ (c = "overwrite" \/ disk[n] = NoFile)
      BY <1>0, <2>2 DEF FinalTarget, FirstFree
    <3>2. Opened(n) \in Nat
      BY <1>0, <3>1 DEF Opened
    <3> DEFINE h == [ph |-> "writing", overwrites |-> c = "overwrite", chunked |-> FALSE,
                     name |-> n, file |-> Opened(n), sent |-> 0]
    <3>3. h \in Handler
      BY <3>1, <3>2 DEF Handler
    <3>4. h.file = Opened(n) /\ ~h.chunked /\ h.overwrites = (c = "overwrite")
      OBVIOUS
    <3>5. upload' = [upload EXCEPT ![u] = h]
      BY <2>2
    <3> HIDE DEF h
    <3>6. upload'[u] = h /\ upload' \in [Upload -> Handler]
          /\ \A v \in Upload \ {u} : upload'[v] = upload[v]
      BY <1>0, <3>3, <3>5
    <3>7. Begun(u)
      BY <2>2, <3>1, <3>3, <3>4, <3>6 DEF Begun
    <3> QED
      BY <1>4, <3>6, <3>7
  <2> QED
    BY <1>5, <2>1, <2>2 DEF BeginUpload
<1>6. ASSUME NEW u \in Upload, BeginChunks(u) PROVE UploadsMove
  <2> DEFINE h == [ph |-> "writing", overwrites |-> FALSE, chunked |-> TRUE,
                   name |-> 0, file |-> Len(files) + 1, sent |-> 0]
  <2>1. h \in Handler /\ h.chunked /\ h.file = Len(files) + 1
    BY <1>0 DEF Handler
  <2>2. upload' = [upload EXCEPT ![u] = h] /\ disk' = disk /\ Wrote(Len(files) + 1, <<>>, u)
    BY <1>6 DEF BeginChunks
  <2> HIDE DEF h
  <2>3. upload'[u] = h /\ upload' \in [Upload -> Handler]
        /\ \A v \in Upload \ {u} : upload'[v] = upload[v]
    BY <1>0, <2>1, <2>2
  <2>4. Begun(u)
    BY <2>1, <2>2, <2>3 DEF Begun
  <2> QED
    BY <1>4, <2>3, <2>4
<1>7. ASSUME NEW u \in Upload, WriteBlock(u) PROVE UploadsMove
  BY <1>0, <1>7 DEF WriteBlock, UploadsMove, UploadMoves
<1>8. ASSUME NEW u \in Upload, NEW n \in Name, NEW o \in BOOLEAN, Answering(u, n, o) PROVE UploadsMove
  BY <1>2, <1>3, <1>8 DEF Answering
<1>9. ASSUME NEW u \in Upload, EndUpload(u) PROVE UploadsMove
  <2>1. upload[u].name \in Name /\ upload[u].overwrites \in BOOLEAN
    BY <1>0 DEF Handler
  <2> QED
    BY <1>8, <1>9, <2>1 DEF EndUpload
<1>10. ASSUME NEW u \in Upload, NEW c \in OnConflict, EndChunks(u, c) PROVE UploadsMove
  <2>1. FinalTarget(c) \subseteq Name /\ (c = "overwrite") \in BOOLEAN
    BY <1>0 DEF FinalTarget, FirstFree
  <2>2. CASE upload' = [upload EXCEPT ![u] = Over("refused", FALSE)]
    BY <1>2, <1>3, <2>2
  <2>3. CASE \E n \in FinalTarget(c) : Answering(u, n, c = "overwrite")
    BY <1>8, <2>1, <2>3
  <2> QED
    BY <1>10, <2>2, <2>3 DEF EndChunks, EndChunksAt
<1>11. ASSUME NEW n \in Name, Delete(n) PROVE UploadsMove
  BY <1>1, <1>11 DEF Delete, handlers
<1>12. ASSUME NEW r \in Reader, NEW n \in Name,
              RequestInfo(r, n) \/ InfoStat(r) \/ InfoLook(r) \/ InfoRead(r) \/ InfoRemember(r)
       PROVE  UploadsMove
  BY <1>1, <1>12 DEF RequestInfo, InfoStat, InfoLook, InfoRead, InfoRemember
<1>13. ASSUME OutsideWrite \/ OutsideRemove \/ Edit \/ Run \/ LoadRead \/ LoadDone \/ UNCHANGED vars
       PROVE  UploadsMove
  BY <1>1, <1>13 DEF OutsideWrite, OutsideRemove, Edit, Run, LoadRead, LoadDone, vars, handlers
<1> QED
  BY <1>0, <1>5, <1>6, <1>7, <1>9, <1>10, <1>11, <1>12, <1>13 DEF Next, UploadStep

LEMMA UploadTypedStep ==
  ASSUME Typed, [Next]_vars
  PROVE  UploadTyped'
<1>1. DiskStep /\ UploadsMove
  BY DiskSteps, UploadSteps
<1>2. /\ Len(files') \in Nat /\ Len(files) \in Nat /\ Len(files) <= Len(files')
      /\ \A g \in 1..Len(files) : files'[g].by = files[g].by
  BY <1>1, FilesGrow DEF Typed, DiskTyped
<1>3. ASSUME NEW u \in Upload, UploadMoves(u)
      PROVE  /\ upload'[u] \in Handler
             /\ upload'[u].ph = "writing" =>
                  /\ upload'[u].file \in 1..Len(files')
                  /\ upload'[u].overwrites \/ files'[upload'[u].file].by = u
  <2>1. upload[u] \in Handler
    BY DEF Typed, UploadTyped
  <2>2. CASE upload'[u] = upload[u] \/ upload'[u] = [upload[u] EXCEPT !.sent = @ + 1]
    <3>1. /\ upload'[u] \in Handler /\ upload'[u].ph = upload[u].ph
          /\ upload'[u].file = upload[u].file /\ upload'[u].overwrites = upload[u].overwrites
      BY <2>1, <2>2 DEF Handler
    <3> QED
      BY <1>2, <3>1 DEF Typed, UploadTyped
  <2>3. CASE upload'[u] \in Handler /\ upload'[u].ph # "writing"
    BY <2>3
  <2>4. CASE Begun(u)
    <3>0. files \in Seq(File) /\ clock \in Nat /\ u \in Nat /\ <<>> \in Seq(Nat) /\ disk \in [Name -> Nat]
          /\ \A n \in Name : disk[n] <= Len(files)
      BY NamesAndNumbers DEF Typed, DiskTyped
    <3>1. CASE upload'[u].file = Len(files) + 1 /\ Wrote(Len(files) + 1, <<>>, u)
      <4>1. Len(files) + 1 \in 1..(Len(files) + 1)
        BY <1>2
      <4>2. /\ Len(files') = Len(files) + 1
            /\ files'[Len(files) + 1] = [blocks |-> <<>>, mtime |-> clock + 1, by |-> u]
        BY <3>0, <3>1, <4>1, WroteFiles
      <4> QED
        BY <1>2, <2>4, <3>1, <4>2 DEF Begun
    <3>2. ASSUME NEW n \in Name, upload'[u].file = Opened(n),
                 upload'[u].overwrites \/ disk[n] = NoFile,
                 Wrote(Opened(n), <<>>, MakerOf(Opened(n), u))
          PROVE  /\ upload'[u].file \in 1..Len(files')
                 /\ upload'[u].overwrites \/ files'[upload'[u].file].by = u
      <4>1. CASE disk[n] = NoFile
        <5>1. Opened(n) = Len(files) + 1 /\ MakerOf(Len(files) + 1, u) = u
          BY <1>2, <3>0, <4>1 DEF Opened, MakerOf
        <5>2. Wrote(Len(files) + 1, <<>>, u) /\ Len(files) + 1 \in 1..(Len(files) + 1)
          BY <1>2, <3>2, <5>1
        <5>3. /\ Len(files') = Len(files) + 1
              /\ files'[Len(files) + 1] = [blocks |-> <<>>, mtime |-> clock + 1, by |-> u]
          BY <3>0, <5>2, WroteFiles
        <5> QED
          BY <1>2, <3>2, <5>1, <5>3
      <4>2. CASE disk[n] # NoFile
        BY <1>2, <3>0, <3>2, <4>2 DEF Opened, NoFile
      <4> QED
        BY <4>1, <4>2
    <3> QED
      BY <2>4, <3>1, <3>2 DEF Begun
  <2> QED
    BY <1>3, <2>2, <2>3, <2>4 DEF UploadMoves
<1> QED
  BY <1>1, <1>3 DEF UploadsMove, UploadTyped

-----------------------------------------------------------------------------
(* What a step does to the index, its threads and the loader *)

\* A thread starts or is over; it has looked at the file, opened it, read a block of it.
Started(r) == info'[r].ph \in {"stat", "over"} /\ info'[r].mtime = 0 /\ info'[r].got = <<>>
Looked(r) ==
  /\ FilesKept /\ info[r].ph = "stat" /\ info'[r].ph = "look" /\ info'[r].got = <<>>
  /\ info'[r].name = info[r].name /\ Holds(info[r].name, info'[r].mtime)
WasOpened(r) ==
  /\ FilesKept /\ info[r].ph = "look" /\ info'[r].ph = "read" /\ info'[r].got = <<>>
  /\ info'[r].name = info[r].name /\ info'[r].mtime = info[r].mtime
  /\ info'[r].file = disk[info[r].name] /\ disk[info[r].name] # NoFile
ReadOn(r) ==
  /\ FilesKept /\ info[r].ph = "read" /\ ~AtEnd(info[r].got, info[r].file)
  /\ info'[r] = [info[r] EXCEPT !.got = Read(@, info[r].file)]

InfoMoves(r) ==
  \/ info'[r] = info[r]
  \/ info'[r] \in InfoCall /\ (Started(r) \/ Looked(r) \/ WasOpened(r))
  \/ ReadOn(r)
RowMoves(n) ==
  \/ index'[n] = index[n]
  \/ index'[n] = NoRow
  \/ \E r \in Reader : /\ FilesKept /\ info[r].name = n /\ info[r].ph = "read"
                      /\ AtEnd(info[r].got, info[r].file) /\ index'[n] = Remembered(r)
ReadersMove ==
  /\ info' = [r \in Reader |-> info'[r]] /\ \A r \in Reader : InfoMoves(r)
  /\ index' = [n \in Name |-> index'[n]] /\ \A n \in Name : RowMoves(n)

LEMMA InfoOverType ==
  /\ InfoOver \in InfoCall /\ InfoOver.ph = "over" /\ InfoOver.mtime = 0 /\ InfoOver.got = <<>>
  /\ \A n \in Name : LET c == [NoInfo EXCEPT !.ph = "stat", !.name = n]
                     IN  c \in InfoCall /\ c.ph = "stat" /\ c.mtime = 0 /\ c.got = <<>>
<1>1. NoInfo \in InfoCall /\ NoInfo.mtime = 0 /\ NoInfo.got = <<>>
  <2>1. <<>> \in Seq(Nat) /\ 0 \in Name
    BY NamesAndNumbers
  <2> QED
    BY <2>1 DEF NoInfo, InfoCall, NoFile
<1>2. InfoOver \in InfoCall /\ InfoOver.ph = "over" /\ InfoOver.mtime = 0 /\ InfoOver.got = <<>>
  BY <1>1 DEF InfoOver, InfoCall
<1>3. ASSUME NEW n \in Name, NEW c, c = [NoInfo EXCEPT !.ph = "stat", !.name = n]
      PROVE  c \in InfoCall /\ c.ph = "stat" /\ c.mtime = 0 /\ c.got = <<>>
  BY <1>1, <1>3 DEF InfoCall
<1> QED
  BY <1>2, <1>3

LEMMA ReaderSteps ==
  ASSUME Typed, [Next]_vars
  PROVE  ReadersMove
<1>0. /\ info \in [Reader -> InfoCall] /\ index \in [Name -> Row] /\ Upload \subseteq Reader
      /\ 0 \in Name
  BY NamesAndNumbers DEF Typed, ReaderTyped
<1>1. ASSUME UNCHANGED <<info, index>> PROVE ReadersMove
  BY <1>0, <1>1 DEF ReadersMove, InfoMoves, RowMoves
<1>2. ASSUME NEW r \in Reader, NEW c \in InfoCall, info' = [info EXCEPT ![r] = c],
             info'[r] = c => InfoMoves(r), \A n \in Name : RowMoves(n),
             index' = [n \in Name |-> index'[n]]
      PROVE  ReadersMove
  <2>1. info'[r] = c /\ info' = [q \in Reader |-> info'[q]]
        /\ \A q \in Reader \ {r} : info'[q] = info[q]
    BY <1>0, <1>2
  <2> QED
    BY <1>2, <2>1 DEF ReadersMove, InfoMoves
<1>3. ASSUME UNCHANGED index PROVE (\A n \in Name : RowMoves(n)) /\ index' = [n \in Name |-> index'[n]]
  BY <1>0, <1>3 DEF RowMoves
<1>4. ASSUME NEW n \in Name, index' = [index EXCEPT ![n] = NoRow]
      PROVE  (\A m \in Name : RowMoves(m)) /\ index' = [m \in Name |-> index'[m]]
  BY <1>0, <1>4 DEF RowMoves
<1>5. ASSUME NEW r \in Reader, UNCHANGED index, info' = [info EXCEPT ![r] = InfoOver] PROVE ReadersMove
  BY <1>2, <1>3, <1>5, InfoOverType DEF InfoMoves, Started
<1>6. ASSUME NEW u \in Upload, NEW n \in Name, NEW o \in BOOLEAN, Answering(u, n, o) PROVE ReadersMove
  <2> DEFINE c == [NoInfo EXCEPT !.ph = "stat", !.name = n]
  <2>1. c \in InfoCall /\ c.ph = "stat" /\ c.mtime = 0 /\ c.got = <<>>
    BY InfoOverType
  <2>2. info' = [info EXCEPT ![u] = c] /\ index' = [index EXCEPT ![n] = NoRow]
    BY <1>6 DEF Answering
  <2> HIDE DEF c
  <2>3. info'[u] = c => InfoMoves(u)
    BY <2>1 DEF InfoMoves, Started
  <2>4. u \in Reader
    BY <1>0
  <2> QED
    BY <1>2, <1>4, <2>1, <2>2, <2>3, <2>4
<1>7. ASSUME NEW u \in Upload, UploadStep(u) PROVE ReadersMove
  <2>1. CASE UNCHANGED <<info, index>>
    BY <1>1, <2>1
  <2>2. ASSUME EndUpload(u) PROVE ReadersMove
    <3>1. upload[u].name \in Name /\ upload[u].overwrites \in BOOLEAN
      BY DEF Typed, UploadTyped, Handler
    <3> QED
      BY <1>6, <2>2, <3>1 DEF EndUpload
  <2>3. ASSUME NEW c \in OnConflict, EndChunks(u, c), ~UNCHANGED <<info, index>> PROVE ReadersMove
    <3>1. FinalTarget(c) \subseteq Name /\ (c = "overwrite") \in BOOLEAN
      BY <1>0 DEF FinalTarget, FirstFree
    <3>2. \E n \in FinalTarget(c) : Answering(u, n, c = "overwrite")
      BY <2>3 DEF EndChunks, EndChunksAt
    <3> QED
      BY <1>6, <3>1, <3>2
  <2> QED
    BY <1>7, <2>1, <2>2, <2>3 DEF UploadStep, BeginUpload, BeginChunks, WriteBlock
<1>8. ASSUME NEW n \in Name, Delete(n) PROVE ReadersMove
  BY <1>0, <1>4, <1>8 DEF Delete, handlers, ReadersMove, InfoMoves
<1>9. ASSUME NEW r \in Reader, NEW n \in Name, RequestInfo(r, n) PROVE ReadersMove
  <2> DEFINE c == [NoInfo EXCEPT !.ph = "stat", !.name = n]
  <2>1. c \in InfoCall /\ c.ph = "stat" /\ c.mtime = 0 /\ c.got = <<>>
    BY InfoOverType
  <2>2. info' = [info EXCEPT ![r] = c] /\ UNCHANGED index
    BY <1>9 DEF RequestInfo
  <2> HIDE DEF c
  <2>3. info'[r] = c => InfoMoves(r)
    BY <2>1 DEF InfoMoves, Started
  <2> QED
    BY <1>2, <1>3, <2>1, <2>2, <2>3
<1>10. ASSUME NEW r \in Reader, InfoStat(r) PROVE ReadersMove
  <2> DEFINE f == disk[info[r].name]
             c == [info[r] EXCEPT !.ph = "look", !.mtime = files[f].mtime, !.size = Len(files[f].blocks)]
  <2>1. CASE f = NoFile
    BY <1>5, <1>10, <2>1 DEF InfoStat
  <2>2. CASE f # NoFile
    <3>1. FilesKept /\ info' = [info EXCEPT ![r] = c] /\ UNCHANGED index /\ info[r].ph = "stat"
      BY <1>10, <2>2 DEF InfoStat, FilesKept
    <3>2. info[r] \in InfoCall /\ info[r].got = <<>> /\ info[r].name \in Name
      BY <1>0, <3>1 DEF Typed, ReaderTyped, InfoCall
    <3>3. f \in 1..Len(files) /\ files \in Seq(File)
      BY <2>2, <3>2 DEF Typed, DiskTyped, NoFile
    <3>4. files[f].mtime \in Nat /\ Len(files[f].blocks) \in Nat
      BY <3>3, FileAt
    <3>5. /\ c \in InfoCall /\ c.ph = "look" /\ c.got = <<>> /\ c.name = info[r].name
          /\ c.mtime = files[f].mtime
      BY <3>2, <3>4 DEF InfoCall
    <3>6. Holds(info[r].name, c.mtime)
      BY <2>2, <3>5 DEF Holds
    <3> HIDE DEF c, f
    <3>7. info'[r] = c => InfoMoves(r)
      BY <3>1, <3>5, <3>6 DEF InfoMoves, Looked
    <3> QED
      BY <1>2, <1>3, <3>1, <3>5, <3>7
  <2> QED
    BY <2>1, <2>2
<1>11. ASSUME NEW r \in Reader, InfoLook(r) PROVE ReadersMove
  <2> DEFINE f == disk[info[r].name]
             c == [info[r] EXCEPT !.ph = "read", !.file = f]
  <2>1. FilesKept /\ UNCHANGED index /\ info[r].ph = "look"
    BY <1>11 DEF InfoLook, FilesKept
  <2>2. CASE info' = [info EXCEPT ![r] = InfoOver]
    BY <1>5, <2>1, <2>2
  <2>3. CASE f # NoFile /\ info' = [info EXCEPT ![r] = c]
    <3>1. info[r] \in InfoCall /\ info[r].got = <<>> /\ f \in Nat
      BY <1>0, <2>1 DEF Typed, DiskTyped, ReaderTyped, InfoCall
    <3>2. /\ c \in InfoCall /\ c.ph = "read" /\ c.got = <<>> /\ c.name = info[r].name
          /\ c.mtime = info[r].mtime /\ c.file = f
      BY <3>1 DEF InfoCall
    <3> HIDE DEF c
    <3>3. info'[r] = c => InfoMoves(r)
      BY <2>1, <2>3, <3>2 DEF InfoMoves, WasOpened
    <3> QED
      BY <1>2, <1>3, <2>1, <2>3, <3>2, <3>3
  <2> QED
    BY <1>11, <2>2, <2>3 DEF InfoLook
<1>12. ASSUME NEW r \in Reader, InfoRead(r) PROVE ReadersMove
  BY <1>0, <1>3, <1>12 DEF InfoRead, ReadersMove, InfoMoves, ReadOn, FilesKept
<1>13. ASSUME NEW r \in Reader, InfoRemember(r) PROVE ReadersMove
  <2>1. /\ FilesKept /\ info[r].ph = "read" /\ AtEnd(info[r].got, info[r].file)
        /\ index' = [index EXCEPT ![info[r].name] = Remembered(r)]
        /\ info' = [info EXCEPT ![r] = InfoOver]
    BY <1>13 DEF InfoRemember, FilesKept
  <2>2. (\A n \in Name : RowMoves(n)) /\ index' = [n \in Name |-> index'[n]]
    BY <1>0, <2>1 DEF RowMoves
  <2> QED
    BY <1>2, <2>1, <2>2, InfoOverType DEF InfoMoves, Started
<1>14. ASSUME OutsideWrite \/ OutsideRemove \/ Edit \/ Run \/ LoadRead \/ LoadDone \/ UNCHANGED vars
       PROVE  ReadersMove
  BY <1>1, <1>14 DEF OutsideWrite, OutsideRemove, Edit, Run, LoadRead, LoadDone, vars, handlers
<1> QED
  BY <1>7, <1>8, <1>9, <1>10, <1>11, <1>12, <1>13, <1>14 DEF Next

\* Reading on keeps what is typed, and reads the next block of the file.
LEMMA ReadOnType ==
  ASSUME files \in Seq(File), NEW f \in 1..Len(files), NEW got \in Seq(Nat), ~AtEnd(got, f)
  PROVE  /\ Read(got, f) \in Seq(Nat) /\ Len(Read(got, f)) = Len(got) + 1
         /\ Len(got) + 1 \in 1..Len(files[f].blocks)
         /\ Read(got, f)[Len(got) + 1] = files[f].blocks[Len(got) + 1]
         /\ \A k \in 1..Len(got) : Read(got, f)[k] = got[k]
<1>1. files[f].blocks \in Seq(Nat) /\ Len(files[f].blocks) \in Nat /\ Len(got) \in Nat
  BY FileAt
<1>2. Len(got) + 1 \in 1..Len(files[f].blocks)
  BY <1>1 DEF AtEnd
<1>3. files[f].blocks[Len(got) + 1] \in Nat
  BY <1>1, <1>2
<1> QED
  BY <1>1, <1>2, <1>3, AppendProperties DEF Read

\* Read to the end, what has been read is the whole content.
LEMMA PrefixIsAll ==
  ASSUME NEW got \in Seq(Nat), NEW blocks \in Seq(Nat), Prefix(got, blocks), Len(got) >= Len(blocks)
  PROVE  got = blocks
<1>1. Len(got) = Len(blocks) /\ \A k \in 1..Len(got) : got[k] = blocks[k]
  BY DEF Prefix
<1> QED
  BY <1>1, SeqEqual

LEMMA ReaderTypedStep ==
  ASSUME Typed, [Next]_vars
  PROVE  ReaderTyped'
<1>1. ReadersMove /\ DiskStep
  BY ReaderSteps, DiskSteps
<1>2. Len(files') \in Nat /\ Len(files) \in Nat /\ Len(files) <= Len(files') /\ files \in Seq(File)
  BY <1>1, FilesGrow DEF Typed, DiskTyped
<1>3. ASSUME NEW r \in Reader, InfoMoves(r)
      PROVE  /\ info'[r] \in InfoCall
             /\ info'[r].ph = "read" => info'[r].file \in 1..Len(files')
             /\ info'[r].ph \in {"stat", "look"} => info'[r].got = <<>>
  <2>0. info[r] \in InfoCall /\ (info[r].ph = "read" => info[r].file \in 1..Len(files))
    BY DEF Typed, ReaderTyped
  <2>1. CASE info'[r] = info[r]
    BY <1>2, <2>0, <2>1 DEF Typed, ReaderTyped
  <2>2. CASE info'[r] \in InfoCall /\ (Started(r) \/ Looked(r))
    BY <2>2 DEF Started, Looked
  <2>3. CASE info'[r] \in InfoCall /\ WasOpened(r)
    <3>1. info[r].name \in Name
      BY <2>0 DEF InfoCall
    <3>2. info'[r].file \in 1..Len(files)
      BY <2>3, <3>1 DEF WasOpened, Typed, DiskTyped, NoFile
    <3> QED
      BY <1>2, <2>3, <3>2 DEF WasOpened
  <2>4. CASE ReadOn(r)
    <3>1. info[r].file \in 1..Len(files) /\ info[r].got \in Seq(Nat)
      BY <2>0, <2>4 DEF ReadOn, InfoCall
    <3>2. Read(info[r].got, info[r].file) \in Seq(Nat)
      BY <1>2, <2>4, <3>1, ReadOnType DEF ReadOn
    <3> DEFINE got == Read(info[r].got, info[r].file)
    <3>3. info'[r] = [info[r] EXCEPT !.got = got] /\ info[r].ph = "read"
      BY <2>4 DEF ReadOn
    <3> HIDE DEF got
    <3>4. got \in Seq(Nat)
      BY <3>2 DEF got
    <3>5. info'[r] \in InfoCall
      BY <2>0, <3>3, <3>4 DEF InfoCall
    <3>6. info'[r].file = info[r].file /\ info'[r].ph = "read"
      BY <2>0, <3>3 DEF InfoCall
    <3> QED
      BY <1>2, <3>1, <3>5, <3>6
  <2> QED
    BY <1>3, <2>1, <2>2, <2>3, <2>4 DEF InfoMoves
<1>4. ASSUME NEW n \in Name, RowMoves(n) PROVE index'[n] \in Row
  <2>1. CASE index'[n] = index[n]
    BY <2>1 DEF Typed, ReaderTyped
  <2>2. CASE index'[n] = NoRow
    BY <2>2 DEF NoRow, Row
  <2>3. ASSUME NEW r \in Reader, index'[n] = Remembered(r) PROVE index'[n] \in Row
    <3>1. info[r] \in InfoCall
      BY DEF Typed, ReaderTyped
    <3> QED
      BY <2>3, <3>1 DEF Remembered, Row, InfoCall
  <2> QED
    BY <1>4, <2>1, <2>2, <2>3 DEF RowMoves
<1>5. info' \in [Reader -> InfoCall] /\ index' \in [Name -> Row]
  BY <1>1, <1>3, <1>4 DEF ReadersMove
<1> QED
  BY <1>1, <1>3, <1>5 DEF ReadersMove, ReaderTyped

\* The loader's record: not loading, or it has just opened the file, or reads on.
LoaderRests ==
  loader'.ph # "loading" /\ loader'.got = <<>> /\ loader'.key \in {loader.key, Fingerprint}
LoaderOpens ==
  /\ loader'.ph = "loading" /\ loader'.got = <<>> /\ loader'.key = loader.key
  /\ loader'.file = disk[0] /\ disk[0] # NoFile
LoaderReads ==
  /\ loader.ph = "loading" /\ ~AtEnd(loader.got, loader.file)
  /\ loader' = [loader EXCEPT !.got = Read(@, loader.file)]
CacheGrows ==
  /\ loader.ph = "loading" /\ AtEnd(loader.got, loader.file)
  /\ cache' = [k \in DOMAIN cache \cup {loader.key} |->
                 IF k = loader.key THEN loader.got ELSE cache[k]]
LoaderRecord == [ph : {"dirty", "loading", "done", "error"}, key : Key, file : Nat, got : Seq(Nat)]
LoaderMoves ==
  /\ \/ loader' = loader
     \/ FilesKept /\ loader' \in LoaderRecord /\ (LoaderRests \/ LoaderOpens)
     \/ FilesKept /\ LoaderReads
  /\ cache' = cache \/ (FilesKept /\ CacheGrows)

LEMMA FingerprintType ==
  ASSUME Typed
  PROVE  /\ Fingerprint \in Key
         /\ Fingerprint[1] = 0 \/ Holds(0, Fingerprint[1])
<1>1. CASE disk[0] = NoFile
  BY <1>1 DEF Fingerprint, Missing, Key
<1>2. CASE disk[0] # NoFile
  <2>1. disk[0] \in 1..Len(files) /\ files \in Seq(File)
    BY <1>2, NamesAndNumbers DEF Typed, DiskTyped, NoFile
  <2>2. files[disk[0]].mtime \in Nat /\ Len(files[disk[0]].blocks) \in Nat
    BY <2>1, FileAt
  <2> QED
    BY <1>2, <2>2 DEF Fingerprint, Stat, Key, Holds
<1> QED
  BY <1>1, <1>2

LEMMA LoaderSteps ==
  ASSUME Typed, [Next]_vars
  PROVE  LoaderMoves
<1>0. /\ loader \in LoaderRecord /\ Fingerprint \in Key /\ disk[0] \in Nat
      /\ loader.ph # "loading" => loader.got = <<>>
      /\ <<>> \in Seq(Nat)
  BY FingerprintType, NamesAndNumbers DEF Typed, DiskTyped, LoaderTyped, LoaderRecord
<1>1. ASSUME UNCHANGED <<loader, cache>> PROVE LoaderMoves
  BY <1>1 DEF LoaderMoves
<1>2. ASSUME Edit PROVE LoaderMoves
  <2>1. FilesKept /\ cache' = cache
    BY <1>2 DEF Edit, FilesKept
  <2>2. loader' = loader \/ loader' = [ph |-> "dirty", key |-> Fingerprint, file |-> NoFile, got |-> <<>>]
    BY <1>2 DEF Edit
  <2>3. CASE loader' = loader
    BY <2>1, <2>3 DEF LoaderMoves
  <2>4. CASE loader' = [ph |-> "dirty", key |-> Fingerprint, file |-> NoFile, got |-> <<>>]
    <3>1. loader' \in LoaderRecord
      BY <1>0, <2>4 DEF LoaderRecord, NoFile
    <3>2. loader'.ph # "loading" /\ loader'.got = <<>> /\ loader'.key = Fingerprint
      BY <2>4
    <3> QED
      BY <2>1, <3>1, <3>2 DEF LoaderMoves, LoaderRests
  <2> QED
    BY <2>2, <2>3, <2>4
<1>3. ASSUME Run PROVE LoaderMoves
  <2>1. FilesKept /\ cache' = cache /\ loader.ph \in {"dirty", "error"}
    BY <1>3 DEF Run, FilesKept
  <2>2. ASSUME NEW ph \in {"done", "error"}, loader' = [loader EXCEPT !.ph = ph] PROVE LoaderMoves
    <3>1. loader' \in LoaderRecord
      BY <1>0, <2>2 DEF LoaderRecord
    <3>2. loader'.ph # "loading" /\ loader'.got = <<>> /\ loader'.key = loader.key
      BY <1>0, <2>1, <2>2 DEF LoaderRecord
    <3> QED
      BY <2>1, <3>1, <3>2 DEF LoaderMoves, LoaderRests
  <2>3. CASE disk[0] # NoFile /\ loader' = [loader EXCEPT !.ph = "loading", !.file = disk[0]]
    BY <1>0, <2>1, <2>3 DEF LoaderMoves, LoaderOpens, LoaderRecord
  <2> QED
    BY <1>3, <2>2, <2>3 DEF Run
<1>4. ASSUME LoadRead PROVE LoaderMoves
  BY <1>4 DEF LoadRead, LoaderMoves, LoaderReads, FilesKept
<1>5. ASSUME LoadDone PROVE LoaderMoves
  <2>1. FilesKept /\ CacheGrows /\ loader' = [loader EXCEPT !.ph = "done", !.file = NoFile, !.got = <<>>]
    BY <1>5 DEF LoadDone, CacheGrows, FilesKept
  <2>2. loader' \in LoaderRecord /\ loader'.ph = "done" /\ loader'.got = <<>> /\ loader'.key = loader.key
    BY <1>0, <2>1 DEF LoaderRecord, NoFile
  <2> QED
    BY <2>1, <2>2 DEF LoaderMoves, LoaderRests
<1>6. ASSUME NEW u \in Upload, UploadStep(u) PROVE LoaderMoves
  BY <1>1, <1>6 DEF UploadStep, BeginUpload, BeginChunks, WriteBlock, EndUpload, EndChunks, EndChunksAt, engine
<1>7. ASSUME NEW n \in Name, Delete(n) PROVE LoaderMoves
  BY <1>1, <1>7 DEF Delete, engine
<1>8. ASSUME NEW r \in Reader, NEW n \in Name,
             RequestInfo(r, n) \/ InfoStat(r) \/ InfoLook(r) \/ InfoRead(r) \/ InfoRemember(r)
      PROVE  LoaderMoves
  BY <1>1, <1>8 DEF RequestInfo, InfoStat, InfoLook, InfoRead, InfoRemember, engine
<1>9. ASSUME OutsideWrite \/ OutsideRemove \/ UNCHANGED vars PROVE LoaderMoves
  BY <1>1, <1>9 DEF OutsideWrite, OutsideRemove, vars, engine
<1>10. 0 \in Name
  BY NamesAndNumbers
<1> QED
  BY <1>2, <1>3, <1>4, <1>5, <1>6, <1>7, <1>8, <1>9, <1>10 DEF Next

LEMMA LoaderTypedStep ==
  ASSUME Typed, [Next]_vars
  PROVE  LoaderTyped'
<1>1. LoaderMoves /\ DiskStep
  BY LoaderSteps, DiskSteps
<1>2. Len(files') \in Nat /\ Len(files) \in Nat /\ Len(files) <= Len(files') /\ files \in Seq(File)
      /\ 0 \in Name
  BY <1>1, FilesGrow, NamesAndNumbers DEF Typed, DiskTyped
<1>3. /\ loader \in LoaderRecord /\ (loader.ph = "loading" => loader.file \in 1..Len(files))
      /\ (loader.ph # "loading" => loader.got = <<>>)
      /\ DOMAIN cache \subseteq Key
  BY DEF Typed, LoaderTyped, LoaderRecord
<1>4. DOMAIN cache' \subseteq Key
  BY <1>1, <1>3 DEF LoaderMoves, CacheGrows, LoaderRecord
<1>5. CASE loader' = loader
  BY <1>2, <1>3, <1>4, <1>5 DEF LoaderTyped, LoaderRecord
<1>6. CASE loader' \in LoaderRecord /\ LoaderRests
  BY <1>4, <1>6 DEF LoaderTyped, LoaderRecord, LoaderRests
<1>7. CASE loader' \in LoaderRecord /\ LoaderOpens
  <2>1. disk[0] \in 1..Len(files)
    BY <1>2, <1>7 DEF LoaderOpens, Typed, DiskTyped, NoFile
  <2> QED
    BY <1>2, <1>4, <1>7, <2>1 DEF LoaderTyped, LoaderRecord, LoaderOpens
<1>8. CASE LoaderReads
  <2> DEFINE got == Read(loader.got, loader.file)
  <2>1. loader.file \in 1..Len(files) /\ loader.got \in Seq(Nat) /\ ~AtEnd(loader.got, loader.file)
    BY <1>3, <1>8 DEF LoaderReads, LoaderRecord
  <2>2. got \in Seq(Nat)
    BY <1>2, <2>1, ReadOnType
  <2>3. loader' = [loader EXCEPT !.got = got] /\ loader.ph = "loading"
    BY <1>8 DEF LoaderReads
  <2> HIDE DEF got
  <2>4. loader' \in LoaderRecord
    BY <1>3, <2>2, <2>3 DEF LoaderRecord
  <2>5. loader'.file = loader.file /\ loader'.ph = "loading"
    BY <1>3, <2>3 DEF LoaderRecord
  <2> QED
    BY <1>2, <1>4, <2>1, <2>4, <2>5 DEF LoaderTyped, LoaderRecord
<1> QED
  BY <1>1, <1>5, <1>6, <1>7, <1>8 DEF LoaderMoves

-----------------------------------------------------------------------------
(* The times that have been seen *)

\* Only a time of a file behind a name is seen for the first time.
LEMMA SeenStep ==
  ASSUME Typed, [Next]_vars, NEW t \in Nat, Seen(t)'
  PROVE  Seen(t) \/ t = 0 \/ \E n \in Name : Holds(n, t)
<1>0. ReadersMove /\ LoaderMoves /\ 0 \in Name
  BY ReaderSteps, LoaderSteps, NamesAndNumbers
<1>1. ASSUME NEW r \in Reader, info'[r].mtime = t PROVE Seen(t) \/ t = 0 \/ \E n \in Name : Holds(n, t)
  <2>0. info[r] \in InfoCall
    BY DEF Typed, ReaderTyped
  <2>1. CASE info'[r].mtime = info[r].mtime
    BY <1>1, <2>1 DEF Seen
  <2>2. CASE Started(r)
    BY <1>1, <2>2 DEF Started
  <2>3. CASE Looked(r)
    BY <1>1, <2>0, <2>3 DEF Looked, InfoCall
  <2>4. CASE ReadOn(r)
    <3>1. info'[r].mtime = info[r].mtime
      BY <2>0, <2>4 DEF ReadOn, InfoCall
    <3> QED
      BY <2>1, <3>1
  <2> QED
    BY <1>0, <2>1, <2>2, <2>3, <2>4 DEF ReadersMove, InfoMoves, WasOpened
<1>2. ASSUME NEW n \in Name, index'[n].mtime = t PROVE Seen(t) \/ t = 0
  BY <1>0, <1>2 DEF ReadersMove, RowMoves, NoRow, Remembered, Seen
<1>3. loader'.key \in {loader.key, Fingerprint}
  <2>1. CASE LoaderReads
    BY <2>1 DEF LoaderReads, Typed, LoaderTyped
  <2> QED
    BY <1>0, <2>1 DEF LoaderMoves, LoaderRests, LoaderOpens
<1>4. Fingerprint[1] = t => t = 0 \/ Holds(0, t)
  BY FingerprintType
<1>5. ASSUME loader'.key[1] = t PROVE Seen(t) \/ t = 0 \/ Holds(0, t)
  BY <1>3, <1>4, <1>5 DEF Seen
<1>6. ASSUME NEW k \in DOMAIN cache', k[1] = t PROVE Seen(t)
  <2>1. k \in DOMAIN cache \/ k = loader.key
    BY <1>0, <1>6 DEF LoaderMoves, CacheGrows
  <2> QED
    BY <1>6, <2>1 DEF Seen
<1>7. \/ \E n \in Name : index'[n].mtime = t
      \/ \E r \in Reader : info'[r].mtime = t
      \/ loader'.key[1] = t
      \/ \E k \in DOMAIN cache' : k[1] = t
  BY DEF Seen
<1> QED
  BY <1>0, <1>1, <1>2, <1>5, <1>6, <1>7

LEMMA HeldIsPast ==
  ASSUME Typed, NEW n \in Name, NEW t \in Nat, Holds(n, t)
  PROVE  disk[n] \in 1..Len(files) /\ files[disk[n]].mtime = t /\ t \in 1..clock
BY DEF Typed, DiskTyped, Holds, NoFile

LEMMA SeenIsPastStep ==
  ASSUME Typed, SeenIsPast, [Next]_vars
  PROVE  SeenIsPast'
<1>1. clock \in Nat /\ clock' \in Nat /\ clock <= clock'
  BY DiskSteps, FilesGrow DEF Typed, DiskTyped
<1>2. ASSUME NEW t \in Nat, Seen(t)' PROVE t <= clock'
  <2>1. Seen(t) \/ t = 0 \/ \E n \in Name : Holds(n, t)
    BY <1>2, SeenStep
  <2> QED
    BY <1>1, <2>1, HeldIsPast DEF SeenIsPast
<1> QED
  BY <1>2 DEF SeenIsPast

-----------------------------------------------------------------------------
(* A part stays hidden until it is named *)

\* A new time, or the time of a file behind no name that nobody has seen, is not seen.
LEMMA StaysUnseen ==
  ASSUME Typed, SeenIsPast, [Next]_vars, NEW t \in Nat,
         \/ t = clock + 1
         \/ ~Seen(t) /\ \E f \in 1..Len(files) : files[f].mtime = t /\ \A n \in Name : disk[n] # f
  PROVE  ~Seen(t)'
<1> SUFFICES ASSUME Seen(t)' PROVE FALSE
  OBVIOUS
<1>1. clock \in Nat /\ Len(files) \in Nat
  BY DEF Typed, DiskTyped
<1>2. Seen(t) \/ t = 0 \/ \E n \in Name : Holds(n, t)
  BY SeenStep
<1>3. CASE t = clock + 1
  BY <1>1, <1>2, <1>3, HeldIsPast DEF SeenIsPast
<1>4. CASE ~Seen(t) /\ \E f \in 1..Len(files) : files[f].mtime = t /\ \A n \in Name : disk[n] # f
  <2>1. PICK f \in 1..Len(files) : files[f].mtime = t /\ \A n \in Name : disk[n] # f
    BY <1>4
  <2>2. t # 0
    BY <1>1, <2>1 DEF Typed, DiskTyped
  <2>3. PICK n \in Name : Holds(n, t)
    BY <1>2, <1>4, <2>2
  <2>4. disk[n] \in 1..Len(files) /\ files[disk[n]].mtime = t
    BY <2>3, HeldIsPast
  <2> QED
    BY <2>1, <2>4 DEF Typed, DiskTyped
<1> QED
  BY <1>3, <1>4

LEMMA PartsHiddenStep ==
  ASSUME Typed, SeenIsPast, PartsHidden, [Next]_vars
  PROVE  PartsHidden'
<1>0. DiskStep /\ UploadsMove
  BY DiskSteps, UploadSteps
<1>1. /\ Len(files) \in Nat /\ clock \in Nat /\ files \in Seq(File) /\ Len(files') \in Nat
      /\ <<>> \in Seq(Nat) /\ Upload \subseteq Nat
      /\ \A n \in Name : disk[n] \in Nat /\ disk[n] <= Len(files)
  BY <1>0, FilesGrow, NamesAndNumbers DEF Typed, DiskTyped
<1>2. \A v \in Upload : upload[v] \in Handler /\ (upload[v].ph = "writing" => upload[v].file \in 1..Len(files))
  BY DEF Typed, UploadTyped
<1>3. ASSUME NEW v \in Upload, upload'[v] = upload[v] \/ upload'[v] = [upload[v] EXCEPT !.sent = @ + 1]
      PROVE  upload'[v].ph = upload[v].ph /\ upload'[v].file = upload[v].file
             /\ upload'[v].chunked = upload[v].chunked
  BY <1>2, <1>3 DEF Handler
<1>4. ASSUME NEW u \in Upload, IsPart(u)', upload'[u].file = upload[u].file, IsPart(u)
      PROVE  Hidden(u)'
  <2> DEFINE f == upload[u].file
  <2>1. /\ f \in 1..Len(files) /\ \A n \in Name : disk[n] # f
        /\ \A v \in Upload \ {u} : upload[v].ph = "writing" => upload[v].file # f
        /\ ~Seen(files[f].mtime)
    BY <1>2, <1>4 DEF IsPart, PartsHidden, Hidden
  <2>f. f = upload[u].file
    OBVIOUS
  <2> HIDE DEF f
  <2>2. ASSUME NEW n \in Name PROVE disk'[n] # f
    <3>1. CASE FilesKept \/ FileUnlinked
      BY <1>1, <2>1, <3>1 DEF FilesKept, FileUnlinked, NoFile, Typed, DiskTyped
    <3>2. CASE FileNamed
      <4>1. PICK v \in Upload, m \in Name :
              IsPart(v) /\ upload'[v].ph # "writing" /\ disk' = [disk EXCEPT ![m] = upload[v].file]
        BY <3>2 DEF FileNamed
      <4>2. upload[v].file # f
        BY <1>4, <2>1, <4>1 DEF IsPart
      <4> QED
        BY <2>1, <4>1, <4>2 DEF Typed, DiskTyped
    <3>3. CASE FileWritten
      BY <1>1, <2>1, <3>3 DEF FileWritten
    <3> QED
      BY <1>0, <3>1, <3>2, <3>3 DEF DiskStep
  <2>3. ASSUME NEW v \in Upload \ {u}, upload'[v].ph = "writing" PROVE upload'[v].file # f
    <3>1. CASE upload'[v] = upload[v] \/ upload'[v] = [upload[v] EXCEPT !.sent = @ + 1]
      BY <1>3, <2>1, <2>3, <3>1
    <3>2. CASE Begun(v)
      BY <1>1, <2>1, <3>2 DEF Begun, Opened
    <3> QED
      BY <1>0, <2>3, <3>1, <3>2 DEF UploadsMove, UploadMoves
  <2>4. \A t \in Nat : t = files'[f].mtime => ~Seen(t)'
    <3>1. files'[f] = files[f] \/ files'[f].mtime = clock + 1
      BY <1>0, <2>1, FilesGrow
    <3>2. \A t \in Nat : t = clock + 1 \/ t = files[f].mtime => ~Seen(t)'
      BY <2>1, StaysUnseen
    <3> QED
      BY <3>1, <3>2
  <2>5. files'[f].mtime \in Nat
    <3>1. files' \in Seq(File) /\ Len(files) <= Len(files')
      BY <1>0, FilesGrow
    <3>2. f \in 1..Len(files')
      BY <1>1, <2>1, <3>1
    <3>3. files'[f] \in File
      BY <3>1, <3>2
    <3> QED
      BY <3>3 DEF File
  <2>6. upload'[u].file = f
    BY <1>4, <2>f
  <2>7. ~Seen(files[upload[u].file].mtime)'
    BY <2>4, <2>5, <2>6 DEF Seen
  <2> QED
    BY <2>2, <2>3, <2>6, <2>7 DEF Hidden
<1>5. ASSUME NEW u \in Upload, IsPart(u)', upload'[u] # upload[u], Begun(u)
      PROVE  Hidden(u)'
  <2>1. upload'[u].file = Len(files) + 1 /\ disk' = disk /\ Wrote(Len(files) + 1, <<>>, u)
    BY <1>5 DEF Begun, IsPart
  <2>2. files'[Len(files) + 1] = [blocks |-> <<>>, mtime |-> clock + 1, by |-> u]
    <3>1. Len(files) + 1 \in 1..(Len(files) + 1) /\ u \in Nat
      BY <1>1
    <3> QED
      BY <1>1, <2>1, <3>1, WroteFiles
  <2>3. \A v \in Upload \ {u} : upload'[v] = upload[v]
    BY <1>0, <1>5 DEF UploadsMove
  <2>4. \A t \in Nat : t = clock + 1 => ~Seen(t)'
    BY StaysUnseen
  <2>5. files'[upload'[u].file].mtime = clock + 1 /\ clock + 1 \in Nat
    BY <1>1, <2>1, <2>2
  <2>6. ~Seen(files[upload[u].file].mtime)'
    BY <2>4, <2>5 DEF Seen
  <2>7. \A n \in Name : disk'[n] # upload'[u].file
    BY <1>1, <2>1
  <2>8. \A v \in Upload \ {u} : upload'[v].ph = "writing" => upload'[v].file # upload'[u].file
    BY <1>1, <1>2, <2>1, <2>3
  <2> QED
    BY <2>6, <2>7, <2>8 DEF Hidden
<1>6. ASSUME NEW u \in Upload, IsPart(u)'
      PROVE  Hidden(u)'
  <2>1. CASE upload'[u] = upload[u] \/ upload'[u] = [upload[u] EXCEPT !.sent = @ + 1]
    <3>1. IsPart(u) /\ upload'[u].file = upload[u].file
      BY <1>3, <1>6, <2>1 DEF IsPart
    <3> QED
      BY <1>4, <1>6, <3>1
  <2>2. CASE upload'[u] # upload[u] /\ Begun(u)
    BY <1>5, <1>6, <2>2
  <2>3. UploadMoves(u) /\ upload'[u].ph = "writing"
    BY <1>0, <1>6 DEF UploadsMove, IsPart
  <2> QED
    BY <2>1, <2>2, <2>3 DEF UploadMoves
<1> QED
  BY <1>6 DEF PartsHidden

-----------------------------------------------------------------------------
(* What is remembered stays true *)

LEMMA ContentType ==
  ASSUME Typed, NEW n \in Name
  PROVE  Content(n) \in Seq(Nat) /\ Len(Content(n)) \in Nat
<1>1. CASE disk[n] = NoFile
  BY <1>1 DEF Content
<1>2. CASE disk[n] # NoFile
  <2>1. files \in Seq(File) /\ disk[n] \in 1..Len(files)
    BY <1>2 DEF Typed, DiskTyped, NoFile
  <2> QED
    BY <1>2, <2>1, FileAt DEF Content
<1> QED
  BY <1>1, <1>2

\* The next block read is the next block of what is there.
LEMMA PrefixGrows ==
  ASSUME files \in Seq(File), NEW f \in 1..Len(files), NEW got \in Seq(Nat), ~AtEnd(got, f),
         Prefix(got, files[f].blocks)
  PROVE  Prefix(Read(got, f), files[f].blocks)
<1> DEFINE more == Read(got, f)
<1>1. /\ more \in Seq(Nat) /\ Len(more) = Len(got) + 1
      /\ Len(got) + 1 \in 1..Len(files[f].blocks)
      /\ more[Len(got) + 1] = files[f].blocks[Len(got) + 1]
      /\ \A k \in 1..Len(got) : more[k] = got[k]
  BY ReadOnType
<1>2. Len(got) \in Nat /\ \A k \in 1..Len(got) : got[k] = files[f].blocks[k]
  BY DEF Prefix
<1>3. Len(files[f].blocks) \in Nat
  BY FileAt
<1> HIDE DEF more
<1>4. Len(more) <= Len(files[f].blocks)
  BY <1>1, <1>2, <1>3
<1>5. ASSUME NEW k \in 1..Len(more) PROVE more[k] = files[f].blocks[k]
  <2>1. k \in 1..Len(got) \/ k = Len(got) + 1
    BY <1>1, <1>2
  <2>2. CASE k \in 1..Len(got)
    BY <1>1, <1>2, <2>2
  <2>3. CASE k = Len(got) + 1
    BY <1>1, <2>3
  <2> QED
    BY <2>1, <2>2, <2>3
<1> QED
  BY <1>4, <1>5 DEF more, Prefix

\* No file has the time of a missing row.
LEMMA NotAtZero ==
  ASSUME Typed, [Next]_vars, NEW n \in Name
  PROVE  ~Holds(n, 0)'
BY DiskTypedStep DEF DiskTyped, Holds, NoFile

LEMMA RowsTrueStep ==
  ASSUME FilesInv, [Next]_vars
  PROVE  RowsTrue'
<1>0. Typed /\ PartsHidden /\ SeenIsPast /\ DiskStep /\ ReadersMove
  BY DiskSteps, ReaderSteps DEF FilesInv
<1> SUFFICES ASSUME NEW n \in Name, Holds(n, index[n].mtime)', index'[n].size = Len(Content(n)')
             PROVE  index'[n].hash = Content(n)'
  BY DEF RowsTrue
<1>1. CASE index'[n] = index[n]
  <2> DEFINE t == index[n].mtime
  <2>1. t \in Nat /\ Seen(t)
    BY <1>0 DEF Typed, ReaderTyped, Row, Seen
  <2>2. \A s \in Nat : s = t => Holds(n, s)'
    BY <1>1 DEF Holds
  <2>3. Holds(n, t) /\ Content(n)' = Content(n)
    BY <1>0, <2>1, <2>2, SeenIsUnchanged
  <2> QED
    BY <1>1, <2>3 DEF FilesInv, RowsTrue
<1>2. CASE index'[n] = NoRow
  <2>1. index'[n].mtime = 0
    BY <1>2 DEF NoRow
  <2>2. ~Holds(n, 0)'
    BY <1>0, NotAtZero
  <2> QED
    BY <2>1, <2>2 DEF Holds
<1>3. ASSUME NEW r \in Reader, FilesKept, info[r].name = n, info[r].ph = "read",
             AtEnd(info[r].got, info[r].file), index'[n] = Remembered(r)
      PROVE  index'[n].hash = Content(n)'
  <2>1. index'[n].mtime = info[r].mtime /\ index'[n].hash = info[r].got
    BY <1>3 DEF Remembered
  <2>2. Holds(n, info[r].mtime) /\ Content(n)' = Content(n)
    BY <1>3, <2>1 DEF FilesKept, Holds, Content
  <2>3. info[r].file = disk[n] /\ Prefix(info[r].got, Content(n))
    BY <1>3, <2>2 DEF FilesInv, ReadersTrue
  <2>4. Len(info[r].got) >= Len(Content(n))
    BY <1>3, <2>2, <2>3 DEF AtEnd, Content, Holds
  <2>5. info[r].got \in Seq(Nat) /\ Content(n) \in Seq(Nat)
    BY <1>0, ContentType DEF Typed, ReaderTyped, InfoCall
  <2> QED
    BY <2>1, <2>2, <2>3, <2>4, <2>5, PrefixIsAll
<1>4. RowMoves(n)
  BY <1>0 DEF ReadersMove
<1> QED
  BY <1>1, <1>2, <1>3, <1>4 DEF RowMoves

LEMMA ReadersTrueStep ==
  ASSUME FilesInv, [Next]_vars
  PROVE  ReadersTrue'
<1>0. Typed /\ PartsHidden /\ SeenIsPast /\ DiskStep /\ ReadersMove
  BY DiskSteps, ReaderSteps DEF FilesInv
<1> SUFFICES ASSUME NEW r \in Reader, info'[r].ph = "read", Holds(info[r].name, info[r].mtime)'
             PROVE  /\ info'[r].file = disk'[info'[r].name]
                    /\ Prefix(info'[r].got, Content(info[r].name)')
  BY DEF ReadersTrue, Content
<1>t. info[r] \in InfoCall
  BY <1>0 DEF Typed, ReaderTyped
<1>1. CASE info'[r] = info[r]
  <2> DEFINE t == info[r].mtime
             n == info[r].name
  <2>1. t \in Nat /\ n \in Name /\ Seen(t)
    BY <1>t DEF InfoCall, Seen
  <2>2. \A s \in Nat, m \in Name : s = t /\ m = n => Holds(m, s)'
    BY <1>1 DEF Holds
  <2>3. \A m \in Name : m = n => Holds(m, t) /\ disk'[m] = disk[m] /\ Content(m)' = Content(m)
    BY <1>0, <2>1, <2>2, SeenIsUnchanged
  <2>4. info[r].file = disk[n] /\ Prefix(info[r].got, Content(n))
    BY <1>1, <2>1, <2>3 DEF FilesInv, ReadersTrue
  <2> QED
    BY <1>1, <2>1, <2>3, <2>4 DEF Content
<1>2. CASE Started(r) \/ Looked(r)
  BY <1>2 DEF Started, Looked
<1>3. CASE WasOpened(r)
  <2>1. Len(Content(info[r].name)) \in Nat
    BY <1>0, <1>t, ContentType DEF InfoCall
  <2> QED
    BY <1>3, <2>1 DEF WasOpened, FilesKept, Content, Prefix
<1>4. CASE ReadOn(r)
  <2> DEFINE n == info[r].name
             more == Read(info[r].got, info[r].file)
  <2>1. FilesKept /\ info[r].ph = "read" /\ info'[r] = [info[r] EXCEPT !.got = more]
        /\ ~AtEnd(info[r].got, info[r].file)
    BY <1>4 DEF ReadOn
  <2> HIDE DEF more
  <2>2. info'[r].name = n /\ info'[r].mtime = info[r].mtime /\ info'[r].file = info[r].file
        /\ info'[r].got = more
    BY <1>t, <2>1 DEF InfoCall
  <2>3. Holds(n, info[r].mtime) /\ Content(info[r].name)' = Content(n)
    BY <2>1, <2>2 DEF Holds, FilesKept, Content
  <2>4. info[r].file = disk[n] /\ Prefix(info[r].got, Content(n))
    BY <2>1, <2>3 DEF FilesInv, ReadersTrue
  <2>5. /\ files \in Seq(File) /\ info[r].file \in 1..Len(files) /\ info[r].got \in Seq(Nat)
        /\ Content(n) = files[info[r].file].blocks
    BY <1>0, <1>t, <2>1, <2>3, <2>4 DEF Typed, DiskTyped, ReaderTyped, InfoCall, Content, Holds
  <2>6. Prefix(more, Content(n))
    BY <2>1, <2>4, <2>5, PrefixGrows DEF more
  <2> QED
    BY <2>1, <2>2, <2>3, <2>4, <2>6 DEF FilesKept
<1>5. InfoMoves(r)
  BY <1>0 DEF ReadersMove
<1> QED
  BY <1>1, <1>2, <1>3, <1>4, <1>5 DEF InfoMoves

LEMMA LoaderTrueStep ==
  ASSUME FilesInv, [Next]_vars
  PROVE  LoaderTrue'
<1>0. Typed /\ PartsHidden /\ SeenIsPast /\ DiskStep /\ LoaderMoves /\ 0 \in Name
  BY DiskSteps, LoaderSteps, NamesAndNumbers DEF FilesInv
<1> SUFFICES ASSUME loader'.ph = "loading", Holds(0, loader.key[1])'
             PROVE  loader'.file = disk'[0] /\ Prefix(loader'.got, Content(0)')
  BY DEF LoaderTrue, Content
<1>t. loader \in LoaderRecord /\ loader.key[1] \in Nat
  BY <1>0 DEF Typed, LoaderTyped, LoaderRecord, Key
<1>1. CASE loader' = loader
  <2> DEFINE t == loader.key[1]
  <2>1. t \in Nat /\ Seen(t)
    BY <1>t DEF Seen
  <2>2. \A s \in Nat : s = t => Holds(0, s)'
    BY <1>1 DEF Holds
  <2>3. Holds(0, t) /\ disk'[0] = disk[0] /\ Content(0)' = Content(0)
    BY <1>0, <2>1, <2>2, SeenIsUnchanged
  <2>4. loader.file = disk[0] /\ Prefix(loader.got, Content(0))
    BY <1>1, <2>3 DEF FilesInv, LoaderTrue
  <2> QED
    BY <1>1, <2>3, <2>4
<1>2. CASE LoaderRests
  BY <1>2 DEF LoaderRests
<1>3. CASE FilesKept /\ LoaderOpens
  <2>1. Len(Content(0)) \in Nat /\ Content(0)' = Content(0)
    BY <1>0, <1>3, ContentType DEF FilesKept, Content
  <2> QED
    BY <1>3, <2>1 DEF LoaderOpens, FilesKept, Prefix
<1>4. CASE FilesKept /\ LoaderReads
  <2> DEFINE more == Read(loader.got, loader.file)
  <2>1. FilesKept /\ loader.ph = "loading" /\ loader' = [loader EXCEPT !.got = more]
        /\ ~AtEnd(loader.got, loader.file)
    BY <1>4 DEF LoaderReads
  <2> HIDE DEF more
  <2>2. loader'.key = loader.key /\ loader'.file = loader.file /\ loader'.got = more
    BY <1>t, <2>1 DEF LoaderRecord
  <2>3. Holds(0, loader.key[1]) /\ Content(0)' = Content(0)
    BY <2>1, <2>2 DEF Holds, FilesKept, Content
  <2>4. loader.file = disk[0] /\ Prefix(loader.got, Content(0))
    BY <2>1, <2>3 DEF FilesInv, LoaderTrue
  <2>5. /\ files \in Seq(File) /\ loader.file \in 1..Len(files) /\ loader.got \in Seq(Nat)
        /\ Content(0) = files[loader.file].blocks
    BY <1>0, <1>t, <2>1, <2>3, <2>4
    DEF Typed, DiskTyped, LoaderTyped, LoaderRecord, Content, Holds
  <2>6. Prefix(more, Content(0))
    BY <2>1, <2>4, <2>5, PrefixGrows DEF more
  <2> QED
    BY <2>1, <2>2, <2>3, <2>4, <2>6 DEF FilesKept
<1> QED
  BY <1>0, <1>1, <1>2, <1>3, <1>4 DEF LoaderMoves

LEMMA CacheTrueStep ==
  ASSUME FilesInv, [Next]_vars
  PROVE  CacheTrue'
<1>0. Typed /\ PartsHidden /\ SeenIsPast /\ DiskStep /\ LoaderMoves /\ 0 \in Name
  BY DiskSteps, LoaderSteps, NamesAndNumbers DEF FilesInv
<1>k. \A k \in DOMAIN cache : k[1] \in Nat /\ Seen(k[1])
  BY <1>0 DEF Typed, LoaderTyped, Key, Seen
\* An output that was there already.
<1>1. ASSUME NEW k \in DOMAIN cache, Holds(0, k[1])', k[2] = Len(Content(0)') PROVE cache[k] = Content(0)'
  <2>1. Holds(0, k[1]) /\ Content(0)' = Content(0)
    <3>1. k[1] \in Nat /\ Seen(k[1])
      BY <1>k
    <3>2. \A s \in Nat : s = k[1] => Holds(0, s)'
      BY <1>1 DEF Holds
    <3> QED
      BY <1>0, <3>1, <3>2, SeenIsUnchanged
  <2> QED
    BY <1>1, <2>1 DEF FilesInv, CacheTrue
<1>2. CASE cache' = cache
  BY <1>1, <1>2 DEF CacheTrue, Content
<1>3. CASE FilesKept /\ CacheGrows
  <2>1. ASSUME Holds(0, loader.key[1]) PROVE loader.got = Content(0)
    <3>1. loader.file = disk[0] /\ Prefix(loader.got, Content(0))
      BY <1>3, <2>1 DEF CacheGrows, FilesInv, LoaderTrue
    <3>2. Len(loader.got) >= Len(Content(0))
      BY <1>3, <2>1, <3>1 DEF CacheGrows, AtEnd, Content, Holds
    <3>3. loader.got \in Seq(Nat) /\ Content(0) \in Seq(Nat)
      BY <1>0, ContentType DEF Typed, LoaderTyped
    <3> QED
      BY <3>1, <3>2, <3>3, PrefixIsAll
  <2>2. \A k : Holds(0, k[1])' <=> Holds(0, k[1])
    BY <1>3 DEF FilesKept, Holds
  <2>3. Content(0)' = Content(0)
    BY <1>3 DEF FilesKept, Content
  <2>4. ASSUME NEW k \in DOMAIN cache', Holds(0, k[1])', k[2] = Len(Content(0)')
        PROVE  cache'[k] = Content(0)'
    <3>1. CASE k = loader.key
      BY <1>3, <2>1, <2>2, <2>3, <2>4, <3>1 DEF CacheGrows
    <3>2. CASE k # loader.key
      <4>1. k \in DOMAIN cache /\ cache'[k] = cache[k]
        BY <1>3, <2>4, <3>2 DEF CacheGrows
      <4> QED
        BY <1>1, <2>4, <4>1
    <3> QED
      BY <3>1, <3>2
  <2> QED
    BY <2>4 DEF CacheTrue, Content
<1> QED
  BY <1>0, <1>2, <1>3 DEF LoaderMoves

-----------------------------------------------------------------------------
(* The invariant holds *)

LEMMA InitInv == Init => FilesInv
<1> SUFFICES ASSUME Init PROVE FilesInv
  OBVIOUS
<1>0. /\ 0 \in Name /\ Name \subseteq Nat /\ NumUploads \in Nat /\ <<>> \in Seq(Nat) /\ Len(<<>>) = 0
      /\ NumUploads + 1 \in Nat
  BY FilesAssumption, NamesAndNumbers
<1>1. /\ clock = 1 /\ events = 0 /\ index = [n \in Name |-> NoRow] /\ upload = [u \in Upload |-> NoUpload]
      /\ info = [r \in Reader |-> NoInfo] /\ cache = [k \in {} |-> <<>>]
      /\ loader = [ph |-> "dirty", key |-> Fingerprint, file |-> NoFile, got |-> <<>>]
  BY DEF Init
<1>2. DiskTyped
  <2>1. CASE files = <<>> /\ disk = [n \in Name |-> NoFile]
    <3>1. files \in Seq(File) /\ Len(files) = 0
      BY <2>1
    <3> QED
      BY <1>0, <1>1, <2>1, <3>1 DEF DiskTyped, NoFile
  <2>2. CASE /\ files = <<[blocks |-> Whole(NumUploads + 1), mtime |-> 1, by |-> 0]>>
             /\ disk = [n \in Name |-> IF n = 0 THEN 1 ELSE NoFile]
    <3> DEFINE file == [blocks |-> Whole(NumUploads + 1), mtime |-> 1, by |-> 0]
    <3>1. file \in File /\ file.mtime = 1
      BY <1>0, WholeType DEF File
    <3>2. files = <<file>>
      BY <2>2
    <3> HIDE DEF file
    <3>3. files \in Seq(File) /\ Len(files) = 1 /\ files[1] = file
      BY <3>1, <3>2
    <3> QED
      BY <1>0, <1>1, <2>2, <3>1, <3>3 DEF DiskTyped, NoFile
  <2> QED
    BY <2>1, <2>2 DEF Init
<1>3. UploadTyped /\ PartsHidden
  <2>1. NoUpload \in Handler /\ NoUpload.ph = "none"
    BY <1>0 DEF NoUpload, Handler, NoFile
  <2> QED
    BY <1>1, <2>1 DEF UploadTyped, PartsHidden, IsPart
<1>4. ReaderTyped /\ (\A n \in Name : index[n].mtime = 0) /\ (\A r \in Reader : info[r].mtime = 0 /\ info[r].ph = "none")
  <2>1. NoInfo \in InfoCall /\ NoInfo.ph = "none" /\ NoInfo.mtime = 0
    BY <1>0 DEF NoInfo, InfoCall, NoFile
  <2>2. NoRow \in Row /\ NoRow.mtime = 0
    BY <1>0 DEF NoRow, Row
  <2> QED
    BY <1>1, <2>1, <2>2 DEF ReaderTyped
<1>5. Fingerprint \in Key /\ Fingerprint[1] <= 1
  <2>1. CASE disk[0] = NoFile
    BY <2>1 DEF Fingerprint, Missing, Key
  <2>2. CASE disk[0] # NoFile
    <3>1. disk[0] \in 1..Len(files) /\ files \in Seq(File)
      BY <1>0, <1>2, <2>2 DEF DiskTyped, NoFile
    <3>2. Len(files[disk[0]].blocks) \in Nat /\ files[disk[0]].mtime \in 1..1
      BY <1>1, <1>2, <3>1, FileAt DEF DiskTyped
    <3> QED
      BY <2>2, <3>2 DEF Fingerprint, Stat, Key
  <2> QED
    BY <2>1, <2>2
<1>6. LoaderTyped /\ loader.ph = "dirty" /\ loader.key = Fingerprint /\ DOMAIN cache = {}
  BY <1>0, <1>1, <1>5 DEF LoaderTyped, NoFile
<1>7. \A n \in Name : ~Holds(n, 0)
  BY <1>2 DEF DiskTyped, Holds, NoFile
<1>8. SeenIsPast
  BY <1>1, <1>4, <1>5, <1>6 DEF SeenIsPast, Seen
<1>9. RowsTrue /\ ReadersTrue /\ LoaderTrue /\ CacheTrue
  BY <1>4, <1>6, <1>7 DEF RowsTrue, ReadersTrue, LoaderTrue, CacheTrue
<1> QED
  BY <1>2, <1>3, <1>4, <1>6, <1>8, <1>9 DEF FilesInv, Typed

LEMMA StepInv == FilesInv /\ [Next]_vars => FilesInv'
<1> SUFFICES ASSUME FilesInv, [Next]_vars PROVE FilesInv'
  OBVIOUS
<1>1. Typed /\ SeenIsPast /\ PartsHidden
  BY DEF FilesInv
<1>2. Typed'
  BY <1>1, DiskTypedStep, UploadTypedStep, ReaderTypedStep, LoaderTypedStep DEF Typed
<1>3. PartsHidden' /\ SeenIsPast'
  BY <1>1, PartsHiddenStep, SeenIsPastStep
<1>4. RowsTrue' /\ ReadersTrue' /\ LoaderTrue' /\ CacheTrue'
  BY RowsTrueStep, ReadersTrueStep, LoaderTrueStep, CacheTrueStep
<1> QED
  BY <1>2, <1>3, <1>4 DEF FilesInv

\* Files, uploads, readers and the loader have their types, a part that waits for its name
\* is hidden, and whatever is remembered under a time is the content that has that time
\* (the handlers of server/workspace.py, FileIndex and the loader's call together).
THEOREM FilesInvAlways == Spec => []FilesInv
<1>1. FilesInv /\ [Next]_vars => FilesInv'
  BY StepInv
<1> QED
  BY InitInv, <1>1, PTL DEF Spec

\* The row FileIndex.info would reuse for the file that is there has that file's hash.
THEOREM HashIsOfWhatIsThereAlways == Spec => []HashIsOfWhatIsThere
<1>1. FilesInv => HashIsOfWhatIsThere
  <2> SUFFICES ASSUME FilesInv, NEW n \in Name, disk[n] # NoFile,
                      <<index[n].mtime, index[n].size>> = Stat(disk[n])
               PROVE  index[n].hash = Content(n)
    BY DEF HashIsOfWhatIsThere
  <2>1. Holds(n, index[n].mtime) /\ index[n].size = Len(Content(n))
    BY DEF Stat, Holds, Content
  <2> QED
    BY <2>1 DEF FilesInv, RowsTrue
<1> QED
  BY FilesInvAlways, <1>1, PTL

\* What the loader node's output is served for, file_fingerprint of the file that is
\* there, names the content it was loaded from.
THEOREM KeyNamesContentAlways == Spec => []KeyNamesContent
<1>1. FilesInv => KeyNamesContent
  <2> SUFFICES ASSUME FilesInv, Fingerprint # Missing, Fingerprint \in DOMAIN cache
               PROVE  cache[Fingerprint] = Content(0)
    BY DEF KeyNamesContent
  <2>1. disk[0] # NoFile /\ Fingerprint = Stat(disk[0])
    BY DEF Fingerprint
  <2>2. Holds(0, Fingerprint[1]) /\ Fingerprint[2] = Len(Content(0))
    BY <2>1 DEF Stat, Holds, Content
  <2> QED
    BY <2>2 DEF FilesInv, CacheTrue
<1> QED
  BY FilesInvAlways, <1>1, PTL

\* A step on a file that is there, by an upload, is that upload's own or was asked to
\* overwrite: the name is looked at again when the last chunk takes it.
LEMMA UploadsKeepStep ==
  ASSUME Typed, [Next]_vars, NEW n \in Name, NEW u \in Upload,
         disk[n] # NoFile, upload'[u] # upload[u],
         <<disk'[n], Content(n)'>> # <<disk[n], Content(n)>>
  PROVE  upload'[u].overwrites \/ files[disk[n]].by = u
<1>0. /\ upload \in [Upload -> Handler] /\ disk \in [Name -> Nat] /\ files \in Seq(File)
      /\ Len(files) \in Nat /\ clock \in Nat /\ disk[n] \in 1..Len(files) /\ Upload \subseteq Nat \ {0}
      /\ <<>> \in Seq(Nat) /\ 0 \in Name
  BY NamesAndNumbers DEF Typed, DiskTyped, UploadTyped, NoFile
<1>1. ASSUME disk'[n] = disk[n], files'[disk[n]].blocks = files[disk[n]].blocks PROVE FALSE
  BY <1>1 DEF Content
<1>2. ~UNCHANGED upload
  OBVIOUS
\* A new file changes none that is there.
<1>3. ASSUME NEW by \in Nat, Wrote(Len(files) + 1, <<>>, by), disk'[n] = disk[n] PROVE FALSE
  <2>1. Len(files) + 1 \in 1..(Len(files) + 1) /\ disk[n] # Len(files) + 1
    BY <1>0
  <2>2. files'[disk[n]] = files[disk[n]]
    BY <1>0, <1>3, <2>1, WroteFiles
  <2> QED
    BY <1>1, <1>3, <2>2
<1>4. ASSUME NEW v \in Upload, NEW c \in OnConflict, BeginUpload(v, c)
      PROVE  upload'[u].overwrites
  <2>1. PICK m \in FinalTarget(c) :
          /\ upload' = [upload EXCEPT ![v] = [
               ph |-> "writing", overwrites |-> c = "overwrite", chunked |-> FALSE,
               name |-> m, file |-> Opened(m), sent |-> 0]]
          /\ disk' = [disk EXCEPT ![m] = Opened(m)]
          /\ Wrote(Opened(m), <<>>, MakerOf(Opened(m), v))
    BY <1>1, <1>4 DEF BeginUpload
  <2>2. u = v /\ upload'[u].overwrites = (c = "overwrite")
    BY <1>0, <2>1
  <2>3. CASE c # "overwrite"
    <3>1. m \in Name /\ disk[m] = NoFile
      BY <1>0, <2>3 DEF FinalTarget, FirstFree
    <3>2. Opened(m) = Len(files) + 1 /\ MakerOf(Len(files) + 1, v) = v
      BY <1>0, <3>1 DEF Opened, MakerOf
    <3>3. Wrote(Len(files) + 1, <<>>, v) /\ disk'[n] = disk[n]
      BY <1>0, <2>1, <3>1, <3>2
    <3> QED
      BY <1>0, <1>3, <3>3
  <2> QED
    BY <2>2, <2>3
<1>5. ASSUME NEW v \in Upload, BeginChunks(v) PROVE FALSE
  BY <1>0, <1>3, <1>5 DEF BeginChunks
<1>6. ASSUME NEW v \in Upload, WriteBlock(v) PROVE upload'[u].overwrites \/ files[disk[n]].by = u
  <2> DEFINE f == upload[v].file
             blocks == WithBlock(files[f].blocks, upload[v].sent + 1, v)
  <2>1. /\ f \in 1..Len(files) /\ files[f] \in File /\ upload[v].sent + 1 \in Nat \ {0} /\ v \in Nat
        /\ upload[v].overwrites \/ files[f].by = v
    BY <1>0, <1>6 DEF WriteBlock, Typed, UploadTyped, Handler
  <2>2. blocks \in Seq(Nat) /\ files[f].by \in Nat /\ f \in 1..(Len(files) + 1)
    <3>1. files[f].blocks \in Seq(Nat) /\ files[f].by \in Nat
      BY <2>1 DEF File
    <3>2. blocks \in Seq(Nat)
      BY <2>1, <3>1, WithBlockType
    <3>3. f \in 1..(Len(files) + 1)
      BY <1>0, <2>1
    <3> QED
      BY <3>1, <3>2, <3>3
  <2>3. Wrote(f, blocks, files[f].by) /\ disk' = disk /\ upload' = [upload EXCEPT ![v].sent = @ + 1]
    BY <1>6 DEF WriteBlock
  <2>4. u = v /\ upload'[u].overwrites = upload[v].overwrites
    BY <1>0, <2>3 DEF Handler
  <2> HIDE DEF f, blocks
  <2>5. \A g \in 1..Len(files) : g # f => files'[g] = files[g]
    BY <1>0, <2>2, <2>3, WroteFiles
  <2>6. disk[n] = f
    BY <1>0, <1>1, <2>3, <2>5
  <2> QED
    BY <2>1, <2>4, <2>6
<1>7. ASSUME NEW v \in Upload, EndUpload(v) PROVE FALSE
  BY <1>1, <1>7 DEF EndUpload
<1>8. ASSUME NEW v \in Upload, NEW c \in OnConflict, EndChunks(v, c) PROVE upload'[u].overwrites
  <2>1. files' = files
    BY <1>8 DEF EndChunks, EndChunksAt
  <2>2. PICK m \in FinalTarget(c) :
          disk' = [disk EXCEPT ![m] = upload[v].file] /\ Answering(v, m, c = "overwrite")
    BY <1>1, <1>8, <2>1 DEF EndChunks, EndChunksAt
  <2>3. u = v /\ upload'[u].overwrites = (c = "overwrite")
    BY <1>0, <2>2 DEF Answering, Over, NoUpload
  <2>4. CASE c # "overwrite"
    <3>1. disk[m] = NoFile
      BY <1>0, <2>4 DEF FinalTarget, FirstFree
    <3> QED
      BY <1>0, <1>1, <2>1, <2>2, <3>1
  <2> QED
    BY <2>3, <2>4
<1>9. ASSUME NEW m \in Name, Delete(m) PROVE FALSE
  BY <1>2, <1>9 DEF Delete, handlers
<1>10. ASSUME NEW r \in Reader, NEW m \in Name,
              RequestInfo(r, m) \/ InfoStat(r) \/ InfoLook(r) \/ InfoRead(r) \/ InfoRemember(r)
       PROVE  FALSE
  BY <1>2, <1>10 DEF RequestInfo, InfoStat, InfoLook, InfoRead, InfoRemember
<1>11. ASSUME OutsideWrite \/ OutsideRemove \/ Edit \/ Run \/ LoadRead \/ LoadDone \/ UNCHANGED vars
       PROVE  FALSE
  BY <1>2, <1>11 DEF OutsideWrite, OutsideRemove, Edit, Run, LoadRead, LoadDone, vars, handlers
<1> QED
  BY <1>0, <1>4, <1>5, <1>6, <1>7, <1>8, <1>9, <1>10, <1>11 DEF Next, UploadStep

\* No upload that was not asked to overwrite touches a file it has not made, however many
\* uploads of the same name, deletions and other programs overlap.
THEOREM UploadsKeepWhatIsThereAlways == Spec => UploadsKeepWhatIsThere
<1> DEFINE Kept == \A n \in Name : \A u \in Upload :
       disk[n] # NoFile /\ upload'[u] # upload[u] /\ <<disk'[n], Content(n)'>> # <<disk[n], Content(n)>> =>
         upload'[u].overwrites \/ files[disk[n]].by = u
<1>1. FilesInv /\ [Next]_vars => [Kept]_vars
  <2>1. ASSUME FilesInv, [Next]_vars, ~UNCHANGED vars PROVE Kept
    BY <2>1, UploadsKeepStep DEF FilesInv
  <2> QED
    BY <2>1
<1> QED
  BY FilesInvAlways, <1>1, PTL DEF Spec, UploadsKeepWhatIsThere
=============================================================================
