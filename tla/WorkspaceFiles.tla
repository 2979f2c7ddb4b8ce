---------------------------- MODULE WorkspaceFiles ----------------------------
(***************************************************************************)
(* The files of a workspace and the three readers that remember something  *)
(* about them: uploads (server/workspace.py) put them there, the index of  *)
(* hashes (store/files.py) remembers a hash by modification time and size, *)
(* and a loader node's output is cached under the file's fingerprint       *)
(* (core pack, io/paths.py, through Scheduler.update).                     *)
(*                                                                         *)
(* Uploads interleave at the awaits between their blocks; hashing and      *)
(* loading run on threads and read block by block through a handle, while  *)
(* the file may be written, replaced or removed.  A file is what a handle  *)
(* holds on to: a name on the disk leads to it, an unlinked one lives on.  *)
(*                                                                         *)
(* Every write is assumed to give its file a modification time no file had *)
(* before.  A block is the number of its writer: an upload's, or that of a *)
(* change made by another program.  All whole files have the same size.    *)
(***************************************************************************)
EXTENDS Integers, Sequences

CONSTANTS
  NumUploads,  \* uploads, all of one file name
  NumRequests, \* requests for the hash of a file
  Size,        \* blocks of a whole file
  MaxEvents    \* bound on the uploads, deletions, requests, edits, runs and changes
               \* by other programs together

ASSUME FilesAssumption ==
  /\ NumUploads \in Nat /\ NumRequests \in Nat /\ Size \in Nat \ {0}
  /\ MaxEvents \in Nat

Upload == 1..NumUploads
Reader == 1..(NumUploads + NumRequests) \* an upload's own info, then the requests
Name == 0..NumUploads                   \* "name", "name (1)", "name (2)", ...
OnConflict == {"error", "rename", "overwrite"}
NoFile == 0
Hole == 0

VARIABLES
  disk,   \* the file each name leads to
  files,  \* every file there has been: its blocks, mtime_ns, and the upload that made it
  clock,  \* the latest modification time
  index,  \* files table: name -> the row, its mtime 0 if there is none
  upload, \* the upload handlers
  info,   \* FileIndex.info, one per thread
  loader, \* the loader node's record and its call
  cache,  \* the loader's outputs: fingerprint in the key -> what was loaded
  events  \* how many there were

handlers == <<upload, info>>
engine == <<loader, cache>>
vars == <<disk, files, clock, index, upload, info, loader, cache, events>>

NoRow == [mtime |-> 0, size |-> 0, hash |-> <<>>]
NoUpload == [ph |-> "none", overwrites |-> FALSE, chunked |-> FALSE, name |-> 0, file |-> NoFile, sent |-> 0]
Over(ph, overwrites) == [NoUpload EXCEPT !.ph = ph, !.overwrites = overwrites]
NoInfo == [ph |-> "none", name |-> 0, mtime |-> 0, size |-> 0, file |-> NoFile, got |-> <<>>]
InfoOver == [NoInfo EXCEPT !.ph = "over"] \* answered, or failed because there is no file

Missing == <<0, 0>>
Stat(f) == <<files[f].mtime, Len(files[f].blocks)>>
FingerprintOfSize == IF disk[0] = NoFile THEN Missing ELSE <<1, Len(files[disk[0]].blocks)>>
\* file_fingerprint: mtime_ns and size, or "missing".
Fingerprint == IF disk[0] = NoFile THEN Missing ELSE Stat(disk[0])

Whole(writer) == [k \in 1..Size |-> writer]

\* At first the loader's file is there, or not yet; its workflow has just been opened.
Init ==
  /\ clock = 1
  /\ \/ /\ files = <<[blocks |-> Whole(NumUploads + 1), mtime |-> 1, by |-> 0]>>
        /\ disk = [n \in Name |-> IF n = 0 THEN 1 ELSE NoFile]
     \/ files = <<>> /\ disk = [n \in Name |-> NoFile]
  /\ index = [n \in Name |-> NoRow]
  /\ upload = [u \in Upload |-> NoUpload]
  /\ info = [r \in Reader |-> NoInfo]
  /\ loader = [ph |-> "dirty", key |-> Fingerprint, file |-> NoFile, got |-> <<>>]
  /\ cache = [k \in {} |-> <<>>]
  /\ events = 0

\* What comes from outside, as far as it is bounded.
Event == events < MaxEvents /\ events' = events + 1
-----------------------------------------------------------------------------
(* Writing *)

\* A file is written to: f \notin DOMAIN files makes a new one.
Wrote(f, blocks, by) ==
  LET file == [blocks |-> blocks, mtime |-> clock + 1, by |-> by]
  IN  /\ files' = IF f \in DOMAIN files THEN [files EXCEPT ![f] = file] ELSE Append(files, file)
      /\ clock' = clock + 1

\* The handle of a name opened with "wb", which keeps the file that is there.
Opened(n) == IF disk[n] = NoFile THEN Len(files) + 1 ELSE disk[n]
MakerOf(f, u) == IF f \in DOMAIN files THEN files[f].by ELSE u

\* _unique_name: the first candidate that does not exist.
FirstFree == {n \in Name : disk[n] = NoFile /\ \A k \in 0..(n - 1) : disk[k] # NoFile}

\* _final_target: the name the upload gets, or none (409).
FinalTarget(conflict) ==
  IF disk[0] = NoFile \/ conflict = "overwrite" THEN {0}
  ELSE IF conflict = "rename" THEN FirstFree ELSE {}

\* upload_file, a single request: the name is chosen and opened in one step.
BeginUpload(u, conflict) ==
  /\ Event /\ upload[u] = NoUpload
  /\ \/ \E n \in FinalTarget(conflict) :
          /\ upload' = [upload EXCEPT ![u] = [
               ph |-> "writing", overwrites |-> conflict = "overwrite", chunked |-> FALSE,
               name |-> n, file |-> Opened(n), sent |-> 0]]
          /\ disk' = [disk EXCEPT ![n] = Opened(n)]
          /\ Wrote(Opened(n), <<>>, MakerOf(Opened(n), u))
     \/ /\ FinalTarget(conflict) = {}
        /\ upload' = [upload EXCEPT ![u] = Over("refused", FALSE)]
        /\ UNCHANGED <<disk, files, clock>>
  /\ UNCHANGED <<index, info, engine>>

\* upload_file, chunk 0: a part file of the upload's own.
BeginChunks(u) ==
  /\ Event /\ upload[u] = NoUpload
  /\ upload' = [upload EXCEPT ![u] = [
       ph |-> "writing", overwrites |-> FALSE, chunked |-> TRUE,
       name |-> 0, file |-> Len(files) + 1, sent |-> 0]]
  /\ Wrote(Len(files) + 1, <<>>, u)
  /\ UNCHANGED <<disk, index, info, engine>>

\* One block at the handle's own offset: what lies before it in a file another writer
\* has truncated is a hole.
WithBlock(blocks, at, b) ==
  [k \in 1..(IF at > Len(blocks) THEN at ELSE Len(blocks)) |->
     IF k = at THEN b ELSE IF k <= Len(blocks) THEN blocks[k] ELSE Hole]

WriteBlock(u) ==
  LET up == upload[u]
  IN  /\ up.ph = "writing" /\ up.sent < Size
      /\ Wrote(up.file, WithBlock(files[up.file].blocks, up.sent + 1, u), files[up.file].by)
      /\ upload' = [upload EXCEPT ![u].sent = @ + 1]
      /\ UNCHANGED <<disk, index, info, engine, events>>

\* The end of a single upload and of a last chunk: forget the row, and look at the file
\* on a thread of the upload's own (reader u).
Answering(u, n, overwrites) ==
  /\ upload' = [upload EXCEPT ![u] = Over("done", overwrites)]
  /\ index' = [index EXCEPT ![n] = NoRow]
  /\ info' = [info EXCEPT ![u] = [NoInfo EXCEPT !.ph = "stat", !.name = n]]

EndUpload(u) ==
  /\ upload[u].ph = "writing" /\ upload[u].sent = Size /\ ~upload[u].chunked
  /\ Answering(u, upload[u].name, upload[u].overwrites)
  /\ UNCHANGED <<disk, files, clock, engine, events>>

EndChunksAt(u, names, overwrites) ==
  /\ upload[u].ph = "writing" /\ upload[u].sent = Size /\ upload[u].chunked
  /\ \/ \E n \in names :
          /\ disk' = [disk EXCEPT ![n] = upload[u].file]
          /\ Answering(u, n, overwrites)
     \/ /\ names = {}
        /\ upload' = [upload EXCEPT ![u] = Over("refused", FALSE)]
        /\ UNCHANGED <<disk, index, info>>
  /\ UNCHANGED <<files, clock, engine, events>>

\* The name is chosen only now, as the last chunk asks, and the part replaces what the
\* name leads to.
EndChunksUnchecked(u, conflict) == EndChunksAt(u, {0}, conflict = "overwrite")
EndChunks(u, conflict) == EndChunksAt(u, FinalTarget(conflict), conflict = "overwrite")

\* delete_path: the file is unlinked and its row forgotten.
Delete(n) ==
  /\ Event /\ disk[n] # NoFile
  /\ disk' = [disk EXCEPT ![n] = NoFile]
  /\ index' = [index EXCEPT ![n] = NoRow]
  /\ UNCHANGED <<files, clock, handlers, engine>>

\* Another program writes the file in place, or makes it.
OutsideWrite ==
  /\ Event
  /\ disk' = [disk EXCEPT ![0] = Opened(0)]
  /\ Wrote(Opened(0), Whole(NumUploads + 2 + events), MakerOf(Opened(0), 0))
  /\ UNCHANGED <<index, handlers, engine>>

\* Another program removes the file, or delete_path its folder: no row is forgotten.
OutsideRemove ==
  /\ Event /\ disk[0] # NoFile
  /\ disk' = [disk EXCEPT ![0] = NoFile]
  /\ UNCHANGED <<files, clock, index, handlers, engine>>
-----------------------------------------------------------------------------
(* The index of hashes *)

RequestInfo(r, n) ==
  /\ Event /\ r > NumUploads /\ info[r] = NoInfo /\ disk[n] # NoFile
  /\ info' = [info EXCEPT ![r] = [NoInfo EXCEPT !.ph = "stat", !.name = n]]
  /\ UNCHANGED <<disk, files, clock, index, upload, engine>>

\* FileIndex.info, on a thread: the stat of the file, an error if there is none.
InfoStat(r) ==
  LET f == disk[info[r].name]
  IN  /\ info[r].ph = "stat"
      /\ info' = [info EXCEPT ![r] =
           IF f = NoFile THEN InfoOver
           ELSE [@ EXCEPT !.ph = "look", !.mtime = files[f].mtime, !.size = Len(files[f].blocks)]]
      /\ UNCHANGED <<disk, files, clock, index, upload, engine, events>>

\* A row of the same mtime and size is the answer; otherwise hash_path opens the file that
\* is there now.
InfoLook(r) ==
  LET f == disk[info[r].name]
      row == index[info[r].name]
  IN  /\ info[r].ph = "look"
      /\ info' = [info EXCEPT ![r] =
           IF f = NoFile \/ (row.mtime = info[r].mtime /\ row.size = info[r].size) THEN InfoOver
           ELSE [@ EXCEPT !.ph = "read", !.file = f]]
      /\ UNCHANGED <<disk, files, clock, index, upload, engine, events>>

Read(got, f) == Append(got, files[f].blocks[Len(got) + 1])
AtEnd(got, f) == Len(got) >= Len(files[f].blocks)

InfoRead(r) ==
  /\ info[r].ph = "read" /\ ~AtEnd(info[r].got, info[r].file)
  /\ info' = [info EXCEPT ![r].got = Read(@, info[r].file)]
  /\ UNCHANGED <<disk, files, clock, index, upload, engine, events>>

RememberedLate(r) ==
  LET f == info[r].file
  IN  [mtime |-> files[f].mtime, size |-> Len(files[f].blocks), hash |-> info[r].got]
\* FileIndex.remember: under the mtime and the size of the stat before the hashing.
Remembered(r) == [mtime |-> info[r].mtime, size |-> info[r].size, hash |-> info[r].got]

InfoRemember(r) ==
  /\ info[r].ph = "read" /\ AtEnd(info[r].got, info[r].file)
  /\ index' = [index EXCEPT ![info[r].name] = Remembered(r)]
  /\ info' = [info EXCEPT ![r] = InfoOver]
  /\ UNCHANGED <<disk, files, clock, upload, engine, events>>
-----------------------------------------------------------------------------
(* The loader node *)

\* Scheduler.update, after an edit of something else: the fingerprint is taken again, and
\* only if it changed is the node dirty and its call cancelled.
Edit ==
  /\ Event
  /\ loader' = IF Fingerprint = loader.key THEN loader
               ELSE [ph |-> "dirty", key |-> Fingerprint, file |-> NoFile, got |-> <<>>]
  /\ UNCHANGED <<disk, files, clock, index, handlers, cache>>

\* A run takes the output from the cache or starts the call, which opens the file.
Run ==
  /\ Event /\ loader.ph \in {"dirty", "error"}
  /\ loader' = IF loader.key \in DOMAIN cache THEN [loader EXCEPT !.ph = "done"]
               ELSE IF disk[0] = NoFile THEN [loader EXCEPT !.ph = "error"]
               ELSE [loader EXCEPT !.ph = "loading", !.file = disk[0]]
  /\ UNCHANGED <<disk, files, clock, index, handlers, cache>>

LoadRead ==
  /\ loader.ph = "loading" /\ ~AtEnd(loader.got, loader.file)
  /\ loader' = [loader EXCEPT !.got = Read(@, loader.file)]
  /\ UNCHANGED <<disk, files, clock, index, handlers, cache, events>>

\* _execute_node stores what was loaded under the record's key.
LoadDone ==
  /\ loader.ph = "loading" /\ AtEnd(loader.got, loader.file)
  /\ cache' = [k \in DOMAIN cache \cup {loader.key} |->
                IF k = loader.key THEN loader.got ELSE cache[k]]
  /\ loader' = [loader EXCEPT !.ph = "done", !.file = NoFile, !.got = <<>>]
  /\ UNCHANGED <<disk, files, clock, index, handlers, events>>
-----------------------------------------------------------------------------
\* Uploads are numbered in the order they begin.
UploadStep(u) ==
  \/ /\ \A v \in 1..(u - 1) : upload[v] # NoUpload
     /\ BeginChunks(u) \/ \E c \in OnConflict : BeginUpload(u, c)
  \/ WriteBlock(u)
  \/ EndUpload(u)
  \/ \E c \in OnConflict : EndChunks(u, c)

Next ==
  \/ \E u \in Upload : UploadStep(u)
  \/ \E n \in Name : Delete(n)
  \/ OutsideWrite
  \/ OutsideRemove
  \/ \E r \in Reader : \E n \in Name : RequestInfo(r, n)
  \/ \E r \in Reader : InfoStat(r) \/ InfoLook(r) \/ InfoRead(r) \/ InfoRemember(r)
  \/ Edit
  \/ Run
  \/ LoadRead
  \/ LoadDone

Spec == Init /\ [][Next]_vars
-----------------------------------------------------------------------------
(* Properties *)

Content(n) == IF disk[n] = NoFile THEN <<>> ELSE files[disk[n]].blocks

\* "A row is reused while the file's (mtime_ns, size) pair is unchanged" (files.py:3):
\* the row that would be reused for what is there now has its hash, whatever was
\* written, replaced or removed while a thread was reading it.
HashIsOfWhatIsThere ==
  \A n \in Name :
    disk[n] # NoFile /\ <<index[n].mtime, index[n].size>> = Stat(disk[n]) =>
      index[n].hash = Content(n)

\* A file that is there is changed or replaced by an upload only if the upload was asked
\* to overwrite, or has made that file itself, however uploads, deletions and other
\* programs overlap: upload_file looks again when the last chunk arrives.
UploadsKeepWhatIsThere ==
  [][\A n \in Name : \A u \in Upload :
       disk[n] # NoFile /\ upload'[u] # upload[u] /\ <<disk'[n], Content(n)'>> # <<disk[n], Content(n)>> =>
         upload'[u].overwrites \/ files[disk[n]].by = u
    ]_vars

\* "so editing or replacing a file re-runs them" (io/paths.py:40): an output kept under
\* the file's present fingerprint was loaded from the present content, also when the
\* file was still being uploaded, was replaced or came back while the node was loading.
KeyNamesContent ==
  Fingerprint # Missing /\ Fingerprint \in DOMAIN cache => cache[Fingerprint] = Content(0)
=============================================================================
