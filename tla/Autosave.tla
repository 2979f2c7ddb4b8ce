------------------------------ MODULE Autosave ------------------------------
(***************************************************************************)
(* Saving the open workflow (frontend/src/stores/workflow.ts, its          *)
(* "autosave" section) against the server's store                          *)
(* (backend/src/astro_canvas/server/runtime.py, save and get).             *)
(*                                                                         *)
(* Edits bump changeSeq and arm a timer.  The timer, Ctrl+S and the run    *)
(* buttons all call saveNow, an async function: several of its calls can   *)
(* be suspended at once, on the PUT they issued or on the PUT that was in  *)
(* flight when they started.  When a PUT is answered, the call that issued *)
(* it resumes first and the calls that waited for it after, in the order   *)
(* they started to wait, before any other browser event.                   *)
(*                                                                         *)
(* PUTs travel on separate connections, so the server may apply them in    *)
(* another order than they were sent in, and the answers may cross too.    *)
(***************************************************************************)
EXTENDS Integers, Sequences

CONSTANTS
  Workflows,   \* workflow ids on the server
  MaxCalls,    \* bound on the calls of saveNow suspended at once
  MaxEdits,    \* bound on the edits
  MaxLoads,    \* bound on the documents opened
  MaxFailures  \* bound on the PUTs that fail

ASSUME AutosaveAssumption ==
  /\ MaxCalls \in Nat \ {0} /\ MaxEdits \in Nat /\ MaxLoads \in Nat
  /\ MaxFailures \in Nat

Calls == 1..MaxCalls
None == 0
Blank == [edit |-> 0, layout |-> 0]
NotRead == [edit |-> -1, layout |-> -1]
NoDoc == [wf |-> "none", load |-> 0, content |-> Blank]
NoCall == [at |-> "idle", run |-> FALSE]
NoPut == [ph |-> "none", wf |-> "none", load |-> 0, seq |-> 0, content |-> Blank]

VARIABLES
  doc,       \* the open document; load tells one object from another, content
             \* is its last edit and its last saved layout
  changeSeq, savedSeq, saveState,
  timer,     \* saveTimer is armed
  saving,    \* the promise of the save in flight: the call that issued it
  call,      \* the suspended calls of saveNow; run: made by session.run
  waiting,   \* waiting[c]: the calls that await the promise of c's PUT, in that order
  micro,     \* calls whose await is over, about to resume
  put,       \* put[c]: the PUT that call c issued
  server,    \* the content stored for each workflow
  got,       \* got[w]: the content of the GET of w on its way back
  edits, loads, failures,
  overlapped \* observer: two PUTs have been in flight together

vars == <<doc, changeSeq, savedSeq, saveState, timer, saving, call, waiting,
          micro, put, server, got, edits, loads, failures, overlapped>>
store == <<doc, changeSeq, savedSeq, saveState, timer>>
promises == <<saving, call, waiting, micro>>
counters == <<edits, loads, failures>>

IsOpen == doc.load # 0
IsDirty == changeSeq # savedSeq
InFlight == {c \in Calls : put[c].ph # "none"}
\* No promise continuation is due: the browser may handle the next event.
Settled == micro = <<>>
IdleCalls == {c \in Calls : call[c].at = "idle"}
NewCall == CHOOSE c \in IdleCalls : TRUE

Init ==
  /\ doc = NoDoc /\ changeSeq = 0 /\ savedSeq = 0 /\ saveState = "clean"
  /\ timer = FALSE /\ saving = None
  /\ call = [c \in Calls |-> NoCall] /\ put = [c \in Calls |-> NoPut]
  /\ waiting = [c \in Calls |-> <<>>] /\ micro = <<>>
  /\ server = [w \in Workflows |-> Blank] /\ got = [w \in Workflows |-> NotRead]
  /\ edits = 0 /\ loads = 0 /\ failures = 0
  /\ overlapped = FALSE

(***************************************************************************)
(* The document.                                                           *)
(***************************************************************************)
\* A commit, an undo or a redo: markChanged and scheduleSave.
Edit ==
  /\ Settled /\ IsOpen /\ edits < MaxEdits
  /\ edits' = edits + 1
  /\ doc' = [doc EXCEPT !.content.edit = edits + 1]
  /\ changeSeq' = changeSeq + 1
  /\ saveState' = "pending" /\ timer' = TRUE
  /\ UNCHANGED <<savedSeq, promises, put, server, got, loads, failures, overlapped>>

\* Batch mode's saveLayout writes into the document and schedules a save, but
\* goes around commit: changeSeq stays.
SaveLayout ==
  /\ Settled /\ IsOpen /\ edits < MaxEdits
  /\ edits' = edits + 1
  /\ doc' = [doc EXCEPT !.content.layout = edits + 1]
  /\ saveState' = "pending" /\ timer' = TRUE
  /\ UNCHANGED <<changeSeq, savedSeq, promises, put, server, got, loads, failures, overlapped>>

\* The server answers a GET; the browser will load what it read.
GetServed(w) ==
  /\ got[w] = NotRead /\ doc.wf # w
  /\ got' = [got EXCEPT ![w] = server[w]]
  /\ UNCHANGED <<store, promises, put, server, counters, overlapped>>

Load(w) ==
  /\ Settled /\ got[w] # NotRead /\ loads < MaxLoads
  /\ loads' = loads + 1
  /\ doc' = [wf |-> w, load |-> loads + 1, content |-> got[w]]
  /\ got' = [got EXCEPT ![w] = NotRead]
  /\ changeSeq' = 0 /\ savedSeq' = 0 /\ saveState' = "clean" /\ timer' = FALSE
  /\ UNCHANGED <<promises, put, server, edits, failures, overlapped>>

Close ==
  /\ Settled /\ IsOpen
  /\ doc' = NoDoc
  /\ changeSeq' = 0 /\ savedSeq' = 0 /\ saveState' = "clean" /\ timer' = FALSE
  /\ UNCHANGED <<promises, put, server, got, counters, overlapped>>

(***************************************************************************)
(* saveNow.  Call c stands at its top, or past its wait, or at its end.    *)
(***************************************************************************)
Returned(c, how) ==
  call' = [call EXCEPT ![c] =
    IF how.run THEN [how EXCEPT !.at = "posting"] ELSE NoCall]

\* performSave: the document as it is now goes on its way.
PerformSave(c, how) ==
  /\ saving' = c
  /\ call' = [call EXCEPT ![c] = [how EXCEPT !.at = "saving"]]
  /\ put' = [put EXCEPT ![c] = [ph |-> "sent", wf |-> doc.wf, load |-> doc.load,
                                seq |-> changeSeq, content |-> doc.content]]
  /\ saveState' = "saving"
  /\ overlapped' = (overlapped \/ InFlight \ {c} # {})
  /\ UNCHANGED waiting

\* Past `await saving`: save if there is something to save, else return.
Proceed(c, how) ==
  IF IsOpen /\ IsDirty
  THEN PerformSave(c, how)
  ELSE /\ saveState' = IF saveState # "pending" THEN saveState
                       ELSE IF savedSeq = 0 THEN "clean" ELSE "saved"
       /\ Returned(c, how)
       /\ UNCHANGED <<saving, waiting, put, overlapped>>

\* The top of saveNow; a save in flight is awaited, once.
SaveNow(c, how) ==
  /\ timer' = FALSE
  /\ IF saving # None
     THEN /\ waiting' = [waiting EXCEPT ![saving] = Append(@, c)]
          /\ call' = [call EXCEPT ![c] = [how EXCEPT !.at = "waiting"]]
          /\ UNCHANGED <<saving, put, saveState, overlapped>>
     ELSE Proceed(c, how)

\* The timer runs out, or the user asks for a save (run: through session.run).
TimerFires ==
  /\ Settled /\ timer /\ IdleCalls # {}
  /\ SaveNow(NewCall, NoCall)
  /\ UNCHANGED <<doc, changeSeq, savedSeq, micro, server, got, counters>>

UserSaves ==
  /\ Settled /\ IsOpen /\ IdleCalls # {}
  /\ SaveNow(NewCall, NoCall)
  /\ UNCHANGED <<doc, changeSeq, savedSeq, micro, server, got, counters>>

UserRuns ==
  /\ Settled /\ IsOpen /\ IdleCalls # {}
  /\ SaveNow(NewCall, [NoCall EXCEPT !.run = TRUE])
  /\ UNCHANGED <<doc, changeSeq, savedSeq, micro, server, got, counters>>

(***************************************************************************)
(* The server and the answers.                                             *)
(***************************************************************************)
ServerSaves(c) ==
  /\ put[c].ph = "sent"
  /\ server' = [server EXCEPT ![put[c].wf] = put[c].content]
  /\ put' = [put EXCEPT ![c].ph = "applied"]
  /\ UNCHANGED <<store, promises, got, counters, overlapped>>

\* The call that issued the PUT goes first, then the calls that wait for it.
Wake(c, ok) ==
  /\ micro' = <<[call |-> c, put |-> TRUE, ok |-> ok]>> \o
              [i \in 1..Len(waiting[c]) |-> [call |-> waiting[c][i], put |-> FALSE, ok |-> ok]]
  /\ waiting' = [waiting EXCEPT ![c] = <<>>]
  /\ put' = [put EXCEPT ![c] = NoPut]

\* A plausible bug: performSave takes the change counter after the request, not before.
AnsweredLate(c) ==
  /\ Settled /\ put[c].ph = "applied"
  /\ IF doc.load = put[c].load
     THEN savedSeq' = changeSeq /\ saveState' = "saved"
     ELSE UNCHANGED <<savedSeq, saveState>>
  /\ Wake(c, TRUE)
  /\ UNCHANGED <<doc, changeSeq, timer, saving, call, server, got, counters, overlapped>>

\* A plausible bug: performSave shows "saved" whatever was edited meanwhile.
AnsweredSaved(c) ==
  /\ Settled /\ put[c].ph = "applied"
  /\ IF doc.load = put[c].load
     THEN savedSeq' = put[c].seq /\ saveState' = "saved"
     ELSE UNCHANGED <<savedSeq, saveState>>
  /\ Wake(c, TRUE)
  /\ UNCHANGED <<doc, changeSeq, timer, saving, call, server, got, counters, overlapped>>

\* performSave after its await: an answer for a document that is no longer the
\* open one changes nothing.
Answered(c) ==
  /\ Settled /\ put[c].ph = "applied"
  /\ IF doc.load = put[c].load
     THEN /\ savedSeq' = put[c].seq
          /\ saveState' = IF changeSeq = put[c].seq THEN "saved" ELSE "pending"
     ELSE UNCHANGED <<savedSeq, saveState>>
  /\ Wake(c, TRUE)
  /\ UNCHANGED <<doc, changeSeq, timer, saving, call, server, got, counters, overlapped>>

\* A plausible bug: a failed save shows nothing.
FailedSilently(c) ==
  /\ Settled /\ put[c].ph \in {"sent", "applied"} /\ failures < MaxFailures
  /\ failures' = failures + 1
  /\ saveState' = "pending"
  /\ Wake(c, FALSE)
  /\ UNCHANGED <<doc, changeSeq, savedSeq, timer, saving, call, server, got,
                 edits, loads, overlapped>>

\* The PUT never reached the server, or its answer was lost on the way back.
Failed(c) ==
  /\ Settled /\ put[c].ph \in {"sent", "applied"} /\ failures < MaxFailures
  /\ failures' = failures + 1
  /\ saveState' = "error"
  /\ Wake(c, FALSE)
  /\ UNCHANGED <<doc, changeSeq, savedSeq, timer, saving, call, server, got,
                 edits, loads, overlapped>>

\* A plausible bug: the saver stops after its PUT, whatever was edited meanwhile.
AgainNever(m) == FALSE

\* saveNow after `ok = await saving`: another round for edits that came in meanwhile.
Again(m) == m.ok /\ IsDirty /\ IsOpen

\* The next continuation: a call past its own PUT or past its wait for another's.
Resume ==
  /\ ~Settled
  /\ LET m == Head(micro)
         c == m.call
     IN IF ~m.put THEN Proceed(c, call[c]) /\ UNCHANGED timer
        ELSE IF Again(m) THEN PerformSave(c, call[c]) /\ timer' = FALSE
        ELSE /\ saving' = None /\ Returned(c, call[c])
             /\ UNCHANGED <<timer, saveState, waiting, put, overlapped>>
  /\ micro' = Tail(micro)
  /\ UNCHANGED <<doc, changeSeq, savedSeq, server, got, counters>>

\* session.run posts the run once saveNow has returned, whether it saved or not.
RunPosted(c) ==
  /\ call[c].at = "posting"
  /\ call' = [call EXCEPT ![c] = NoCall]
  /\ UNCHANGED <<store, saving, waiting, micro, put, server, got, counters, overlapped>>

Browser == Edit \/ SaveLayout \/ Close \/ UserSaves \/ UserRuns
Next ==
  \/ Browser
  \/ \E w \in Workflows : GetServed(w) \/ Load(w)
  \/ TimerFires \/ Resume
  \/ \E c \in Calls : ServerSaves(c) \/ Answered(c) \/ Failed(c) \/ RunPosted(c)

Spec == Init /\ [][Next]_vars

\* Timers run out, promises are resumed, and a request is answered or fails.
FairSpec ==
  /\ Spec
  /\ WF_vars(TimerFires) /\ WF_vars(Resume)
  /\ \A c \in Calls : /\ WF_vars(ServerSaves(c))
                      /\ WF_vars(Answered(c) \/ Failed(c))
                      /\ WF_vars(RunPosted(c))

(***************************************************************************)
(* Properties.                                                             *)
(***************************************************************************)
Contents == [edit : 0..MaxEdits, layout : 0..MaxEdits]
Docs == [wf : Workflows \cup {"none"}, load : 0..MaxLoads, content : Contents]
CallStates == [at : {"idle", "waiting", "saving", "posting"}, run : BOOLEAN]
Puts == [ph : {"none", "sent", "applied"}, wf : Workflows \cup {"none"},
         load : 0..MaxLoads, seq : 0..MaxEdits, content : Contents]
Continuations == [call : Calls, put : BOOLEAN, ok : BOOLEAN]

\* Every variable keeps its type.
TypeOK ==
  /\ doc \in Docs /\ changeSeq \in 0..edits /\ savedSeq \in 0..MaxEdits
  /\ saveState \in {"clean", "pending", "saving", "saved", "error"}
  /\ timer \in BOOLEAN /\ saving \in Calls \cup {None}
  /\ call \in [Calls -> CallStates] /\ put \in [Calls -> Puts]
  /\ waiting \in [Calls -> Seq(Calls)] /\ micro \in Seq(Continuations)
  /\ server \in [Workflows -> Contents] /\ got \in [Workflows -> Contents \cup {NotRead}]
  /\ edits \in 0..MaxEdits /\ loads \in 0..MaxLoads /\ failures \in 0..MaxFailures
  /\ overlapped \in BOOLEAN

\* An edit of the open document is never forgotten: until it is saved there is
\* a timer, a call of saveNow that will look again, or an error on display; also
\* when PUTs overlap and an older answer takes savedSeq back.
NoEditForgotten ==
  IsOpen /\ IsDirty =>
    \/ timer \/ saveState = "error"
    \/ \E c \in Calls : call[c].at \in {"waiting", "saving"}

\* What the toolbar shows: "clean" and "saved" only without unsaved edits,
\* "saving" only while a PUT is on its way; also when answers for a document
\* that was replaced come in late.
SaveStateTruthful ==
  /\ saveState \in {"clean", "saved"} => ~IsDirty
  /\ saveState = "saving" => InFlight # {}

\* As long as no two PUTs were in flight together, "saved" means that the server
\* stores the canvas's last edit, whatever failed or was loaded before.
SavedIsStored ==
  saveState = "saved" /\ ~overlapped => server[doc.wf].edit = doc.content.edit

\* An edit is saved in the end, unless its save fails or the document is closed.
EditsAreSaved == (IsOpen /\ IsDirty) ~> (~IsDirty \/ saveState = "error")

=============================================================================
