---------------------------- MODULE AutosaveProofs ----------------------------
(***************************************************************************)
(* What TLAPS proves of Autosave for every number of suspended calls,      *)
(* edits, documents and failures: its invariants follow from where the     *)
(* suspended calls stand (Lists) and from what the PUTs carry (SeqNumbers).*)
(***************************************************************************)
EXTENDS Autosave, SequenceTheorems, TLAPS

-----------------------------------------------------------------------------
(* Types *)

LEMMA NewCallIdle ==
  ASSUME IdleCalls # {}
  PROVE  NewCall \in Calls /\ call[NewCall].at = "idle"
BY DEF NewCall, IdleCalls

LEMMA ReturnedType ==
  ASSUME TypeOK, NEW c \in Calls, NEW how \in CallStates, Returned(c, how)
  PROVE  /\ call' \in [Calls -> CallStates]
         /\ call'[c].at \in {"idle", "posting"}
         /\ \A d \in Calls \ {c} : call'[d] = call[d]
<1> DEFINE after == IF how.run THEN [how EXCEPT !.at = "posting"] ELSE NoCall
<1>1. after \in CallStates /\ after.at \in {"idle", "posting"}
  BY DEF CallStates, NoCall
<1>2. call' = [call EXCEPT ![c] = after] /\ call \in [Calls -> CallStates]
  BY DEF Returned, TypeOK
<1> HIDE DEF after
<1> QED
  BY <1>1, <1>2

LEMMA PerformSaveType ==
  ASSUME TypeOK, NEW c \in Calls, NEW how \in CallStates, PerformSave(c, how)
  PROVE  /\ saving' = c /\ saveState' = "saving" /\ waiting' = waiting /\ overlapped' \in BOOLEAN
         /\ call' \in [Calls -> CallStates] /\ call'[c].at = "saving"
         /\ \A d \in Calls \ {c} : call'[d] = call[d]
         /\ put' \in [Calls -> Puts]
         /\ put'[c] = [ph |-> "sent", wf |-> doc.wf, load |-> doc.load,
                       seq |-> changeSeq, content |-> doc.content]
         /\ \A d \in Calls \ {c} : put'[d] = put[d]
<1> DEFINE after == [how EXCEPT !.at = "saving"]
           sent == [ph |-> "sent", wf |-> doc.wf, load |-> doc.load,
                    seq |-> changeSeq, content |-> doc.content]
<1>1. after \in CallStates /\ after.at = "saving"
  BY DEF CallStates
<1>2. sent \in Puts
  BY AutosaveAssumption DEF TypeOK, Docs, Puts
<1>3. /\ call' = [call EXCEPT ![c] = after] /\ call \in [Calls -> CallStates]
      /\ put' = [put EXCEPT ![c] = sent] /\ put \in [Calls -> Puts]
  BY DEF PerformSave, TypeOK
<1>4. saving' = c /\ saveState' = "saving" /\ waiting' = waiting
  BY DEF PerformSave
<1>5. overlapped' \in BOOLEAN
  BY DEF PerformSave, TypeOK
<1> HIDE DEF after
<1> QED
  BY <1>1, <1>2, <1>3, <1>4, <1>5

LEMMA ProceedType ==
  ASSUME TypeOK, NEW c \in Calls, NEW how \in CallStates, Proceed(c, how)
  PROVE  /\ saving' \in Calls \cup {None} /\ waiting' = waiting /\ overlapped' \in BOOLEAN
         /\ saveState' \in {"clean", "pending", "saving", "saved", "error"}
         /\ call' \in [Calls -> CallStates] /\ put' \in [Calls -> Puts]
         /\ \A d \in Calls \ {c} : call'[d] = call[d] /\ put'[d] = put[d]
<1>1. CASE IsOpen /\ IsDirty
  BY <1>1, PerformSaveType DEF Proceed
<1>2. CASE ~(IsOpen /\ IsDirty)
  BY <1>2, ReturnedType DEF Proceed, TypeOK
<1> QED
  BY <1>1, <1>2

LEMMA SaveNowType ==
  ASSUME TypeOK, NEW c \in Calls, NEW how \in CallStates, SaveNow(c, how)
  PROVE  /\ saving' \in Calls \cup {None} /\ waiting' \in [Calls -> Seq(Calls)]
         /\ overlapped' \in BOOLEAN /\ timer' \in BOOLEAN
         /\ saveState' \in {"clean", "pending", "saving", "saved", "error"}
         /\ call' \in [Calls -> CallStates] /\ put' \in [Calls -> Puts]
<1>1. CASE saving = None
  BY <1>1, ProceedType DEF SaveNow, TypeOK
<1>2. CASE saving # None
  <2>1. saving \in Calls /\ waiting \in [Calls -> Seq(Calls)] /\ call \in [Calls -> CallStates]
    BY <1>2 DEF TypeOK
  <2>2. [how EXCEPT !.at = "waiting"] \in CallStates
    BY DEF CallStates
  <2>3. Append(waiting[saving], c) \in Seq(Calls)
    BY <2>1, AppendProperties
  <2> QED
    BY <1>2, <2>1, <2>2, <2>3 DEF SaveNow, TypeOK
<1> QED
  BY <1>1, <1>2

\* The continuations of c's promise, in the order in which they will resume.
LEMMA WakeType ==
  ASSUME TypeOK, NEW c \in Calls, NEW ok \in BOOLEAN, Wake(c, ok)
  PROVE  /\ micro' \in Seq(Continuations) /\ waiting' \in [Calls -> Seq(Calls)]
         /\ put' \in [Calls -> Puts]
         /\ Len(micro') = Len(waiting[c]) + 1
         /\ micro'[1] = [call |-> c, put |-> TRUE, ok |-> ok]
         /\ \A i \in 2..Len(micro') :
              micro'[i] = [call |-> waiting[c][i - 1], put |-> FALSE, ok |-> ok]
         /\ waiting'[c] = <<>> /\ put'[c].ph = "none"
         /\ \A d \in Calls \ {c} : waiting'[d] = waiting[d] /\ put'[d] = put[d]
<1> DEFINE own == <<[call |-> c, put |-> TRUE, ok |-> ok]>>
           rest == [i \in 1..Len(waiting[c]) |-> [call |-> waiting[c][i], put |-> FALSE, ok |-> ok]]
<1>1. waiting[c] \in Seq(Calls) /\ waiting \in [Calls -> Seq(Calls)] /\ put \in [Calls -> Puts]
  BY DEF TypeOK
<1>2. Len(waiting[c]) \in Nat /\ \A i \in 1..Len(waiting[c]) : waiting[c][i] \in Calls
  BY <1>1, LenProperties, ElementOfSeq
<1>3. rest \in Seq(Continuations) /\ Len(rest) = Len(waiting[c])
  BY <1>2, IsASeq DEF Continuations
<1>4. own \in Seq(Continuations) /\ Len(own) = 1
  BY DEF Continuations
<1>h. own[1] = [call |-> c, put |-> TRUE, ok |-> ok]
  OBVIOUS
<1>5. micro' = own \o rest
  BY DEF Wake
<1>6. /\ micro' \in Seq(Continuations) /\ Len(micro') = Len(waiting[c]) + 1
      /\ micro'[1] = own[1]
      /\ \A i \in 2..Len(micro') : micro'[i] = rest[i - 1]
  <2> HIDE DEF own, rest
  <2>1. /\ micro' \in Seq(Continuations) /\ Len(micro') = Len(own) + Len(rest)
        /\ \A i \in 1..Len(own) + Len(rest) :
             micro'[i] = IF i <= Len(own) THEN own[i] ELSE rest[i - Len(own)]
    <3>1. own \in Seq(Continuations) /\ rest \in Seq(Continuations)
      BY <1>3, <1>4
    <3> QED
      BY <1>5, <3>1, ConcatProperties
  <2>2. Len(own) = 1 /\ Len(rest) \in Nat /\ Len(rest) = Len(waiting[c])
    BY <1>2, <1>3, <1>4
  <2> QED
    BY <2>1, <2>2
<1>7. NoPut \in Puts /\ NoPut.ph = "none"
  BY AutosaveAssumption DEF NoPut, Puts, Blank, Contents
<1>8. <<>> \in Seq(Calls)
  OBVIOUS
<1>9. waiting' = [waiting EXCEPT ![c] = <<>>] /\ put' = [put EXCEPT ![c] = NoPut]
  BY DEF Wake
<1>10. \A i \in 2..Len(micro') : rest[i - 1] = [call |-> waiting[c][i - 1], put |-> FALSE, ok |-> ok]
  <2> SUFFICES ASSUME NEW i \in 2..Len(micro')
               PROVE  rest[i - 1] = [call |-> waiting[c][i - 1], put |-> FALSE, ok |-> ok]
    OBVIOUS
  <2>1. i - 1 \in 1..Len(waiting[c])
    BY <1>2, <1>6
  <2> QED
    BY <2>1
<1> HIDE DEF own, rest
<1> QED
  BY <1>1, <1>h, <1>6, <1>7, <1>8, <1>9, <1>10

LEMMA ResumeCases ==
  ASSUME TypeOK, Resume
  PROVE  \E m \in Continuations :
           /\ micro # <<>> /\ m = micro[1] /\ micro' = Tail(micro) /\ micro' \in Seq(Continuations)
           /\ Len(micro) >= 1 /\ Len(micro') = Len(micro) - 1
           /\ \A i \in 1..Len(micro') : micro'[i] = micro[i + 1]
           /\ call[m.call] \in CallStates
           /\ UNCHANGED <<doc, changeSeq, savedSeq, server, got, counters>>
           /\ \/ ~m.put /\ Proceed(m.call, call[m.call]) /\ UNCHANGED timer
              \/ m.put /\ Again(m) /\ PerformSave(m.call, call[m.call]) /\ timer' = FALSE
              \/ /\ m.put /\ ~Again(m) /\ saving' = None /\ Returned(m.call, call[m.call])
                 /\ UNCHANGED <<timer, saveState, waiting, put, overlapped>>
<1>1. micro \in Seq(Continuations) /\ micro # <<>> /\ call \in [Calls -> CallStates]
  BY DEF TypeOK, Resume, Settled
<1>2. /\ Head(micro) = micro[1] /\ Len(micro) >= 1 /\ Tail(micro) \in Seq(Continuations)
      /\ Len(Tail(micro)) = Len(micro) - 1
      /\ \A i \in 1..Len(Tail(micro)) : Tail(micro)[i] = micro[i + 1]
  BY <1>1, HeadTailProperties, EmptySeq, LenProperties
<1>3. micro[1] \in Continuations
  BY <1>1, <1>2, ElementOfSeq
<1>4. micro[1].call \in Calls
  BY <1>3 DEF Continuations
<1> QED
  BY <1>1, <1>2, <1>3, <1>4 DEF Resume

LEMMA TypeInit == Init => TypeOK
<1> SUFFICES ASSUME Init PROVE TypeOK
  OBVIOUS
<1> USE AutosaveAssumption
<1>1. Blank \in Contents /\ NoDoc \in Docs /\ NoPut \in Puts
  BY DEF Blank, Contents, NoDoc, Docs, NoPut, Puts
<1>2. NoCall \in CallStates
  BY DEF NoCall, CallStates
<1>3. waiting \in [Calls -> Seq(Calls)] /\ micro \in Seq(Continuations)
  BY DEF Init
<1>4. /\ changeSeq \in 0..edits /\ savedSeq \in 0..MaxEdits /\ edits \in 0..MaxEdits
      /\ loads \in 0..MaxLoads /\ failures \in 0..MaxFailures
  BY DEF Init
<1>5. call \in [Calls -> CallStates] /\ put \in [Calls -> Puts]
  BY <1>1, <1>2 DEF Init
<1>6. server \in [Workflows -> Contents] /\ got \in [Workflows -> Contents \cup {NotRead}]
  BY <1>1 DEF Init
<1> QED
  BY <1>1, <1>3, <1>4, <1>5, <1>6 DEF Init, TypeOK

LEMMA TypeInductive == TypeOK /\ [Next]_vars => TypeOK'
<1> SUFFICES ASSUME TypeOK, [Next]_vars PROVE TypeOK'
  OBVIOUS
<1> USE AutosaveAssumption
<1>1. CASE Edit
  <2>1. edits + 1 \in 0..MaxEdits /\ changeSeq' \in 0..edits'
    BY <1>1 DEF Edit, TypeOK
  <2>2. doc' \in Docs
    BY <1>1, <2>1 DEF Edit, TypeOK, Docs, Contents
  <2> QED
    BY <1>1, <2>1, <2>2 DEF Edit, TypeOK, promises
<1>2. CASE SaveLayout
  <2>1. edits + 1 \in 0..MaxEdits /\ changeSeq' \in 0..edits'
    BY <1>2 DEF SaveLayout, TypeOK
  <2>2. doc' \in Docs
    BY <1>2, <2>1 DEF SaveLayout, TypeOK, Docs, Contents
  <2> QED
    BY <1>2, <2>1, <2>2 DEF SaveLayout, TypeOK, promises
<1>3. ASSUME NEW w \in Workflows, GetServed(w) PROVE TypeOK'
  BY <1>3 DEF GetServed, TypeOK, store, promises, counters
<1>4. ASSUME NEW w \in Workflows, Load(w) PROVE TypeOK'
  <2>1. loads + 1 \in 0..MaxLoads /\ got[w] \in Contents
    BY <1>4 DEF Load, TypeOK
  <2>2. doc' \in Docs
    BY <1>4, <2>1 DEF Load, Docs
  <2>3. got' \in [Workflows -> Contents \cup {NotRead}]
    BY <1>4 DEF Load, TypeOK
  <2>4. changeSeq' \in 0..edits' /\ savedSeq' \in 0..MaxEdits /\ loads' \in 0..MaxLoads
    BY <1>4, <2>1 DEF Load, TypeOK
  <2> QED
    BY <1>4, <2>2, <2>3, <2>4 DEF Load, TypeOK, promises
<1>5. CASE Close
  <2>1. doc' \in Docs
    BY <1>5 DEF Close, NoDoc, Blank, Docs, Contents
  <2>2. changeSeq' \in 0..edits' /\ savedSeq' \in 0..MaxEdits
    BY <1>5 DEF Close, TypeOK, counters
  <2> QED
    BY <1>5, <2>1, <2>2 DEF Close, TypeOK, promises, counters
<1>6. CASE TimerFires
  BY <1>6, NewCallIdle, SaveNowType DEF TimerFires, TypeOK, NoCall, CallStates, counters
<1>7. CASE UserSaves
  BY <1>7, NewCallIdle, SaveNowType DEF UserSaves, TypeOK, NoCall, CallStates, counters
<1>8. CASE UserRuns
  <2>1. [NoCall EXCEPT !.run = TRUE] \in CallStates
    BY DEF NoCall, CallStates
  <2> QED
    BY <1>8, <2>1, NewCallIdle, SaveNowType DEF UserRuns, TypeOK, counters
<1>9. ASSUME NEW c \in Calls, ServerSaves(c) PROVE TypeOK'
  <2>1. put[c].content \in Contents /\ [put[c] EXCEPT !.ph = "applied"] \in Puts
    BY DEF TypeOK, Puts
  <2>2. server' \in [Workflows -> Contents]
    BY <1>9, <2>1 DEF ServerSaves, TypeOK
  <2>3. put' \in [Calls -> Puts]
    BY <1>9, <2>1 DEF ServerSaves, TypeOK
  <2> QED
    BY <1>9, <2>2, <2>3 DEF ServerSaves, TypeOK, store, promises, counters
<1>10. ASSUME NEW c \in Calls, Answered(c) PROVE TypeOK'
  <2>1. put[c].seq \in 0..MaxEdits
    BY DEF TypeOK, Puts
  <2>2. /\ savedSeq' \in 0..MaxEdits
        /\ saveState' \in {"clean", "pending", "saving", "saved", "error"}
    BY <1>10, <2>1 DEF Answered, TypeOK
  <2>3. micro' \in Seq(Continuations) /\ waiting' \in [Calls -> Seq(Calls)] /\ put' \in [Calls -> Puts]
    BY <1>10, WakeType DEF Answered
  <2> QED
    BY <1>10, <2>2, <2>3 DEF Answered, TypeOK, counters
<1>11. ASSUME NEW c \in Calls, Failed(c) PROVE TypeOK'
  <2>1. micro' \in Seq(Continuations) /\ waiting' \in [Calls -> Seq(Calls)] /\ put' \in [Calls -> Puts]
    BY <1>11, WakeType DEF Failed
  <2> QED
    BY <1>11, <2>1 DEF Failed, TypeOK
<1>12. CASE Resume
  <2>1. PICK m \in Continuations :
           /\ micro' \in Seq(Continuations) /\ call[m.call] \in CallStates
           /\ UNCHANGED <<doc, changeSeq, savedSeq, server, got, counters>>
           /\ \/ ~m.put /\ Proceed(m.call, call[m.call]) /\ UNCHANGED timer
              \/ m.put /\ Again(m) /\ PerformSave(m.call, call[m.call]) /\ timer' = FALSE
              \/ /\ m.put /\ ~Again(m) /\ saving' = None /\ Returned(m.call, call[m.call])
                 /\ UNCHANGED <<timer, saveState, waiting, put, overlapped>>
    BY <1>12, ResumeCases
  <2>2. m.call \in Calls
    BY DEF Continuations
  <2>3. CASE ~m.put /\ Proceed(m.call, call[m.call]) /\ UNCHANGED timer
    BY <2>1, <2>2, <2>3, ProceedType DEF TypeOK, counters
  <2>4. CASE m.put /\ Again(m) /\ PerformSave(m.call, call[m.call]) /\ timer' = FALSE
    BY <2>1, <2>2, <2>4, PerformSaveType DEF TypeOK, counters
  <2>5. CASE /\ m.put /\ ~Again(m) /\ saving' = None /\ Returned(m.call, call[m.call])
             /\ UNCHANGED <<timer, saveState, waiting, put, overlapped>>
    BY <2>1, <2>2, <2>5, ReturnedType DEF TypeOK, counters
  <2> QED
    BY <2>1, <2>3, <2>4, <2>5
<1>13. ASSUME NEW c \in Calls, RunPosted(c) PROVE TypeOK'
  <2>1. NoCall \in CallStates
    BY DEF NoCall, CallStates
  <2> QED
    BY <1>13, <2>1 DEF RunPosted, TypeOK, store, counters
<1>14. CASE UNCHANGED vars
  BY <1>14 DEF vars, TypeOK, store, promises, counters
<1> QED
  BY <1>1, <1>2, <1>3, <1>4, <1>5, <1>6, <1>7, <1>8, <1>9, <1>10, <1>11, <1>12, <1>13, <1>14
     DEF Next, Browser

\* Every variable keeps its type, whatever is edited, loaded, saved and lost.
THEOREM TypeCorrect == Spec => []TypeOK
BY TypeInit, TypeInductive, PTL DEF Spec

-----------------------------------------------------------------------------
(* Who waits for whom *)

\* c's PUT is on its way, or answered and not yet back.
Flying(c) == put[c].ph # "none"

\* A suspended call waits for one promise, once, or is about to resume, once.
OneList ==
  /\ \A p, q \in Calls : \A i \in DOMAIN waiting[p], j \in DOMAIN waiting[q] :
       waiting[p][i] = waiting[q][j] => p = q /\ i = j
  /\ \A i, j \in DOMAIN micro : micro[i].call = micro[j].call => i = j
  /\ \A p \in Calls : \A i \in DOMAIN waiting[p], j \in DOMAIN micro :
       waiting[p][i] # micro[j].call

\* The calls are where the lists say: calls wait only for a PUT that will be answered, and
\* the call that issued it resumes first, with the error still on display if it failed.
CallsOnLists ==
  /\ \A c \in Calls : Flying(c) => call[c].at = "saving"
  /\ \A p \in Calls : \A i \in DOMAIN waiting[p] :
       call[waiting[p][i]].at = "waiting" /\ Flying(p)
  /\ \A i \in DOMAIN micro :
       IF micro[i].put
       THEN /\ i = 1 /\ ~Flying(micro[i].call) /\ call[micro[i].call].at = "saving"
            /\ micro[i].ok \/ saveState = "error"
       ELSE call[micro[i].call].at = "waiting"
  /\ saving # None =>
       Flying(saving) \/ (micro # <<>> /\ micro[1].put /\ micro[1].call = saving)
Lists == OneList /\ CallsOnLists

LEMMA ElementTypes ==
  ASSUME TypeOK
  PROVE  /\ \A p \in Calls : /\ Len(waiting[p]) \in Nat /\ DOMAIN waiting[p] = 1..Len(waiting[p])
                             /\ \A i \in DOMAIN waiting[p] : waiting[p][i] \in Calls
         /\ Len(micro) \in Nat /\ DOMAIN micro = 1..Len(micro)
         /\ \A i \in DOMAIN micro : micro[i] \in Continuations /\ micro[i].call \in Calls
         /\ micro = <<>> <=> Len(micro) = 0
<1>1. \A p \in Calls : waiting[p] \in Seq(Calls)
  BY DEF TypeOK
<1>2. micro \in Seq(Continuations)
  BY DEF TypeOK
<1>3. \A i \in DOMAIN micro : micro[i] \in Continuations
  BY <1>2, ElementOfSeq, LenProperties
<1> QED
  BY <1>1, <1>2, <1>3, ElementOfSeq, LenProperties, EmptySeq DEF Continuations

\* A step that moves one call off the lists, and keeps the lists of who waits.
LEMMA MovesKeepLists ==
  ASSUME TypeOK, Lists, NEW c \in Calls,
         \A p \in Calls : \A i \in DOMAIN waiting[p] : waiting[p][i] # c,
         \A i \in DOMAIN micro' : micro'[i].call # c /\ ~micro'[i].put,
         \A i \in DOMAIN micro' : \E j \in DOMAIN micro : micro'[i] = micro[j],
         \A i, j \in DOMAIN micro' : micro'[i].call = micro'[j].call => i = j,
         UNCHANGED waiting,
         \A d \in Calls \ {c} : call'[d] = call[d] /\ put'[d] = put[d],
         \/ saving' = c /\ Flying(c)' /\ call'[c].at = "saving"
         \/ put'[c] = put[c] /\ ~Flying(c) /\ saving' \in {saving, None}
            /\ (saving' # None => micro = <<>> \/ ~micro[1].put)
  PROVE  Lists'
<1>t. /\ \A p \in Calls : \A i \in DOMAIN waiting[p] : waiting[p][i] \in Calls
      /\ \A i \in DOMAIN micro : micro[i].call \in Calls
  BY ElementTypes
<1>1. OneList'
  BY DEF Lists, OneList
<1>2. \A d \in Calls : Flying(d)' => call'[d].at = "saving"
  BY DEF Lists, CallsOnLists, Flying
<1>3. \A p \in Calls : p # c => (Flying(p)' <=> Flying(p))
  BY DEF Flying
<1>4. \A p \in Calls : Flying(p) => Flying(p)'
  BY <1>3 DEF Flying
<1>5. ASSUME NEW p \in Calls, NEW i \in DOMAIN waiting[p]
      PROVE  call'[waiting[p][i]].at = "waiting" /\ Flying(p)'
  BY <1>t, <1>4, <1>5 DEF Lists, CallsOnLists
<1>6. ASSUME NEW i \in DOMAIN micro' PROVE call'[micro'[i].call].at = "waiting"
  BY <1>t, <1>6 DEF Lists, CallsOnLists
<1>7. saving' # None => Flying(saving)'
  <2>1. CASE saving' = c /\ Flying(c)'
    BY <2>1 DEF Flying
  <2>2. CASE saving' = saving /\ (micro = <<>> \/ ~micro[1].put) /\ saving # None
    <3>1. saving \in Calls /\ Flying(saving)
      BY <2>2 DEF TypeOK, Lists, CallsOnLists
    <3> QED
      BY <1>4, <2>2, <3>1 DEF Flying
  <2> QED
    BY <2>1, <2>2
<1> QED
  BY <1>1, <1>2, <1>5, <1>6, <1>7 DEF Lists, CallsOnLists

LEMMA SaveNowKeepsLists ==
  ASSUME TypeOK, Lists, NEW c \in Calls, NEW how \in CallStates, SaveNow(c, how),
         Settled, UNCHANGED micro, call[c].at = "idle"
  PROVE  Lists'
<1>t. micro = <<>> /\ DOMAIN micro = {} /\ DOMAIN micro' = {}
  BY ElementTypes DEF Settled
<1>1. /\ \A p \in Calls : \A i \in DOMAIN waiting[p] : waiting[p][i] # c
      /\ ~Flying(c)
  BY DEF Lists, CallsOnLists
<1>2. CASE saving = None /\ IsOpen /\ IsDirty
  <2>1. PerformSave(c, how)
    BY <1>2 DEF SaveNow, Proceed
  <2>2. Flying(c)' /\ saving' = c /\ call'[c].at = "saving" /\ UNCHANGED waiting
        /\ \A d \in Calls \ {c} : call'[d] = call[d] /\ put'[d] = put[d]
    BY <2>1, PerformSaveType DEF Flying
  <2> QED
    BY <1>t, <1>1, <2>2, MovesKeepLists
<1>3. CASE saving = None /\ ~(IsOpen /\ IsDirty)
  <2>1. Returned(c, how) /\ UNCHANGED <<saving, waiting, put>>
    BY <1>3 DEF SaveNow, Proceed
  <2>2. \A d \in Calls \ {c} : call'[d] = call[d] /\ put'[d] = put[d]
    BY <2>1, ReturnedType
  <2> QED
    BY <1>t, <1>1, <2>1, <2>2, MovesKeepLists
<1>4. CASE saving # None
  <2> DEFINE p == saving
  <2>1. p \in Calls /\ Flying(p)
    BY <1>4, <1>t DEF TypeOK, Lists, CallsOnLists
  <2>2. /\ call'[c].at = "waiting" /\ \A d \in Calls \ {c} : call'[d] = call[d]
        /\ UNCHANGED <<saving, put>>
    BY <1>4 DEF SaveNow, TypeOK, CallStates
  <2>3. /\ waiting'[p] = Append(waiting[p], c)
        /\ \A q \in Calls \ {p} : waiting'[q] = waiting[q]
    BY <1>4, <2>1 DEF SaveNow, TypeOK
  <2>4. /\ DOMAIN waiting'[p] = 1..Len(waiting[p]) + 1
        /\ \A i \in DOMAIN waiting[p] : waiting'[p][i] = waiting[p][i]
        /\ waiting'[p][Len(waiting[p]) + 1] = c
        /\ DOMAIN waiting[p] = 1..Len(waiting[p]) /\ Len(waiting[p]) \in Nat
    <3>1. waiting[p] \in Seq(Calls)
      BY <2>1 DEF TypeOK
    <3> QED
      BY <2>1, <2>3, <3>1, AppendProperties, LenProperties
  <2>5. ASSUME NEW q \in Calls, NEW i \in DOMAIN waiting'[q]
        PROVE  \/ q = p /\ i = Len(waiting[p]) + 1 /\ waiting'[q][i] = c
               \/ i \in DOMAIN waiting[q] /\ waiting'[q][i] = waiting[q][i] /\ waiting[q][i] # c
    <3>1. CASE q # p
      BY <1>1, <2>3, <2>5, <3>1
    <3>2. CASE q = p
      BY <1>1, <2>1, <2>4, <2>5, <3>2
    <3> QED
      BY <3>1, <3>2
  <2>6. OneList'
    <3>1. ASSUME NEW q \in Calls, NEW r \in Calls, NEW i \in DOMAIN waiting'[q],
                 NEW j \in DOMAIN waiting'[r], waiting'[q][i] = waiting'[r][j]
          PROVE  q = r /\ i = j
      BY <2>5, <3>1 DEF Lists, OneList
    <3> QED
      BY <1>t, <3>1 DEF OneList
  <2>7. CallsOnLists'
    <3>1. \A d \in Calls : Flying(d)' <=> Flying(d)
      BY <2>2 DEF Flying
    <3>2. \A d \in Calls : Flying(d)' => call'[d].at = "saving"
      BY <1>1, <2>2, <3>1 DEF Lists, CallsOnLists
    <3>3. ASSUME NEW q \in Calls, NEW i \in DOMAIN waiting'[q]
          PROVE  call'[waiting'[q][i]].at = "waiting" /\ Flying(q)'
      <4>1. \A k \in DOMAIN waiting[q] : waiting[q][k] \in Calls
        BY ElementTypes
      <4> QED
        BY <2>1, <2>2, <2>5, <3>1, <3>3, <4>1 DEF Lists, CallsOnLists
    <3>4. Flying(saving)'
      BY <2>1, <2>2, <3>1
    <3> QED
      BY <1>t, <3>2, <3>3, <3>4 DEF CallsOnLists
  <2> QED
    BY <2>6, <2>7 DEF Lists
<1> QED
  BY <1>2, <1>3, <1>4

LEMMA WakeKeepsLists ==
  ASSUME TypeOK, Lists, NEW c \in Calls, NEW ok \in BOOLEAN, Wake(c, ok),
         Settled, Flying(c), UNCHANGED <<saving, call>>, ok \/ saveState' = "error"
  PROVE  Lists'
<1>t. /\ micro = <<>> /\ Len(waiting[c]) \in Nat /\ DOMAIN waiting[c] = 1..Len(waiting[c])
      /\ \A p \in Calls : \A i \in DOMAIN waiting[p] : waiting[p][i] \in Calls
  BY ElementTypes DEF Settled
<1>1. /\ Len(micro') = Len(waiting[c]) + 1 /\ DOMAIN micro' = 1..Len(waiting[c]) + 1
      /\ micro'[1] = [call |-> c, put |-> TRUE, ok |-> ok]
      /\ \A i \in 2..Len(micro') :
           micro'[i] = [call |-> waiting[c][i - 1], put |-> FALSE, ok |-> ok]
      /\ waiting'[c] = <<>> /\ put'[c].ph = "none"
      /\ \A d \in Calls \ {c} : waiting'[d] = waiting[d] /\ put'[d] = put[d]
  BY WakeType, LenProperties
<1>2. DOMAIN waiting'[c] = {}
  BY <1>1
<1>3. ~Flying(c)' /\ \A d \in Calls \ {c} : Flying(d)' <=> Flying(d)
  BY <1>1 DEF Flying
<1>4. call[c].at = "saving" /\ \A p \in Calls : \A i \in DOMAIN waiting[p] : call[waiting[p][i]].at = "waiting"
  BY DEF Lists, CallsOnLists
<1>5. ASSUME NEW i \in DOMAIN micro'
      PROVE  \/ i = 1 /\ micro'[i].call = c /\ micro'[i].put /\ micro'[i].ok = ok
             \/ /\ i # 1 /\ i - 1 \in DOMAIN waiting[c] /\ ~micro'[i].put
                /\ micro'[i].call = waiting[c][i - 1] /\ waiting[c][i - 1] # c
  <2>1. CASE i = 1
    BY <1>1, <2>1
  <2>2. CASE i # 1
    <3>1. i \in 2..Len(micro') /\ i - 1 \in DOMAIN waiting[c]
      BY <1>t, <1>1, <1>5, <2>2
    <3>2. waiting[c][i - 1] # c
      BY <1>4, <3>1
    <3>3. micro'[i] = [call |-> waiting[c][i - 1], put |-> FALSE, ok |-> ok]
      BY <1>1, <3>1
    <3> QED
      BY <2>2, <3>1, <3>2, <3>3
  <2> QED
    BY <2>1, <2>2
<1>6. OneList'
  <2>1. ASSUME NEW i \in DOMAIN micro', NEW j \in DOMAIN micro', micro'[i].call = micro'[j].call
        PROVE  i = j
    <3>0. i \in Int /\ j \in Int
      <4>1. i \in 1..Len(waiting[c]) + 1 /\ j \in 1..Len(waiting[c]) + 1
        BY <1>1, <2>1
      <4> QED
        BY <1>t, <4>1
    <3>1. CASE i = 1 \/ j = 1
      BY <1>5, <2>1, <3>1
    <3>2. CASE i # 1 /\ j # 1
      <4>1. waiting[c][i - 1] = waiting[c][j - 1] /\ i - 1 \in DOMAIN waiting[c] /\ j - 1 \in DOMAIN waiting[c]
        BY <1>5, <2>1, <3>2
      <4>2. i - 1 = j - 1
        BY <4>1 DEF Lists, OneList
      <4> QED
        BY <3>0, <4>2
    <3> QED
      BY <3>1, <3>2
  <2>2. ASSUME NEW p \in Calls, NEW i \in DOMAIN waiting'[p], NEW j \in DOMAIN micro'
        PROVE  waiting'[p][i] # micro'[j].call
    <3>1. p # c /\ waiting'[p] = waiting[p]
      BY <1>1, <1>2, <2>2
    <3> QED
      BY <1>4, <1>5, <2>2, <3>1 DEF Lists, OneList
  <2>3. \A p, q \in Calls : \A i \in DOMAIN waiting'[p], j \in DOMAIN waiting'[q] :
          waiting'[p][i] = waiting'[q][j] => p = q /\ i = j
    <3> SUFFICES ASSUME NEW p \in Calls, NEW q \in Calls, NEW i \in DOMAIN waiting'[p],
                        NEW j \in DOMAIN waiting'[q], waiting'[p][i] = waiting'[q][j]
                 PROVE  p = q /\ i = j
      OBVIOUS
    <3>1. p # c /\ q # c /\ waiting'[p] = waiting[p] /\ waiting'[q] = waiting[q]
      BY <1>1, <1>2
    <3> QED
      BY <3>1 DEF Lists, OneList
  <2> QED
    BY <2>1, <2>2, <2>3 DEF OneList
<1>7. CallsOnLists'
  <2>1. \A d \in Calls : Flying(d)' => call'[d].at = "saving"
    BY <1>3 DEF Lists, CallsOnLists
  <2>2. ASSUME NEW p \in Calls, NEW i \in DOMAIN waiting'[p]
        PROVE  call'[waiting'[p][i]].at = "waiting" /\ Flying(p)'
    <3>1. p # c /\ waiting'[p] = waiting[p]
      BY <1>1, <1>2, <2>2
    <3> QED
      BY <1>3, <2>2, <3>1 DEF Lists, CallsOnLists
  <2>3. ASSUME NEW i \in DOMAIN micro'
        PROVE  IF micro'[i].put
               THEN /\ i = 1 /\ ~Flying(micro[i].call)' /\ call'[micro'[i].call].at = "saving"
                    /\ micro'[i].ok \/ saveState' = "error"
               ELSE call'[micro'[i].call].at = "waiting"
    <3>1. CASE i = 1 /\ micro'[i].call = c /\ micro'[i].put /\ micro'[i].ok = ok
      BY <1>3, <1>4, <3>1 DEF Flying
    <3>2. CASE /\ i - 1 \in DOMAIN waiting[c] /\ ~micro'[i].put
               /\ micro'[i].call = waiting[c][i - 1] /\ waiting[c][i - 1] # c
      BY <1>4, <3>2
    <3> QED
      BY <1>5, <2>3, <3>1, <3>2
  <2>4. saving' # None =>
          Flying(saving)' \/ (micro' # <<>> /\ micro'[1].put /\ micro'[1].call = saving')
    <3>1. micro' # <<>>
      BY <1>t, <1>1
    <3>2. saving # None => saving \in Calls /\ Flying(saving)
      BY <1>t DEF Lists, CallsOnLists, TypeOK
    <3> QED
      BY <1>1, <1>3, <3>1, <3>2 DEF Flying
  <2> QED
    BY <2>1, <2>2, <2>3, <2>4 DEF CallsOnLists
<1> QED
  BY <1>6, <1>7 DEF Lists

LEMMA ResumeKeepsLists ==
  ASSUME TypeOK, Lists, Resume
  PROVE  Lists'
<1>1. PICK m \in Continuations :
         /\ micro # <<>> /\ m = micro[1] /\ micro' = Tail(micro) /\ micro' \in Seq(Continuations)
         /\ Len(micro) >= 1 /\ Len(micro') = Len(micro) - 1
         /\ \A i \in 1..Len(micro') : micro'[i] = micro[i + 1]
         /\ call[m.call] \in CallStates
         /\ \/ ~m.put /\ Proceed(m.call, call[m.call])
            \/ m.put /\ Again(m) /\ PerformSave(m.call, call[m.call])
            \/ /\ m.put /\ ~Again(m) /\ saving' = None /\ Returned(m.call, call[m.call])
               /\ UNCHANGED <<timer, saveState, waiting, put, overlapped>>
  BY ResumeCases
<1> DEFINE c == m.call
<1>2. c \in Calls
  BY DEF Continuations
<1>3. /\ Len(micro) \in Nat /\ DOMAIN micro = 1..Len(micro) /\ 1 \in DOMAIN micro
      /\ DOMAIN micro' = 1..Len(micro')
  BY <1>1, ElementTypes, LenProperties
<1>4. \A i \in DOMAIN micro' : i \in Int /\ i + 1 \in DOMAIN micro /\ i + 1 # 1 /\ micro'[i] = micro[i + 1]
  BY <1>1, <1>3
<1>5. \A p \in Calls : \A i \in DOMAIN waiting[p] : waiting[p][i] # c
  BY <1>1, <1>3 DEF Lists, OneList
<1>6. \A i \in DOMAIN micro' : micro'[i].call # c /\ ~micro'[i].put
  BY <1>1, <1>3, <1>4 DEF Lists, OneList, CallsOnLists
<1>7. \A i \in DOMAIN micro' : \E j \in DOMAIN micro : micro'[i] = micro[j]
  BY <1>4
<1>8. ASSUME NEW i \in DOMAIN micro', NEW j \in DOMAIN micro', micro'[i].call = micro'[j].call
      PROVE  i = j
  <2>1. i + 1 = j + 1
    BY <1>4, <1>8 DEF Lists, OneList
  <2> QED
    BY <1>4, <2>1
<1>9. ~Flying(c)
  BY <1>1, <1>2, <1>3 DEF Lists, CallsOnLists
<1>10. CASE PerformSave(c, call[c])
  <2>1. Flying(c)' /\ saving' = c /\ call'[c].at = "saving" /\ UNCHANGED waiting
        /\ \A d \in Calls \ {c} : call'[d] = call[d] /\ put'[d] = put[d]
    BY <1>1, <1>2, <1>10, PerformSaveType DEF Flying
  <2> QED
    BY <1>2, <1>5, <1>6, <1>7, <1>8, <2>1, MovesKeepLists
<1>11. CASE /\ Returned(c, call[c]) /\ UNCHANGED <<waiting, put>>
            /\ saving' \in {saving, None} /\ (saving' # None => ~m.put)
  <2>1. \A d \in Calls \ {c} : call'[d] = call[d] /\ put'[d] = put[d]
    BY <1>1, <1>2, <1>11, ReturnedType
  <2> QED
    BY <1>1, <1>2, <1>5, <1>6, <1>7, <1>8, <1>9, <1>11, <2>1, MovesKeepLists
<1> QED
  BY <1>1, <1>10, <1>11 DEF Proceed

LEMMA ListsStep ==
  ASSUME TypeOK, Lists, [Next]_vars
  PROVE  Lists'
<1>1. ASSUME UNCHANGED <<promises, put>>, saveState' = saveState \/ Settled PROVE Lists'
  <2>1. Settled => DOMAIN micro = {}
    BY DEF Settled
  <2> QED
    BY <1>1, <2>1 DEF promises, Lists, OneList, CallsOnLists, Flying
<1>2. CASE Edit \/ SaveLayout \/ Close
  BY <1>1, <1>2 DEF Edit, SaveLayout, Close
<1>3. ASSUME NEW w \in Workflows, GetServed(w) \/ Load(w) PROVE Lists'
  BY <1>1, <1>3 DEF GetServed, Load, store
<1>4. CASE UNCHANGED vars
  BY <1>1, <1>4 DEF vars, promises
<1>5. NoCall \in CallStates /\ [NoCall EXCEPT !.run = TRUE] \in CallStates
  BY DEF NoCall, CallStates
<1>6. CASE TimerFires
  BY <1>5, <1>6, NewCallIdle, SaveNowKeepsLists DEF TimerFires
<1>7. CASE UserSaves
  BY <1>5, <1>7, NewCallIdle, SaveNowKeepsLists DEF UserSaves
<1>8. CASE UserRuns
  BY <1>5, <1>8, NewCallIdle, SaveNowKeepsLists DEF UserRuns
<1>9. ASSUME NEW c \in Calls, ServerSaves(c) PROVE Lists'
  <2>1. \A d \in Calls : Flying(d)' <=> Flying(d)
    BY <1>9 DEF ServerSaves, TypeOK, Puts, Flying
  <2>2. saveState' = saveState /\ UNCHANGED promises
    BY <1>9 DEF ServerSaves, store
  <2>3. saving # None => saving \in Calls
    BY DEF TypeOK
  <2>4. saving' # None => (Flying(saving)' <=> Flying(saving))
    BY <2>1, <2>2, <2>3 DEF promises, Flying
  <2>5. \A i \in DOMAIN micro : micro[i].call \in Calls
    BY ElementTypes
  <2>6. CallsOnLists'
    BY <2>1, <2>2, <2>4, <2>5 DEF promises, Lists, CallsOnLists, Flying
  <2> QED
    BY <2>2, <2>6 DEF promises, Lists, OneList
<1>10. ASSUME NEW c \in Calls, Answered(c) \/ Failed(c) PROVE Lists'
  <2>1. Settled /\ Flying(c) /\ UNCHANGED <<saving, call>>
    BY <1>10 DEF Answered, Failed, Flying
  <2> QED
    BY <1>10, <2>1, WakeKeepsLists DEF Answered, Failed
<1>11. ASSUME NEW c \in Calls, RunPosted(c) PROVE Lists'
  <2>1. /\ \A d \in Calls \ {c} : call'[d] = call[d]
        /\ UNCHANGED <<put, waiting, micro, saving, saveState>>
    BY <1>11 DEF RunPosted, TypeOK, store
  <2>2. /\ \A p \in Calls : \A i \in DOMAIN waiting[p] : waiting[p][i] \in Calls
        /\ \A i \in DOMAIN micro : micro[i].call \in Calls
    BY ElementTypes
  <2>3. CallsOnLists'
    BY <1>11, <2>1, <2>2 DEF RunPosted, Lists, CallsOnLists, Flying
  <2> QED
    BY <2>1, <2>3 DEF Lists, OneList
<1> QED
  BY <1>2, <1>3, <1>4, <1>6, <1>7, <1>8, <1>9, <1>10, <1>11, ResumeKeepsLists DEF Next, Browser

-----------------------------------------------------------------------------
(* What a call of saveNow does from one of its awaits to the next *)

Sends(c) ==
  /\ IsOpen /\ IsDirty
  /\ saving' = c /\ saveState' = "saving" /\ call'[c].at = "saving"
  /\ put'[c] = [ph |-> "sent", wf |-> doc.wf, load |-> doc.load,
                seq |-> changeSeq, content |-> doc.content]
  /\ overlapped' = (overlapped \/ InFlight \ {c} # {})
  /\ micro' = <<>> \/ ~micro'[1].put

Waits(c) ==
  /\ Settled /\ call'[c].at = "waiting"
  /\ UNCHANGED <<saving, put, saveState, overlapped, micro>>

Returns(c) ==
  /\ \/ saveState' = saveState /\ (~(IsOpen /\ IsDirty) \/ saveState = "error")
     \/ /\ ~(IsOpen /\ IsDirty)
        /\ saveState' = IF savedSeq = 0 THEN "clean" ELSE "saved"
  /\ saving = None \/ (~Settled /\ (micro[1].put \/ ~(IsOpen /\ IsDirty)))
  /\ UNCHANGED <<put, overlapped>>

LEMMA ProceedMove ==
  ASSUME TypeOK, NEW c \in Calls, NEW how \in CallStates, Proceed(c, how),
         micro' = <<>> \/ ~micro'[1].put, saving = None \/ ~Settled
  PROVE  Sends(c) \/ Returns(c)
<1>1. CASE IsOpen /\ IsDirty
  <2>1. PerformSave(c, how)
    BY <1>1 DEF Proceed
  <2> QED
    BY <1>1, <2>1, PerformSaveType DEF Sends, PerformSave
<1>2. CASE ~(IsOpen /\ IsDirty)
  <2>1. /\ saveState' = IF saveState # "pending" THEN saveState
                        ELSE IF savedSeq = 0 THEN "clean" ELSE "saved"
        /\ UNCHANGED <<put, overlapped>>
    BY <1>2 DEF Proceed
  <2> QED
    BY <1>2, <2>1 DEF Returns
<1> QED
  BY <1>1, <1>2

LEMMA SaveNowMove ==
  ASSUME TypeOK, Lists, NEW c \in Calls, NEW how \in CallStates, SaveNow(c, how),
         Settled, UNCHANGED micro, call[c].at = "idle"
  PROVE  /\ ~Flying(c) /\ \A d \in Calls \ {c} : call'[d] = call[d] /\ put'[d] = put[d]
         /\ Sends(c) \/ Waits(c) \/ Returns(c)
<1>1. ~Flying(c)
  BY DEF Lists, CallsOnLists
<1>2. CASE saving = None
  <2>1. Proceed(c, how) /\ micro' = <<>>
    BY <1>2 DEF SaveNow, Settled
  <2> QED
    BY <1>1, <1>2, <2>1, ProceedMove, ProceedType
<1>3. CASE saving # None
  <2>1. [how EXCEPT !.at = "waiting"] \in CallStates /\ call \in [Calls -> CallStates]
    BY DEF CallStates, TypeOK
  <2>2. /\ call' = [call EXCEPT ![c] = [how EXCEPT !.at = "waiting"]]
        /\ UNCHANGED <<saving, put, saveState, overlapped>>
    BY <1>3 DEF SaveNow
  <2>3. [how EXCEPT !.at = "waiting"].at = "waiting"
    BY DEF CallStates
  <2>4. Waits(c) /\ \A d \in Calls \ {c} : call'[d] = call[d] /\ put'[d] = put[d]
    BY <2>1, <2>2, <2>3 DEF Waits
  <2> QED
    BY <1>1, <2>4
<1> QED
  BY <1>2, <1>3

LEMMA CallMove ==
  ASSUME TypeOK, Lists, TimerFires \/ UserSaves \/ UserRuns \/ Resume
  PROVE  /\ UNCHANGED <<doc, changeSeq, savedSeq, server, counters>>
         /\ \E c \in Calls :
              /\ ~Flying(c) /\ \A d \in Calls \ {c} : call'[d] = call[d] /\ put'[d] = put[d]
              /\ Sends(c) \/ Waits(c) \/ Returns(c)
<1>0. NoCall \in CallStates /\ [NoCall EXCEPT !.run = TRUE] \in CallStates
  BY DEF NoCall, CallStates
<1>1. CASE TimerFires \/ UserSaves \/ UserRuns
  <2>1. PICK how \in CallStates :
          SaveNow(NewCall, how) /\ Settled /\ UNCHANGED micro /\ IdleCalls # {}
    BY <1>0, <1>1 DEF TimerFires, UserSaves, UserRuns
  <2>2. NewCall \in Calls /\ call[NewCall].at = "idle"
    BY <2>1, NewCallIdle
  <2>3. /\ ~Flying(NewCall)
        /\ \A d \in Calls \ {NewCall} : call'[d] = call[d] /\ put'[d] = put[d]
        /\ Sends(NewCall) \/ Waits(NewCall) \/ Returns(NewCall)
    BY <2>1, <2>2, SaveNowMove
  <2>4. UNCHANGED <<doc, changeSeq, savedSeq, server, counters>>
    BY <1>1 DEF TimerFires, UserSaves, UserRuns
  <2> QED
    BY <2>2, <2>3, <2>4
<1>2. CASE Resume
  <2>1. PICK m \in Continuations :
         /\ micro # <<>> /\ m = micro[1] /\ micro' = Tail(micro) /\ micro' \in Seq(Continuations)
         /\ Len(micro) >= 1 /\ Len(micro') = Len(micro) - 1
         /\ \A i \in 1..Len(micro') : micro'[i] = micro[i + 1]
         /\ call[m.call] \in CallStates
         /\ UNCHANGED <<doc, changeSeq, savedSeq, server, got, counters>>
         /\ \/ ~m.put /\ Proceed(m.call, call[m.call])
            \/ m.put /\ Again(m) /\ PerformSave(m.call, call[m.call])
            \/ /\ m.put /\ ~Again(m) /\ saving' = None /\ Returned(m.call, call[m.call])
               /\ UNCHANGED <<timer, saveState, waiting, put, overlapped>>
    BY <1>2, ResumeCases
  <2> DEFINE c == m.call
  <2>2. c \in Calls /\ ~Settled
    BY <2>1 DEF Continuations, Settled
  <2>3. Len(micro) \in Nat /\ DOMAIN micro = 1..Len(micro) /\ 1 \in DOMAIN micro
    BY <2>1, ElementTypes
  <2>4. ~Flying(c)
    BY <2>1, <2>2, <2>3 DEF Lists, CallsOnLists
  <2>5. micro' = <<>> \/ ~micro'[1].put
    <3> SUFFICES ASSUME micro' # <<>> PROVE ~micro'[1].put
      OBVIOUS
    <3>1. Len(micro') # 0 /\ Len(micro') \in Nat
      BY <2>1, EmptySeq, LenProperties
    <3>2. micro'[1] = micro[2] /\ 2 \in DOMAIN micro
      BY <2>1, <2>3, <3>1
    <3> QED
      BY <3>2 DEF Lists, CallsOnLists
  <2>6. CASE ~m.put /\ Proceed(c, call[c])
    BY <2>1, <2>2, <2>4, <2>5, <2>6, ProceedMove, ProceedType
  <2>7. CASE m.put /\ Again(m) /\ PerformSave(c, call[c])
    <3>1. Sends(c)
      BY <2>1, <2>2, <2>5, <2>7, PerformSaveType DEF Sends, Again, PerformSave
    <3> QED
      BY <2>1, <2>2, <2>4, <2>7, <3>1, PerformSaveType
  <2>8. CASE /\ m.put /\ ~Again(m) /\ saving' = None /\ Returned(c, call[c])
             /\ UNCHANGED <<timer, saveState, waiting, put, overlapped>>
    <3>1. m.ok \/ saveState = "error"
      BY <2>1, <2>3, <2>8 DEF Lists, CallsOnLists
    <3>2. ~(IsOpen /\ IsDirty) \/ saveState = "error"
      BY <2>8, <3>1 DEF Again
    <3>3. Returns(c)
      BY <2>1, <2>2, <2>8, <3>2 DEF Returns
    <3> QED
      BY <2>1, <2>2, <2>4, <2>8, <3>3, ReturnedType
  <2> QED
    BY <2>1, <2>6, <2>7, <2>8
<1> QED
  BY <1>1, <1>2

-----------------------------------------------------------------------------
(* The edit counters *)

\* What a PUT on its way carries: the document of its load, as of its change number.
Carries(c) ==
  /\ put[c].load # 0 /\ put[c].load <= loads /\ put[c].wf \in Workflows
  /\ put[c].load = doc.load =>
       /\ put[c].seq # 0 /\ put[c].seq <= changeSeq /\ put[c].wf = doc.wf
       /\ put[c].seq = changeSeq => put[c].content.edit = doc.content.edit

SeqNumbers ==
  /\ savedSeq <= changeSeq /\ (~IsOpen => changeSeq = 0)
  /\ doc.load <= loads /\ (IsOpen => doc.wf \in Workflows)
  /\ \A c \in Calls : Flying(c) => Carries(c)

LEMMA NumberTypes ==
  ASSUME TypeOK
  PROVE  /\ changeSeq \in Nat /\ savedSeq \in Nat /\ edits \in Nat /\ loads \in Nat
         /\ doc.load \in Nat
         /\ \A c \in Calls : put[c].load \in Nat /\ put[c].seq \in Nat
BY AutosaveAssumption DEF TypeOK, Docs, Puts

\* The PUTs of a step in which nothing is sent.
LEMMA NoneSent ==
  ASSUME TypeOK, NEW c \in Calls,
         ServerSaves(c) \/ Answered(c) \/ Failed(c) \/ RunPosted(c)
  PROVE  \A d \in Calls : Flying(d)' =>
           /\ Flying(d) /\ put'[d].load = put[d].load /\ put'[d].seq = put[d].seq
           /\ put'[d].wf = put[d].wf /\ put'[d].content = put[d].content
<1>1. CASE ServerSaves(c)
  BY <1>1 DEF ServerSaves, TypeOK, Puts, Flying
<1>2. CASE Answered(c) \/ Failed(c)
  BY <1>2, WakeType DEF Answered, Failed, Flying
<1>3. CASE RunPosted(c)
  BY <1>3 DEF RunPosted, Flying
<1> QED
  BY <1>1, <1>2, <1>3

LEMMA SeqNumbersStep ==
  ASSUME TypeOK, Lists, SeqNumbers, [Next]_vars
  PROVE  SeqNumbers'
<1>t. /\ changeSeq \in Nat /\ savedSeq \in Nat /\ edits \in Nat /\ loads \in Nat
      /\ doc.load \in Nat /\ \A c \in Calls : put[c].load \in Nat /\ put[c].seq \in Nat
  BY NumberTypes
<1>1. ASSUME UNCHANGED <<doc, changeSeq, loads>>, savedSeq' <= changeSeq',
             \A d \in Calls : Flying(d)' =>
               /\ Flying(d) /\ put'[d].load = put[d].load /\ put'[d].seq = put[d].seq
               /\ put'[d].wf = put[d].wf /\ put'[d].content = put[d].content
      PROVE  SeqNumbers'
  BY <1>1 DEF SeqNumbers, Carries, IsOpen
<1>2. CASE Edit
  <2>1. /\ doc'.load = doc.load /\ doc'.wf = doc.wf /\ changeSeq' = changeSeq + 1
        /\ UNCHANGED <<savedSeq, put, loads>> /\ IsOpen
    BY <1>2 DEF Edit, TypeOK, Docs
  <2> QED
    BY <1>t, <2>1 DEF SeqNumbers, Carries, IsOpen, Flying
<1>3. CASE SaveLayout
  <2>1. /\ doc'.load = doc.load /\ doc'.wf = doc.wf /\ doc'.content.edit = doc.content.edit
        /\ UNCHANGED <<changeSeq, savedSeq, put, loads>>
    BY <1>3 DEF SaveLayout, TypeOK, Docs, Contents
  <2> QED
    BY <1>t, <2>1 DEF SeqNumbers, Carries, IsOpen, Flying
<1>4. ASSUME NEW w \in Workflows, GetServed(w) PROVE SeqNumbers'
  <2>1. UNCHANGED <<doc, changeSeq, savedSeq, put, loads>>
    BY <1>4 DEF GetServed, store, counters
  <2> QED
    BY <2>1 DEF SeqNumbers, Carries, IsOpen, Flying
<1>5. ASSUME NEW w \in Workflows, Load(w) PROVE SeqNumbers'
  <2>1. /\ doc'.load = loads + 1 /\ doc'.wf \in Workflows /\ loads' = loads + 1 /\ changeSeq' = 0 /\ savedSeq' = 0
        /\ UNCHANGED put
    BY <1>5 DEF Load
  <2> QED
    BY <1>t, <2>1 DEF SeqNumbers, Carries, IsOpen, Flying
<1>6. CASE Close
  <2>1. doc'.load = 0 /\ changeSeq' = 0 /\ savedSeq' = 0 /\ UNCHANGED <<put, loads>>
    BY <1>6 DEF Close, NoDoc, counters
  <2> QED
    BY <1>t, <2>1 DEF SeqNumbers, Carries, IsOpen, Flying
<1>7. CASE TimerFires \/ UserSaves \/ UserRuns \/ Resume
  <2>1. UNCHANGED <<doc, changeSeq, savedSeq, loads>>
    BY <1>7, CallMove DEF counters
  <2>2. PICK c \in Calls : /\ ~Flying(c) /\ \A d \in Calls \ {c} : put'[d] = put[d]
                           /\ Sends(c) \/ Waits(c) \/ Returns(c)
    BY <1>7, CallMove
  <2>3. CASE Sends(c)
    <3>1. /\ put'[c].load = doc.load /\ put'[c].seq = changeSeq /\ put'[c].wf = doc.wf
          /\ put'[c].content = doc.content /\ doc.load # 0 /\ changeSeq # savedSeq
          /\ IsOpen
      BY <2>3 DEF Sends, IsOpen, IsDirty
    <3>2. Carries(c)'
      BY <1>t, <2>1, <3>1 DEF SeqNumbers, Carries
    <3> QED
      BY <2>1, <2>2, <3>2 DEF SeqNumbers, Carries, IsOpen, Flying
  <2>4. CASE UNCHANGED put
    BY <2>1, <2>4 DEF SeqNumbers, Carries, IsOpen, Flying
  <2> QED
    BY <2>2, <2>3, <2>4 DEF Waits, Returns
<1>8. ASSUME NEW c \in Calls, Answered(c) PROVE SeqNumbers'
  <2>1. UNCHANGED <<doc, changeSeq, loads>> /\ Flying(c)
    BY <1>8 DEF Answered, Flying, counters
  <2>2. savedSeq' <= changeSeq'
    BY <1>8, <2>1 DEF Answered, SeqNumbers, Carries
  <2> QED
    BY <1>1, <1>8, <2>1, <2>2, NoneSent
<1>9. ASSUME NEW c \in Calls, ServerSaves(c) \/ Failed(c) \/ RunPosted(c) PROVE SeqNumbers'
  <2>1. UNCHANGED <<doc, changeSeq, savedSeq, loads>>
    BY <1>9 DEF ServerSaves, Failed, RunPosted, store, counters
  <2> QED
    BY <1>1, <1>9, <2>1, NoneSent DEF SeqNumbers
<1>10. CASE UNCHANGED vars
  BY <1>10 DEF vars, SeqNumbers, Carries, IsOpen, Flying
<1> QED
  BY <1>2, <1>3, <1>4, <1>5, <1>6, <1>7, <1>8, <1>9, <1>10 DEF Next, Browser

-----------------------------------------------------------------------------
(* What the toolbar shows *)

Shown ==
  /\ saveState \in {"clean", "saved"} => ~IsDirty
  /\ saveState = "saved" => savedSeq # 0
  /\ saveState = "saving" => \E c \in Calls : Flying(c) /\ put[c].load = doc.load

LEMMA ShownStep ==
  ASSUME TypeOK, Lists, SeqNumbers, Shown, [Next]_vars
  PROVE  Shown'
<1>t. /\ changeSeq \in Nat /\ savedSeq \in Nat /\ doc.load \in Nat
      /\ \A c \in Calls : put[c].load \in Nat /\ put[c].seq \in Nat
  BY NumberTypes
<1>1. CASE Edit \/ SaveLayout
  <2>1. saveState' = "pending"
    BY <1>1 DEF Edit, SaveLayout
  <2> QED
    BY <2>1 DEF Shown
<1>2. ASSUME NEW w \in Workflows, GetServed(w) PROVE Shown'
  BY <1>2 DEF GetServed, store, Shown, IsDirty, Flying
<1>3. ASSUME Close \/ \E w \in Workflows : Load(w) PROVE Shown'
  <2>1. changeSeq' = 0 /\ savedSeq' = 0 /\ saveState' = "clean"
    BY <1>3 DEF Close, Load
  <2> QED
    BY <2>1 DEF Shown, IsDirty
<1>4. CASE TimerFires \/ UserSaves \/ UserRuns \/ Resume
  <2>1. UNCHANGED <<doc, changeSeq, savedSeq>>
    BY <1>4, CallMove
  <2>2. PICK c \in Calls : /\ ~Flying(c) /\ \A d \in Calls \ {c} : put'[d] = put[d]
                           /\ Sends(c) \/ Waits(c) \/ Returns(c)
    BY <1>4, CallMove
  <2>3. CASE Sends(c)
    <3>1. saveState' = "saving" /\ Flying(c)' /\ put'[c].load = doc'.load
      BY <2>1, <2>3 DEF Sends, Flying
    <3> QED
      BY <3>1 DEF Shown
  <2>4. CASE UNCHANGED <<saveState, put>>
    BY <2>1, <2>4 DEF Shown, IsDirty, Flying
  <2>5. CASE /\ ~(IsOpen /\ IsDirty) /\ UNCHANGED put
             /\ saveState' = IF savedSeq = 0 THEN "clean" ELSE "saved"
    <3>1. ~IsDirty
      BY <1>t, <2>5 DEF SeqNumbers, IsDirty
    <3> QED
      BY <2>1, <2>5, <3>1 DEF Shown, IsDirty
  <2> QED
    BY <2>2, <2>3, <2>4, <2>5 DEF Waits, Returns
<1>5. ASSUME NEW c \in Calls, Answered(c) PROVE Shown'
  <2>1. UNCHANGED <<doc, changeSeq>> /\ \A d \in Calls \ {c} : put'[d] = put[d]
    BY <1>5, WakeType DEF Answered
  <2>2. CASE doc.load = put[c].load
    <3>1. /\ savedSeq' = put[c].seq /\ put[c].seq # 0
          /\ saveState' = IF changeSeq = put[c].seq THEN "saved" ELSE "pending"
      BY <1>5, <2>2 DEF Answered, SeqNumbers, Carries, Flying
    <3> QED
      BY <2>1, <3>1 DEF Shown, IsDirty
  <2>3. CASE doc.load # put[c].load
    <3>1. UNCHANGED <<savedSeq, saveState>>
      BY <1>5, <2>3 DEF Answered
    <3> QED
      BY <2>1, <2>3, <3>1 DEF Shown, IsDirty, Flying
  <2> QED
    BY <2>2, <2>3
<1>6. ASSUME NEW c \in Calls, Failed(c) PROVE Shown'
  BY <1>6 DEF Failed, Shown
<1>7. ASSUME NEW c \in Calls, ServerSaves(c) \/ RunPosted(c) PROVE Shown'
  <2>1. UNCHANGED store
    BY <1>7 DEF ServerSaves, RunPosted
  <2>2. \A d \in Calls : (Flying(d) => Flying(d)') /\ put'[d].load = put[d].load
    <3>1. CASE ServerSaves(c)
      BY <3>1 DEF ServerSaves, TypeOK, Puts, Flying
    <3>2. CASE RunPosted(c)
      BY <3>2 DEF RunPosted, Flying
    <3> QED
      BY <1>7, <3>1, <3>2
  <2> QED
    BY <2>1, <2>2 DEF Shown, IsDirty, store
<1>8. CASE UNCHANGED vars
  BY <1>8 DEF vars, Shown, IsDirty, Flying
<1> QED
  BY <1>1, <1>2, <1>3, <1>4, <1>5, <1>6, <1>7, <1>8 DEF Next, Browser

-----------------------------------------------------------------------------
(* No edit is forgotten *)

LEMMA RememberedStep ==
  ASSUME TypeOK, Lists, SeqNumbers, NoEditForgotten, [Next]_vars
  PROVE  NoEditForgotten'
<1>1. CASE Edit \/ SaveLayout
  BY <1>1 DEF Edit, SaveLayout, NoEditForgotten
<1>2. ASSUME UNCHANGED <<store, call>> PROVE NoEditForgotten'
  BY <1>2 DEF NoEditForgotten, store, IsOpen, IsDirty
<1>3. ASSUME Close \/ \E w \in Workflows : Load(w) PROVE NoEditForgotten'
  <2>1. changeSeq' = 0 /\ savedSeq' = 0
    BY <1>3 DEF Close, Load
  <2> QED
    BY <2>1 DEF NoEditForgotten, IsDirty
<1>4. CASE TimerFires \/ UserSaves \/ UserRuns \/ Resume
  <2>1. UNCHANGED <<doc, changeSeq, savedSeq>>
    BY <1>4, CallMove
  <2>2. PICK c \in Calls : Sends(c) \/ Waits(c) \/ Returns(c)
    BY <1>4, CallMove
  <2>3. CASE Sends(c) \/ Waits(c)
    BY <2>3 DEF Sends, Waits, NoEditForgotten
  <2>4. CASE Returns(c)
    BY <2>1, <2>4 DEF Returns, NoEditForgotten, IsOpen, IsDirty
  <2> QED
    BY <2>2, <2>3, <2>4
<1>5. ASSUME NEW c \in Calls, Answered(c) PROVE NoEditForgotten'
  <2>1. call'[c].at = "saving"
    BY <1>5 DEF Answered, Lists, CallsOnLists, Flying
  <2> QED
    BY <2>1 DEF NoEditForgotten
<1>6. ASSUME NEW c \in Calls, Failed(c) PROVE NoEditForgotten'
  BY <1>6 DEF Failed, NoEditForgotten
<1>7. ASSUME NEW c \in Calls, ServerSaves(c) PROVE NoEditForgotten'
  BY <1>2, <1>7 DEF ServerSaves, promises
<1>8. ASSUME NEW c \in Calls, RunPosted(c) PROVE NoEditForgotten'
  <2>1. UNCHANGED store /\ \A d \in Calls \ {c} : call'[d] = call[d]
    BY <1>8 DEF RunPosted, TypeOK
  <2>2. call[c].at = "posting"
    BY <1>8 DEF RunPosted
  <2> QED
    BY <2>1, <2>2 DEF NoEditForgotten, store, IsOpen, IsDirty
<1>9. ASSUME NEW w \in Workflows, GetServed(w) PROVE NoEditForgotten'
  BY <1>2, <1>9 DEF GetServed, promises
<1>10. CASE UNCHANGED vars
  BY <1>2, <1>10 DEF vars, store
<1> QED
  BY <1>1, <1>3, <1>4, <1>5, <1>6, <1>7, <1>8, <1>9, <1>10 DEF Next, Browser

-----------------------------------------------------------------------------
(* Saves that do not overlap *)

\* As long as PUTs do not overlap, `saving` is the one in flight; the calls that resume with
\* it found an unsaved edit; and what was saved last is what the server has.
Alone ==
  ~overlapped =>
    /\ \A c \in Calls : Flying(c) => saving = c
    /\ \A c \in Calls : Flying(c) /\ ~Settled => IsOpen /\ IsDirty /\ ~micro[1].put
    /\ \A c \in Calls : Flying(c) /\ savedSeq # 0 => IsDirty
    /\ \A c \in Calls : put[c].ph = "applied" => server[put[c].wf].edit = put[c].content.edit
    /\ savedSeq # 0 /\ ~IsDirty => server[doc.wf].edit = doc.content.edit

\* A step that sends nothing and leaves what is saved alone, or forgets it.
LEMMA AloneKept ==
  ASSUME TypeOK, Alone, UNCHANGED <<put, saving, server, overlapped>>,
         UNCHANGED micro, Settled \/ UNCHANGED <<doc, changeSeq, savedSeq>>,
         \/ UNCHANGED <<changeSeq, savedSeq>> /\ doc'.wf = doc.wf
            /\ doc'.content.edit = doc.content.edit
         \/ savedSeq' = 0 \/ savedSeq' # changeSeq'
  PROVE  Alone'
<1> SUFFICES ASSUME ~overlapped PROVE Alone'
  BY DEF Alone
<1>1. \A c \in Calls : Flying(c)' <=> Flying(c)
  BY DEF Flying
<1>2. \A c \in Calls : Flying(c)' => saving' = c
  BY <1>1 DEF Alone
<1>3. \A c \in Calls : Flying(c)' /\ ~Settled' => (IsOpen /\ IsDirty)' /\ ~micro'[1].put
  BY <1>1 DEF Alone, Settled, IsOpen, IsDirty
<1>4. \A c \in Calls : Flying(c)' /\ savedSeq' # 0 => IsDirty'
  BY <1>1 DEF Alone, IsDirty
<1>5. \A c \in Calls : put'[c].ph = "applied" => server'[put'[c].wf].edit = put'[c].content.edit
  BY DEF Alone
<1>6. savedSeq' # 0 /\ ~IsDirty' => server'[doc'.wf].edit = doc'.content.edit
  BY DEF Alone, IsDirty
<1> QED
  BY <1>2, <1>3, <1>4, <1>5, <1>6 DEF Alone

LEMMA AloneStep ==
  ASSUME TypeOK, Lists, SeqNumbers, Alone, [Next]_vars
  PROVE  Alone'
<1>t. /\ changeSeq \in Nat /\ savedSeq \in Nat /\ edits \in Nat /\ doc.load \in Nat
      /\ \A c \in Calls : put[c].load \in Nat /\ put[c].seq \in Nat /\ c # None
      /\ put \in [Calls -> Puts]
  BY NumberTypes DEF Calls, None, TypeOK
<1>1. CASE Edit
  <2>1. /\ changeSeq' = changeSeq + 1 /\ savedSeq <= changeSeq /\ Settled
        /\ UNCHANGED <<put, saving, server, overlapped, micro, savedSeq>>
    BY <1>1 DEF Edit, SeqNumbers, promises
  <2> QED
    BY <1>t, <2>1, AloneKept
<1>2. CASE SaveLayout
  <2>1. /\ doc'.wf = doc.wf /\ doc'.content.edit = doc.content.edit /\ Settled
        /\ UNCHANGED <<put, saving, server, overlapped, micro, changeSeq, savedSeq>>
    BY <1>2 DEF SaveLayout, promises, TypeOK, Docs, Contents
  <2> QED
    BY <2>1, AloneKept
<1>3. ASSUME NEW w \in Workflows, GetServed(w) PROVE Alone'
  BY <1>3, AloneKept DEF GetServed, store, promises
<1>4. ASSUME Close \/ \E w \in Workflows : Load(w) PROVE Alone'
  <2>1. savedSeq' = 0 /\ Settled /\ UNCHANGED <<put, saving, server, overlapped, micro>>
    BY <1>4 DEF Close, Load, promises
  <2> QED
    BY <2>1, AloneKept
<1>5. CASE TimerFires \/ UserSaves \/ UserRuns \/ Resume
  <2> SUFFICES ASSUME ~overlapped' PROVE Alone'
    BY DEF Alone
  <2>1. UNCHANGED <<doc, changeSeq, savedSeq, server>>
    BY <1>5, CallMove
  <2>2. PICK c \in Calls : /\ ~Flying(c) /\ \A d \in Calls \ {c} : put'[d] = put[d]
                           /\ Sends(c) \/ Waits(c) \/ Returns(c)
    BY <1>5, CallMove
  <2>3. CASE Sends(c)
    <3>1. /\ IsOpen /\ IsDirty /\ saving' = c /\ put'[c].ph = "sent"
          /\ ~overlapped /\ InFlight \ {c} = {} /\ (micro' = <<>> \/ ~micro'[1].put)
      <4>1. put'[c].ph = "sent"
        BY <2>3 DEF Sends
      <4>2. ~(overlapped \/ InFlight \ {c} # {})
        BY <2>3 DEF Sends
      <4> QED
        BY <2>3, <4>1, <4>2 DEF Sends
    <3>2. \A d \in Calls \ {c} : ~Flying(d) /\ ~Flying(d)' /\ put'[d].ph # "applied"
      BY <2>2, <3>1 DEF InFlight, Flying
    <3>3. IsOpen' /\ IsDirty'
      BY <2>1, <3>1 DEF IsOpen, IsDirty
    <3> QED
      BY <3>1, <3>2, <3>3 DEF Alone, Settled
  <2>4. CASE Waits(c)
    BY <2>1, <2>4, AloneKept DEF Waits
  <2>5. CASE Returns(c)
    <3>1. UNCHANGED <<put, overlapped>> /\ ~overlapped
      BY <2>5 DEF Returns
    <3>2. \A d \in Calls : ~Flying(d)
      BY <1>t, <2>5, <3>1 DEF Returns, Alone
    <3>3. \A d \in Calls : ~Flying(d)' /\ put'[d].ph # "applied"
      BY <3>1, <3>2 DEF Flying
    <3>4. savedSeq' # 0 /\ ~IsDirty' => server'[doc'.wf].edit = doc'.content.edit
      BY <2>1, <3>1 DEF Alone, IsDirty
    <3> QED
      BY <3>3, <3>4 DEF Alone
  <2> QED
    BY <2>2, <2>3, <2>4, <2>5
<1>6. ASSUME NEW c \in Calls, ServerSaves(c) PROVE Alone'
  <2> SUFFICES ASSUME ~overlapped PROVE Alone'
    BY <1>6 DEF Alone, ServerSaves
  <2>1. /\ UNCHANGED <<doc, changeSeq, savedSeq, saving, micro>>
        /\ Flying(c) /\ \A d \in Calls : Flying(d)' <=> Flying(d)
        /\ put'[c].wf = put[c].wf /\ put'[c].content = put[c].content
        /\ \A d \in Calls \ {c} : put'[d] = put[d]
    BY <1>6, <1>t DEF ServerSaves, store, promises, Flying, Puts
  <2>2. \A d \in Calls \ {c} : ~Flying(d)
    BY <2>1 DEF Alone
  <2>3. savedSeq # 0 => IsDirty
    BY <2>1 DEF Alone
  <2>4. server'[put[c].wf] = put[c].content
    BY <1>6, <2>1 DEF ServerSaves, TypeOK, SeqNumbers, Carries
  <2> QED
    BY <2>1, <2>2, <2>3, <2>4 DEF Alone, Settled, IsOpen, IsDirty, Flying
<1>7. ASSUME NEW c \in Calls, Answered(c) PROVE Alone'
  <2> SUFFICES ASSUME ~overlapped PROVE Alone'
    BY <1>7 DEF Alone, Answered
  <2>1. /\ UNCHANGED <<doc, changeSeq, saving, server>> /\ Flying(c) /\ put[c].ph = "applied"
        /\ ~Flying(c)' /\ put'[c].ph # "applied" /\ \A d \in Calls \ {c} : put'[d] = put[d]
    BY <1>7, WakeType DEF Answered, Flying
  <2>2. \A d \in Calls \ {c} : ~Flying(d)
    BY <2>1 DEF Alone
  <2>3. \A d \in Calls : ~Flying(d)' /\ put'[d].ph # "applied"
    BY <2>1, <2>2 DEF Flying
  <2>4. CASE doc.load = put[c].load
    <3>1. savedSeq' = put[c].seq /\ Carries(c)
      BY <1>7, <2>1, <2>4 DEF Answered, SeqNumbers
    <3>2. ~IsDirty' => server'[doc'.wf].edit = doc'.content.edit
      BY <2>1, <2>4, <3>1 DEF Alone, Carries, IsDirty
    <3> QED
      BY <2>3, <3>2 DEF Alone
  <2>5. CASE doc.load # put[c].load
    <3>1. savedSeq' = savedSeq
      BY <1>7, <2>5 DEF Answered
    <3> QED
      BY <2>1, <2>3, <3>1 DEF Alone, IsDirty
  <2> QED
    BY <2>4, <2>5
<1>8. ASSUME NEW c \in Calls, Failed(c) PROVE Alone'
  <2> SUFFICES ASSUME ~overlapped PROVE Alone'
    BY <1>8 DEF Alone, Failed
  <2>1. /\ UNCHANGED <<doc, changeSeq, savedSeq, saving, server>> /\ Flying(c)
        /\ ~Flying(c)' /\ put'[c].ph # "applied" /\ \A d \in Calls \ {c} : put'[d] = put[d]
    BY <1>8, WakeType DEF Failed, Flying
  <2>2. \A d \in Calls \ {c} : ~Flying(d)
    BY <2>1 DEF Alone
  <2>3. \A d \in Calls : ~Flying(d)' /\ put'[d].ph # "applied"
    BY <2>1, <2>2 DEF Flying
  <2> QED
    BY <2>1, <2>3 DEF Alone, IsDirty
<1>9. ASSUME NEW c \in Calls, RunPosted(c) PROVE Alone'
  BY <1>9, AloneKept DEF RunPosted, store
<1>10. CASE UNCHANGED vars
  BY <1>10, AloneKept DEF vars
<1> QED
  BY <1>1, <1>2, <1>3, <1>4, <1>5, <1>6, <1>7, <1>8, <1>9, <1>10 DEF Next, Browser
-----------------------------------------------------------------------------
(* The theorems *)

IInv == TypeOK /\ Lists /\ SeqNumbers /\ Shown /\ NoEditForgotten /\ Alone

LEMMA IInvInit == Init => IInv
<1> SUFFICES ASSUME Init PROVE IInv
  OBVIOUS
<1>1. TypeOK
  BY TypeInit
<1>2. \A c \in Calls : put[c] = NoPut /\ waiting[c] = <<>> /\ DOMAIN waiting[c] = {}
  BY DEF Init
<1>3. \A c \in Calls : ~Flying(c) /\ put[c].ph # "applied"
  BY <1>2 DEF Flying, NoPut
<1>4. Lists
  BY <1>2, <1>3 DEF Init, Lists, OneList, CallsOnLists
<1>5. SeqNumbers /\ Shown /\ NoEditForgotten /\ Alone
  BY <1>3 DEF Init, SeqNumbers, Shown, NoEditForgotten, Alone, NoDoc, IsOpen, IsDirty
<1> QED
  BY <1>1, <1>4, <1>5 DEF IInv

LEMMA IInvInductive == IInv /\ [Next]_vars => IInv'
BY TypeInductive, ListsStep, SeqNumbersStep, ShownStep, RememberedStep, AloneStep DEF IInv

\* saveNow suspends only on a PUT that is on its way, every suspended call is on one list
\* once, and the call that issued a PUT resumes before those that waited for it.
THEOREM SuspendedCallsAreServed == Spec => []Lists
BY IInvInit, IInvInductive, PTL DEF Spec, IInv

\* saveNow and scheduleSave: an unsaved edit of the open document has a timer, a call that
\* will look again, or an error on display, however many saves are suspended, fail or cross.
THEOREM NoEditForgottenAlways == Spec => []NoEditForgotten
BY IInvInit, IInvInductive, PTL DEF Spec, IInv

\* performSave: the toolbar's state is never "clean" or "saved" with unsaved edits, and never
\* "saving" with nothing on its way.
THEOREM SaveStateTruthfulAlways == Spec => []SaveStateTruthful
<1>1. IInv => SaveStateTruthful
  BY DEF IInv, Shown, SaveStateTruthful, Flying, InFlight
<1> QED
  BY <1>1, IInvInit, IInvInductive, PTL DEF Spec

\* performSave and the server's upsert: without overlapping PUTs, "saved" means stored.
THEOREM SavedIsStoredAlways == Spec => []SavedIsStored
<1>1. IInv => SavedIsStored
  BY DEF IInv, Shown, Alone, SavedIsStored
<1> QED
  BY <1>1, IInvInit, IInvInductive, PTL DEF Spec
==============================================================================
