-------------------------- MODULE BatchAndStreamProofs --------------------------
(***************************************************************************)
(* What TLAPS proves of the two components that report to a client.        *)
(*                                                                         *)
(* Batch, for every number of rows and of workers: the slots, and what is  *)
(* told of the rows and of the batch.                                      *)
(*                                                                         *)
(* EventStream, for every number of nodes, threads, changes, runs, answers *)
(* and losses, and every size of the queue: no event is ahead of an older  *)
(* one of the loop, and a client with nothing on its way to it shows the   *)
(* run in progress, and the status of the node that the snapshot begins    *)
(* with, with the exceptions that ViewIsCurrent names.                     *)
(***************************************************************************)
EXTENDS Batch, EventStream, FiniteSetTheorems, SequenceTheorems, TLAPS

-----------------------------------------------------------------------------
(* Batch: types and slots *)

\* The slots taken are finitely many, and a step of a row that is not in one takes one.
LEMMA InFlightIsFinite == IsFiniteSet(InFlight) /\ Cardinality(InFlight) \in Nat
<1>1. IsFiniteSet(Rows)
  BY FS_Interval, BatchAssumption DEF Rows
<1>2. InFlight \subseteq Rows
  BY DEF InFlight
<1> QED
  BY <1>1, <1>2, FS_Subset, FS_CardinalityType

LEMMA SlotTaken ==
  ASSUME NEW r \in Rows, Cardinality(InFlight) < Workers,
         InFlight' \subseteq InFlight \cup {r}
  PROVE  Cardinality(InFlight') <= Workers
<1>1. IsFiniteSet(InFlight \cup {r}) /\ Cardinality(InFlight \cup {r}) \in Nat
  BY InFlightIsFinite, FS_AddElement, FS_CardinalityType
<1>2. Cardinality(InFlight \cup {r}) <= Cardinality(InFlight) + 1
  BY InFlightIsFinite, FS_AddElement
<1>3. Cardinality(InFlight') <= Cardinality(InFlight \cup {r})
  BY <1>1, FS_Subset
<1>4. Cardinality(InFlight') \in Nat
  BY <1>1, FS_Subset, FS_CardinalityType
<1> QED
  BY <1>1, <1>2, <1>3, <1>4, InFlightIsFinite, BatchAssumption

LEMMA SlotsKept ==
  ASSUME Cardinality(InFlight) <= Workers, InFlight' \subseteq InFlight
  PROVE  Cardinality(InFlight') <= Workers
<1>1. Cardinality(InFlight') <= Cardinality(InFlight) /\ Cardinality(InFlight') \in Nat
  BY InFlightIsFinite, FS_Subset, FS_CardinalityType
<1> QED
  BY <1>1, InFlightIsFinite, BatchAssumption

\* The types of the records, without the count of the slots.
Typed ==
  /\ state \in [Rows -> Final \cup {"pending", "running"}]
  /\ phase \in [Rows -> InScheduler \cup {"queued", "closing", "ended"}]
  /\ failed \in [Rows -> BOOLEAN] /\ stopped \in [Rows -> BOOLEAN]
  /\ continueOnError \in BOOLEAN /\ cancelled \in BOOLEAN /\ abort \in BOOLEAN
  /\ status \in Final \cup {"running"} /\ finished \in Final \cup {"none"}
  /\ told \in [Rows -> Final \cup {"pending", "running"}]

StateFollowsPhase ==
  \A r \in Rows : /\ state[r] = "pending" <=> phase[r] = "queued"
                  /\ state[r] = "running" <=> phase[r] \in InScheduler

LEMMA TypedStep ==
  ASSUME Typed, [Next]_vars
  PROVE  Typed'
<1> USE DEF Typed, Final, InScheduler, Goto, Becomes, given
<1>1. ASSUME NEW r \in Rows, SkipRow(r) PROVE Typed'
  BY <1>1 DEF SkipRow
<1>2. ASSUME NEW r \in Rows, StartRow(r) PROVE Typed'
  BY <1>2 DEF StartRow
<1>3. ASSUME NEW r \in Rows, Compute(r) PROVE Typed'
  BY <1>3 DEF Compute
<1>4. ASSUME NEW r \in Rows, StopRun(r) \/ RunTimesOut(r) PROVE Typed'
  BY <1>4 DEF StopRun, RunTimesOut
<1>5. ASSUME NEW r \in Rows, RunReturned(r) PROVE Typed'
  BY <1>5 DEF RunReturned, Outcome
<1>6. ASSUME NEW r \in Rows, RowEnded(r) PROVE Typed'
  BY <1>6 DEF RowEnded, Aborts
<1>7. ASSUME Cancel PROVE Typed'
  BY <1>7 DEF Cancel
<1>8. ASSUME Finish PROVE Typed'
  BY <1>8 DEF Finish, FinalStatus
<1>9. ASSUME UNCHANGED vars PROVE Typed'
  BY <1>9 DEF vars
<1> QED
  BY <1>1, <1>2, <1>3, <1>4, <1>5, <1>6, <1>7, <1>8, <1>9 DEF Next, RowStep

LEMMA StateFollowsPhaseStep ==
  ASSUME Typed, StateFollowsPhase, [Next]_vars
  PROVE  StateFollowsPhase'
<1> USE DEF Typed, StateFollowsPhase, Final, InScheduler, Goto, Becomes
<1>1. ASSUME NEW r \in Rows, SkipRow(r) \/ StartRow(r) PROVE StateFollowsPhase'
  BY <1>1 DEF SkipRow, StartRow, Slot
<1>2. ASSUME NEW r \in Rows, Compute(r) \/ StopRun(r) \/ RunTimesOut(r) PROVE StateFollowsPhase'
  BY <1>2 DEF Compute, StopRun, RunTimesOut
<1>3. ASSUME NEW r \in Rows, RunReturned(r) PROVE StateFollowsPhase'
  BY <1>3 DEF RunReturned, Outcome
<1>4. ASSUME NEW r \in Rows, RowEnded(r) PROVE StateFollowsPhase'
  BY <1>4 DEF RowEnded
<1>5. ASSUME Cancel \/ Finish \/ UNCHANGED vars PROVE StateFollowsPhase'
  BY <1>5 DEF Cancel, Finish, vars
<1> QED
  BY <1>1, <1>2, <1>3, <1>4, <1>5 DEF Next, RowStep

LEMMA SlotsStep ==
  ASSUME Typed, Cardinality(InFlight) <= Workers, [Next]_vars
  PROVE  (Cardinality(InFlight) <= Workers)'
<1> USE DEF Typed, InScheduler, Goto
<1>1. ASSUME NEW r \in Rows, StartRow(r) PROVE Cardinality(InFlight') <= Workers
  <2>1. InFlight' \subseteq InFlight \cup {r}
    BY <1>1 DEF StartRow, InFlight
  <2> QED
    BY <1>1, <2>1, SlotTaken DEF StartRow, Slot
<1>2. ASSUME NEW r \in Rows, SkipRow(r) PROVE InFlight' \subseteq InFlight
  BY <1>2 DEF SkipRow, InFlight
<1>3. ASSUME NEW r \in Rows, Compute(r) \/ StopRun(r) \/ RunTimesOut(r)
      PROVE  InFlight' \subseteq InFlight
  BY <1>3 DEF Compute, StopRun, RunTimesOut, InFlight
<1>4. ASSUME NEW r \in Rows, RunReturned(r) \/ RowEnded(r) PROVE InFlight' \subseteq InFlight
  BY <1>4 DEF RunReturned, RowEnded, InFlight
<1>5. ASSUME Cancel \/ Finish \/ UNCHANGED vars PROVE InFlight' \subseteq InFlight
  BY <1>5 DEF Cancel, Finish, vars, InFlight
<1> QED
  BY <1>1, <1>2, <1>3, <1>4, <1>5, SlotsKept DEF Next, RowStep

LEMMA TypeOKSplit == TypeOK <=> Typed /\ StateFollowsPhase /\ Cardinality(InFlight) <= Workers
BY DEF TypeOK, Typed, StateFollowsPhase

LEMMA NothingInFlightAtFirst == Init => InFlight = {}
BY DEF Init, InFlight, InScheduler

\* Types of everything a batch keeps; never more than `Workers` rows are in flight, and
\* the record of each row says whether it is (BatchRun, _run_row, the semaphore).
THEOREM TypeCorrect == Spec => []TypeOK
<1>1. Init => TypeOK
  <2> SUFFICES ASSUME Init PROVE TypeOK
    OBVIOUS
  <2>1. Typed /\ StateFollowsPhase
    BY DEF Init, Typed, StateFollowsPhase, Final, InScheduler
  <2>2. Cardinality(InFlight) <= Workers
    BY NothingInFlightAtFirst, FS_EmptySet, BatchAssumption
  <2> QED
    BY <2>1, <2>2, TypeOKSplit
<1>2. TypeOK /\ [Next]_vars => TypeOK'
  <2> SUFFICES ASSUME TypeOK, [Next]_vars PROVE TypeOK'
    OBVIOUS
  <2>1. Typed /\ StateFollowsPhase /\ Cardinality(InFlight) <= Workers
    BY TypeOKSplit
  <2>2. Typed' /\ StateFollowsPhase' /\ (Cardinality(InFlight) <= Workers)'
    BY <2>1, TypedStep, StateFollowsPhaseStep, SlotsStep
  <2> QED
    BY <2>2 DEF TypeOK, Typed, StateFollowsPhase
<1> QED
  BY <1>1, <1>2, PTL DEF Spec

-----------------------------------------------------------------------------
(* Batch: what is reported *)

\* What the last event of a row says at each place of its coroutine, and that the
\* record is final from the moment the run has returned.
ToldSoFar ==
  \A r \in Rows :
    /\ phase[r] # "ended" => told[r] \in {"pending", "running"}
    /\ phase[r] = "ended" => told[r] = state[r]
    /\ phase[r] \in {"closing", "ended"} => state[r] \in Final

\* Why rows are cancelled or fail.
WhyAborted ==
  /\ continueOnError /\ ~cancelled => ~abort
  /\ ~continueOnError => \A r \in Rows : told[r] = "error" => abort
  /\ ~abort => \A r \in Rows : state[r] # "cancelled"
  /\ ~abort => \A r \in Rows :
       phase[r] \in {"closing", "ended"} => state[r] = IF failed[r] THEN "error" ELSE "done"

\* Nothing moves once batch.finished is out.
AllOver ==
  /\ finished = "none" <=> status = "running"
  /\ finished # "none" => finished = status /\ finished = FinalStatus
  /\ finished # "none" => \A r \in Rows : phase[r] = "ended"

BatchInv == Typed /\ StateFollowsPhase /\ ToldSoFar /\ WhyAborted /\ AllOver

LEMMA BatchInvInit == Init => BatchInv
BY DEF Init, BatchInv, Typed, StateFollowsPhase, ToldSoFar, WhyAborted, AllOver, Final, InScheduler

LEMMA ToldSoFarStep ==
  ASSUME BatchInv, [Next]_vars
  PROVE  ToldSoFar'
<1> USE DEF BatchInv, Typed, StateFollowsPhase, ToldSoFar, Final, InScheduler, Goto, Becomes
<1>1. ASSUME NEW r \in Rows, SkipRow(r) PROVE ToldSoFar'
  BY <1>1 DEF SkipRow, Slot
<1>2. ASSUME NEW r \in Rows, StartRow(r) PROVE ToldSoFar'
  BY <1>2 DEF StartRow, Slot
<1>3. ASSUME NEW r \in Rows, Compute(r) \/ StopRun(r) \/ RunTimesOut(r) PROVE ToldSoFar'
  BY <1>3 DEF Compute, StopRun, RunTimesOut
<1>4. ASSUME NEW r \in Rows, RunReturned(r) PROVE ToldSoFar'
  BY <1>4 DEF RunReturned, Outcome
<1>5. ASSUME NEW r \in Rows, RowEnded(r) PROVE ToldSoFar'
  BY <1>5 DEF RowEnded
<1>6. ASSUME Cancel \/ Finish \/ UNCHANGED vars PROVE ToldSoFar'
  BY <1>6 DEF Cancel, Finish, vars
<1> QED
  BY <1>1, <1>2, <1>3, <1>4, <1>5, <1>6 DEF Next, RowStep

LEMMA WhyAbortedStep ==
  ASSUME BatchInv, [Next]_vars
  PROVE  WhyAborted'
<1> USE DEF BatchInv, Typed, StateFollowsPhase, ToldSoFar, WhyAborted, Final, InScheduler,
            Goto, Becomes, given
<1>1. ASSUME NEW r \in Rows, SkipRow(r) PROVE WhyAborted'
  BY <1>1 DEF SkipRow, Slot
<1>2. ASSUME NEW r \in Rows, StartRow(r) PROVE WhyAborted'
  BY <1>2 DEF StartRow, Slot
<1>3. ASSUME NEW r \in Rows, Compute(r) PROVE WhyAborted'
  BY <1>3 DEF Compute
<1>4. ASSUME NEW r \in Rows, StopRun(r) \/ RunTimesOut(r) PROVE WhyAborted'
  BY <1>4 DEF StopRun, RunTimesOut
<1>5. ASSUME NEW r \in Rows, RunReturned(r) PROVE WhyAborted'
  BY <1>5 DEF RunReturned, Outcome
<1>6. ASSUME NEW r \in Rows, RowEnded(r) PROVE WhyAborted'
  BY <1>6 DEF RowEnded, Aborts
<1>7. ASSUME Cancel PROVE WhyAborted'
  BY <1>7 DEF Cancel
<1>8. ASSUME Finish \/ UNCHANGED vars PROVE WhyAborted'
  BY <1>8 DEF Finish, vars
<1> QED
  BY <1>1, <1>2, <1>3, <1>4, <1>5, <1>6, <1>7, <1>8 DEF Next, RowStep

LEMMA AllOverStep ==
  ASSUME BatchInv, [Next]_vars
  PROVE  AllOver'
<1> USE DEF BatchInv, Typed, AllOver, Final, InScheduler, Goto, Becomes
<1>1. ASSUME NEW r \in Rows, RowStep(r) PROVE AllOver'
  <2>1. phase[r] # "ended" /\ finished = "none" /\ status = "running"
    BY <1>1 DEF RowStep, SkipRow, StartRow, Slot, Compute, StopRun, RunTimesOut, RunReturned, RowEnded
  <2>2. UNCHANGED <<status, finished>>
    BY <1>1 DEF RowStep, SkipRow, StartRow, Compute, StopRun, RunTimesOut, RunReturned, RowEnded
  <2> QED
    BY <2>1, <2>2
<1>2. ASSUME Cancel PROVE AllOver'
  BY <1>2 DEF Cancel
<1>3. ASSUME Finish PROVE AllOver'
  BY <1>3 DEF Finish, FinalStatus
<1>4. ASSUME UNCHANGED vars PROVE AllOver'
  BY <1>4 DEF vars, FinalStatus
<1> QED
  BY <1>1, <1>2, <1>3, <1>4 DEF Next

LEMMA BatchInvAlways == Spec => []BatchInv
<1>1. BatchInv /\ [Next]_vars => BatchInv'
  BY TypedStep, StateFollowsPhaseStep, ToldSoFarStep, WhyAbortedStep, AllOverStep DEF BatchInv
<1> QED
  BY BatchInvInit, <1>1, PTL DEF Spec

\* batch.finished is the last event, after every row has been told its final state, and
\* its status is what the rows and the abort flag say (run, _run_row, cancel).
THEOREM FinishedIsLastAlways == Spec => []FinishedIsLast
<1>1. BatchInv => FinishedIsLast
  <2> SUFFICES ASSUME BatchInv, finished # "none" PROVE FinishedIsLast
    BY DEF FinishedIsLast
  <2> USE DEF BatchInv
  <2>1. \A r \in Rows : phase[r] = "ended"
    BY DEF AllOver
  <2>2. told = state
    <3>1. \A r \in Rows : told[r] = state[r]
      BY <2>1 DEF ToldSoFar
    <3> QED
      BY <3>1 DEF Typed
  <2>3. \A r \in Rows : state[r] \in Final
    BY <2>1 DEF ToldSoFar
  <2>4. finished = status /\ finished = FinalStatus
    BY DEF AllOver
  <2>5. finished = "done" => \A r \in Rows : state[r] = "done"
    BY <2>3, <2>4 DEF FinalStatus, Final
  <2>6. finished = "cancelled" <=> abort
    BY <2>4 DEF FinalStatus, WhyAborted, Typed
  <2>7. ASSUME continueOnError, ~cancelled
        PROVE  /\ \A r \in Rows : state[r] = IF failed[r] THEN "error" ELSE "done"
               /\ finished = "error" <=> \E r \in Rows : failed[r]
    <3>1. ~abort /\ \A r \in Rows : state[r] = IF failed[r] THEN "error" ELSE "done"
      BY <2>1, <2>7 DEF WhyAborted
    <3>2. finished = "error" <=> \E r \in Rows : state[r] = "error"
      BY <2>4, <3>1 DEF FinalStatus
    <3> QED
      BY <3>1, <3>2
  <2> QED
    BY <2>2, <2>3, <2>4, <2>5, <2>6, <2>7 DEF FinishedIsLast
<1> QED
  BY <1>1, BatchInvAlways, PTL

\* Once a failed row is reported and the batch does not go on after errors, no other row
\* starts (_run_row).
THEOREM FailureStopsTheRestAlways == Spec => FailureStopsTheRest
<1>1. ASSUME BatchInv, [Next]_vars, ~continueOnError, NEW r \in Rows, told[r] = "error",
             NEW q \in Rows, state[q] = "pending"
      PROVE  state'[q] # "running"
  <2>1. abort
    BY <1>1 DEF BatchInv, WhyAborted
  <2>2. \A p \in Rows : ~StartRow(p)
    BY <2>1 DEF StartRow
  <2> QED
    BY <1>1, <2>2 DEF BatchInv, Typed, Next, RowStep, SkipRow, Compute, StopRun, RunTimesOut,
       RunReturned, Outcome, RowEnded, Cancel, Finish, vars, Becomes
<1>2. BatchInv /\ [Next]_vars =>
        [~continueOnError /\ (\E r \in Rows : told[r] = "error") =>
           \A q \in Rows : state[q] = "pending" => state'[q] # "running"]_vars
  BY <1>1
<1> QED
  BY <1>2, BatchInvAlways, PTL DEF Spec, FailureStopsTheRest

\* After a cancel no row becomes "done" or starts to run (cancel, _run_row).
THEOREM NothingSucceedsAfterCancelAlways == Spec => NothingSucceedsAfterCancel
<1>1. ASSUME BatchInv, [Next]_vars, abort, NEW r \in Rows, state'[r] # state[r]
      PROVE  state'[r] = "cancelled"
  <2>1. PICK q \in Rows : SkipRow(q) \/ RunReturned(q)
    BY <1>1 DEF Next, RowStep, StartRow, Compute, StopRun, RunTimesOut, RowEnded, Cancel, Finish, vars
  <2> QED
    BY <1>1, <2>1 DEF BatchInv, Typed, SkipRow, RunReturned, Outcome, Becomes
<1>2. BatchInv /\ [Next]_vars =>
        [abort => \A r \in Rows : state'[r] # state[r] => state'[r] = "cancelled"]_vars
  BY <1>1
<1> QED
  BY <1>2, BatchInvAlways, PTL DEF Spec, NothingSucceedsAfterCancel

-----------------------------------------------------------------------------
(* EventStream: what is on its way to the client *)

\* The messages of the socket; behind its first status a snapshot has those of the other
\* nodes; and what waits for the send lock.
Messages ==
  [type : {"event", "deferred", "snapshot"}, node : Nodes, v : Nat]
  \cup [type : {"subscribed", "started", "finished"}, run : Nat]
  \cup {Issues}
Deferred == [type : {"deferred"}, node : Nodes, v : Nat]
FurtherSnapshots == [type : {"snapshot"}, node : Nodes \ {1}, v : Nat]
Requests == [who : {"commands", "forwarder"}, message : Messages]

\* What is on the wire, in the line for the lock and in the queue, one after the other.
Line(w, s, q) == w \o [i \in DOMAIN s |-> s[i].message] \o q

LEMMA LineIsASequence ==
  ASSUME NEW w \in Seq(Messages), NEW s \in Seq(Requests), NEW q \in Seq(Messages)
  PROVE  /\ Line(w, s, q) \in Seq(Messages)
         /\ Len(Line(w, s, q)) = Len(w) + Len(s) + Len(q)
         /\ Len(w) \in Nat /\ Len(s) \in Nat /\ Len(q) \in Nat
         /\ \A i \in 1..Len(w) : Line(w, s, q)[i] = w[i]
         /\ \A i \in 1..Len(s) : Line(w, s, q)[Len(w) + i] = s[i].message
         /\ \A i \in 1..Len(q) : Line(w, s, q)[Len(w) + Len(s) + i] = q[i]
<1> DEFINE m == [i \in DOMAIN s |-> s[i].message]
<1>1. /\ DOMAIN s = 1..Len(s) /\ Len(s) \in Nat /\ Len(w) \in Nat /\ Len(q) \in Nat
      /\ \A i \in 1..Len(s) : s[i] \in Requests
  OBVIOUS
<1>2. \A r \in Requests : r.message \in Messages
  BY DEF Requests
<1>3. m \in [1..Len(s) -> Messages]
  BY <1>1, <1>2
<1>4. m \in Seq(Messages) /\ Len(m) = Len(s) /\ \A i \in 1..Len(s) : m[i] = s[i].message
  BY <1>1, <1>3, IsASeq
<1> HIDE DEF m
<1>5. /\ w \o m \in Seq(Messages) /\ Len(w \o m) = Len(w) + Len(m)
      /\ \A i \in 1..(Len(w) + Len(m)) : (w \o m)[i] = IF i <= Len(w) THEN w[i] ELSE m[i - Len(w)]
  BY <1>4, ConcatProperties
<1> DEFINE wm == w \o m
<1>6. /\ wm \in Seq(Messages) /\ Len(wm) = Len(w) + Len(s)
      /\ \A i \in 1..(Len(w) + Len(s)) : wm[i] = IF i <= Len(w) THEN w[i] ELSE m[i - Len(w)]
  BY <1>4, <1>5
<1> HIDE DEF wm
<1>7. /\ wm \o q \in Seq(Messages) /\ Len(wm \o q) = Len(wm) + Len(q)
      /\ \A i \in 1..(Len(wm) + Len(q)) : (wm \o q)[i] = IF i <= Len(wm) THEN wm[i] ELSE q[i - Len(wm)]
  <2>1. wm \in Seq(Messages)
    BY <1>6
  <2> QED
    BY <2>1, ConcatProperties, Zenon
<1>8. Line(w, s, q) = wm \o q
  BY DEF Line, wm, m
<1> DEFINE l == wm \o q
<1>9. /\ l \in Seq(Messages) /\ Len(l) = Len(w) + Len(s) + Len(q)
      /\ \A i \in 1..(Len(w) + Len(s) + Len(q)) :
           l[i] = IF i <= Len(w) + Len(s) THEN wm[i] ELSE q[i - (Len(w) + Len(s))]
  BY <1>6, <1>7
<1> HIDE DEF l
<1>10. \A i \in 1..Len(w) : l[i] = w[i]
  <2> TAKE i \in 1..Len(w)
  <2>1. i \in 1..(Len(w) + Len(s) + Len(q)) /\ i <= Len(w) + Len(s) /\ i \in 1..(Len(w) + Len(s))
    BY <1>1
  <2> QED
    BY <1>6, <1>9, <2>1
<1>11. \A i \in 1..Len(s) : l[Len(w) + i] = s[i].message
  <2> TAKE i \in 1..Len(s)
  <2> DEFINE j == Len(w) + i
  <2>1. /\ j \in 1..(Len(w) + Len(s) + Len(q)) /\ j <= Len(w) + Len(s) /\ j \in 1..(Len(w) + Len(s))
        /\ ~(j <= Len(w)) /\ j - Len(w) = i
    BY <1>1
  <2> QED
    BY <1>4, <1>6, <1>9, <2>1
<1>12. \A i \in 1..Len(q) : l[Len(w) + Len(s) + i] = q[i]
  <2> TAKE i \in 1..Len(q)
  <2> DEFINE j == Len(w) + Len(s) + i
  <2>1. /\ j \in 1..(Len(w) + Len(s) + Len(q)) /\ ~(j <= Len(w) + Len(s))
        /\ j - (Len(w) + Len(s)) = i
    BY <1>1
  <2> QED
    BY <1>9, <2>1
<1> QED
  BY <1>1, <1>8, <1>9, <1>10, <1>11, <1>12 DEF l

\* Where an entry of the line is.
LEMMA EntryOfLine ==
  ASSUME NEW w \in Seq(Messages), NEW s \in Seq(Requests), NEW q \in Seq(Messages),
         NEW i \in 1..(Len(w) + Len(s) + Len(q))
  PROVE  \/ i \in 1..Len(w)
         \/ \E j \in 1..Len(s) : i = Len(w) + j
         \/ \E j \in 1..Len(q) : i = Len(w) + Len(s) + j
<1>1. Len(w) \in Nat /\ Len(s) \in Nat /\ Len(q) \in Nat
  OBVIOUS
<1>2. CASE i <= Len(w)
  BY <1>1, <1>2
<1>3. CASE ~(i <= Len(w)) /\ i <= Len(w) + Len(s)
  <2>1. i - Len(w) \in 1..Len(s) /\ i = Len(w) + (i - Len(w))
    BY <1>1, <1>3
  <2> QED
    BY <2>1
<1>4. CASE ~(i <= Len(w) + Len(s))
  <2>1. i - (Len(w) + Len(s)) \in 1..Len(q) /\ i = Len(w) + Len(s) + (i - (Len(w) + Len(s)))
    BY <1>1, <1>4
  <2> QED
    BY <2>1
<1> QED
  BY <1>1, <1>2, <1>3, <1>4

\* A message joins a sequence behind the k-th.
Inserted(t, u, k, m) ==
  /\ Len(u) = Len(t) + 1 /\ k \in 0..Len(t)
  /\ \A i \in 1..k : u[i] = t[i]
  /\ u[k + 1] = m
  /\ \A i \in (k + 1)..Len(t) : u[i + 1] = t[i]

\* Publishing, forwarding, sending and receiving, as the line sees them.
LEMMA PublishedIsLast ==
  ASSUME NEW w \in Seq(Messages), NEW s \in Seq(Requests), NEW q \in Seq(Messages), NEW m \in Messages
  PROVE  Inserted(Line(w, s, q), Line(w, s, Append(q, m)), Len(Line(w, s, q)), m)
<1> DEFINE u == Append(q, m)
           t == Line(w, s, q)
           l == Line(w, s, u)
<1>1. u \in Seq(Messages) /\ Len(u) = Len(q) + 1 /\ u[Len(q) + 1] = m /\ \A i \in 1..Len(q) : u[i] = q[i]
  OBVIOUS
<1> HIDE DEF u
<1>2. /\ t \in Seq(Messages) /\ Len(t) = Len(w) + Len(s) + Len(q)
      /\ Len(w) \in Nat /\ Len(s) \in Nat /\ Len(q) \in Nat
      /\ \A i \in 1..Len(w) : t[i] = w[i]
      /\ \A i \in 1..Len(s) : t[Len(w) + i] = s[i].message
      /\ \A i \in 1..Len(q) : t[Len(w) + Len(s) + i] = q[i]
  BY LineIsASequence
<1>3. /\ l \in Seq(Messages) /\ Len(l) = Len(w) + Len(s) + Len(u)
      /\ \A i \in 1..Len(w) : l[i] = w[i]
      /\ \A i \in 1..Len(s) : l[Len(w) + i] = s[i].message
      /\ \A i \in 1..Len(u) : l[Len(w) + Len(s) + i] = u[i]
  BY <1>1, LineIsASequence
<1>4. \A i \in 1..(Len(w) + Len(s) + Len(q)) :
        \/ i \in 1..Len(w)
        \/ \E j \in 1..Len(s) : i = Len(w) + j
        \/ \E j \in 1..Len(q) : i = Len(w) + Len(s) + j
  BY EntryOfLine
<1> HIDE DEF t, l
<1>5. \A i \in 1..Len(t) : l[i] = t[i]
  <2> TAKE i \in 1..Len(t)
  <2>1. i \in 1..(Len(w) + Len(s) + Len(q))
    BY <1>2
  <2>2. CASE i \in 1..Len(w)
    BY <1>2, <1>3, <2>2
  <2>3. ASSUME NEW j \in 1..Len(s), i = Len(w) + j PROVE l[i] = t[i]
    BY <1>2, <1>3, <2>3
  <2>4. ASSUME NEW j \in 1..Len(q), i = Len(w) + Len(s) + j PROVE l[i] = t[i]
    <3>1. j \in 1..Len(u) /\ u[j] = q[j]
      BY <1>1, <1>2
    <3> QED
      BY <1>2, <1>3, <2>4, <3>1
  <2> QED
    BY <1>4, <2>1, <2>2, <2>3, <2>4
<1>6. l[Len(t) + 1] = m
  <2>1. Len(q) + 1 \in 1..Len(u) /\ Len(t) + 1 = Len(w) + Len(s) + (Len(q) + 1)
    BY <1>1, <1>2
  <2> QED
    BY <1>1, <1>3, <2>1
<1>7. Len(l) = Len(t) + 1 /\ Len(t) \in 0..Len(t) /\ (Len(t) + 1)..Len(t) = {}
  BY <1>1, <1>2, <1>3
<1> QED
  BY <1>5, <1>6, <1>7 DEF Inserted, t, l, u

LEMMA InLineIsBeforeTheQueue ==
  ASSUME NEW w \in Seq(Messages), NEW s \in Seq(Requests), NEW q \in Seq(Messages),
         NEW r \in Requests
  PROVE  Inserted(Line(w, s, q), Line(w, Append(s, r), q), Len(w) + Len(s), r.message)
<1> DEFINE u == Append(s, r)
           t == Line(w, s, q)
           l == Line(w, u, q)
<1>1. u \in Seq(Requests) /\ Len(u) = Len(s) + 1 /\ u[Len(s) + 1] = r /\ \A i \in 1..Len(s) : u[i] = s[i]
  OBVIOUS
<1> HIDE DEF u
<1>2. /\ t \in Seq(Messages) /\ Len(t) = Len(w) + Len(s) + Len(q)
      /\ Len(w) \in Nat /\ Len(s) \in Nat /\ Len(q) \in Nat
      /\ \A i \in 1..Len(w) : t[i] = w[i]
      /\ \A i \in 1..Len(s) : t[Len(w) + i] = s[i].message
      /\ \A i \in 1..Len(q) : t[Len(w) + Len(s) + i] = q[i]
  BY LineIsASequence
<1>3. /\ l \in Seq(Messages) /\ Len(l) = Len(w) + Len(u) + Len(q)
      /\ \A i \in 1..Len(w) : l[i] = w[i]
      /\ \A i \in 1..Len(u) : l[Len(w) + i] = u[i].message
      /\ \A i \in 1..Len(q) : l[Len(w) + Len(u) + i] = q[i]
  BY <1>1, LineIsASequence
<1>4. \A i \in 1..(Len(w) + Len(s) + Len(q)) :
        \/ i \in 1..Len(w)
        \/ \E j \in 1..Len(s) : i = Len(w) + j
        \/ \E j \in 1..Len(q) : i = Len(w) + Len(s) + j
  BY EntryOfLine
<1> HIDE DEF t, l
<1>5. ASSUME NEW i \in 1..(Len(w) + Len(s)) PROVE l[i] = t[i]
  <2>1. i \in 1..(Len(w) + Len(s) + Len(q)) /\ \A j \in 1..Len(q) : i # Len(w) + Len(s) + j
    BY <1>2
  <2>2. CASE i \in 1..Len(w)
    BY <1>2, <1>3, <2>2
  <2>3. ASSUME NEW j \in 1..Len(s), i = Len(w) + j PROVE l[i] = t[i]
    <3>1. j \in 1..Len(u) /\ u[j] = s[j]
      BY <1>1, <1>2
    <3> QED
      BY <1>2, <1>3, <2>3, <3>1
  <2> QED
    BY <1>4, <2>1, <2>2, <2>3
<1>6. l[Len(w) + Len(s) + 1] = r.message
  <2>1. Len(s) + 1 \in 1..Len(u) /\ Len(w) + Len(s) + 1 = Len(w) + (Len(s) + 1)
    BY <1>1, <1>2
  <2> QED
    BY <1>1, <1>3, <2>1
<1>7. ASSUME NEW i \in (Len(w) + Len(s) + 1)..Len(t) PROVE l[i + 1] = t[i]
  <2> DEFINE j == i - (Len(w) + Len(s))
  <2>1. j \in 1..Len(q) /\ i = Len(w) + Len(s) + j /\ i + 1 = Len(w) + Len(u) + j
    BY <1>1, <1>2
  <2> HIDE DEF j
  <2> QED
    BY <1>2, <1>3, <2>1
<1>8. Len(l) = Len(t) + 1 /\ Len(w) + Len(s) \in 0..Len(t)
  BY <1>1, <1>2, <1>3
<1> QED
  BY <1>5, <1>6, <1>7, <1>8 DEF Inserted, t, l, u

LEMMA SentIsOnTheWire ==
  ASSUME NEW w \in Seq(Messages), NEW s \in Seq(Requests), NEW q \in Seq(Messages), s # <<>>
  PROVE  Line(Append(w, Head(s).message), Tail(s), q) = Line(w, s, q)
<1> DEFINE x == Append(w, Head(s).message)
           u == Tail(s)
           t == Line(w, s, q)
           l == Line(x, u, q)
<1>1. /\ u \in Seq(Requests) /\ Len(u) = Len(s) - 1 /\ \A i \in 1..Len(u) : u[i] = s[i + 1]
      /\ Head(s) = s[1] /\ s[1] \in Requests /\ Len(s) \in Nat \ {0}
  OBVIOUS
<1>2. s[1].message \in Messages
  BY <1>1 DEF Requests
<1>3. /\ x \in Seq(Messages) /\ Len(x) = Len(w) + 1 /\ \A i \in 1..Len(w) : x[i] = w[i]
      /\ x[Len(w) + 1] = s[1].message
  BY <1>1, <1>2
<1> HIDE DEF u, x
<1>4. /\ t \in Seq(Messages) /\ Len(t) = Len(w) + Len(s) + Len(q)
      /\ Len(w) \in Nat /\ Len(s) \in Nat /\ Len(q) \in Nat
      /\ \A i \in 1..Len(w) : t[i] = w[i]
      /\ \A i \in 1..Len(s) : t[Len(w) + i] = s[i].message
      /\ \A i \in 1..Len(q) : t[Len(w) + Len(s) + i] = q[i]
  BY LineIsASequence
<1>5. /\ l \in Seq(Messages) /\ Len(l) = Len(x) + Len(u) + Len(q)
      /\ \A i \in 1..Len(x) : l[i] = x[i]
      /\ \A i \in 1..Len(u) : l[Len(x) + i] = u[i].message
      /\ \A i \in 1..Len(q) : l[Len(x) + Len(u) + i] = q[i]
  <2>1. x \in Seq(Messages) /\ u \in Seq(Requests)
    BY <1>1, <1>3
  <2> QED
    BY <2>1, LineIsASequence, Zenon
<1>6. \A i \in 1..(Len(w) + Len(s) + Len(q)) :
        \/ i \in 1..Len(w)
        \/ \E j \in 1..Len(s) : i = Len(w) + j
        \/ \E j \in 1..Len(q) : i = Len(w) + Len(s) + j
  BY EntryOfLine
<1> HIDE DEF t, l
<1>7. Len(l) = Len(t)
  BY <1>1, <1>3, <1>4, <1>5
<1>8. ASSUME NEW i \in 1..Len(t) PROVE l[i] = t[i]
  <2>1. i \in 1..(Len(w) + Len(s) + Len(q))
    BY <1>4
  <2>2. CASE i \in 1..Len(w)
    <3>1. i \in 1..Len(x)
      BY <1>3, <1>4, <2>2
    <3> QED
      BY <1>3, <1>4, <1>5, <2>2, <3>1
  <2>3. ASSUME i = Len(w) + 1 PROVE l[i] = t[i]
    <3>1. i \in 1..Len(x) /\ 1 \in 1..Len(s)
      BY <1>1, <1>3, <1>4, <2>3
    <3> QED
      BY <1>3, <1>4, <1>5, <2>3, <3>1
  <2>4. ASSUME NEW j \in 1..Len(s), i = Len(w) + j, j # 1 PROVE l[i] = t[i]
    <3>1. j - 1 \in 1..Len(u) /\ i = Len(x) + (j - 1) /\ (j - 1) + 1 = j
      BY <1>1, <1>3, <1>4, <2>4
    <3>2. u[j - 1] = s[j]
      BY <1>1, <3>1
    <3> QED
      BY <1>4, <1>5, <2>4, <3>1, <3>2
  <2>5. ASSUME NEW j \in 1..Len(q), i = Len(w) + Len(s) + j PROVE l[i] = t[i]
    <3>1. i = Len(x) + Len(u) + j
      BY <1>1, <1>3, <1>4, <2>5
    <3> QED
      BY <1>4, <1>5, <2>5, <3>1
  <2> QED
    BY <1>6, <2>1, <2>2, <2>3, <2>4, <2>5
<1>9. l = t
  BY <1>4, <1>5, <1>7, <1>8, SeqEqual
<1> QED
  BY <1>9 DEF l, t, u, x

LEMMA ForwardedIsInLine ==
  ASSUME NEW w \in Seq(Messages), NEW s \in Seq(Requests), NEW q \in Seq(Messages), q # <<>>
  PROVE  Line(w, Append(s, Request("forwarder", Head(q))), Tail(q)) = Line(w, s, q)
<1> DEFINE r == Request("forwarder", Head(q))
           x == Append(s, r)
           u == Tail(q)
           t == Line(w, s, q)
           l == Line(w, x, u)
<1>1. /\ u \in Seq(Messages) /\ Len(u) = Len(q) - 1 /\ \A i \in 1..Len(u) : u[i] = q[i + 1]
      /\ Head(q) = q[1] /\ q[1] \in Messages /\ Len(q) \in Nat \ {0}
  OBVIOUS
<1>2. r \in Requests /\ r.message = q[1]
  BY <1>1 DEF Requests, Request
<1> HIDE DEF r
<1>3. /\ x \in Seq(Requests) /\ Len(x) = Len(s) + 1 /\ \A i \in 1..Len(s) : x[i] = s[i]
      /\ x[Len(s) + 1] = r
  BY <1>2
<1> HIDE DEF u, x
<1>4. /\ t \in Seq(Messages) /\ Len(t) = Len(w) + Len(s) + Len(q)
      /\ Len(w) \in Nat /\ Len(s) \in Nat /\ Len(q) \in Nat
      /\ \A i \in 1..Len(w) : t[i] = w[i]
      /\ \A i \in 1..Len(s) : t[Len(w) + i] = s[i].message
      /\ \A i \in 1..Len(q) : t[Len(w) + Len(s) + i] = q[i]
  BY LineIsASequence
<1>5. /\ l \in Seq(Messages) /\ Len(l) = Len(w) + Len(x) + Len(u)
      /\ \A i \in 1..Len(w) : l[i] = w[i]
      /\ \A i \in 1..Len(x) : l[Len(w) + i] = x[i].message
      /\ \A i \in 1..Len(u) : l[Len(w) + Len(x) + i] = u[i]
  <2>1. x \in Seq(Requests) /\ u \in Seq(Messages)
    BY <1>1, <1>3
  <2> QED
    BY <2>1, LineIsASequence, Zenon
<1>6. \A i \in 1..(Len(w) + Len(s) + Len(q)) :
        \/ i \in 1..Len(w)
        \/ \E j \in 1..Len(s) : i = Len(w) + j
        \/ \E j \in 1..Len(q) : i = Len(w) + Len(s) + j
  BY EntryOfLine
<1> HIDE DEF t, l
<1>7. Len(l) = Len(t)
  BY <1>1, <1>3, <1>4, <1>5
<1>8. ASSUME NEW i \in 1..Len(t) PROVE l[i] = t[i]
  <2>1. i \in 1..(Len(w) + Len(s) + Len(q))
    BY <1>4
  <2>2. CASE i \in 1..Len(w)
    BY <1>4, <1>5, <2>2
  <2>3. ASSUME NEW j \in 1..Len(s), i = Len(w) + j PROVE l[i] = t[i]
    <3>1. j \in 1..Len(x) /\ x[j] = s[j]
      BY <1>3, <1>4
    <3> QED
      BY <1>4, <1>5, <2>3, <3>1
  <2>4. ASSUME i = Len(w) + Len(s) + 1 PROVE l[i] = t[i]
    <3>1. Len(s) + 1 \in 1..Len(x) /\ i = Len(w) + (Len(s) + 1) /\ 1 \in 1..Len(q)
      BY <1>1, <1>3, <1>4, <2>4
    <3> QED
      BY <1>2, <1>3, <1>4, <1>5, <2>4, <3>1
  <2>5. ASSUME NEW j \in 1..Len(q), i = Len(w) + Len(s) + j, j # 1 PROVE l[i] = t[i]
    <3>1. j - 1 \in 1..Len(u) /\ i = Len(w) + Len(x) + (j - 1) /\ (j - 1) + 1 = j
      BY <1>1, <1>3, <1>4, <2>5
    <3>2. u[j - 1] = q[j]
      BY <1>1, <3>1
    <3> QED
      BY <1>4, <1>5, <2>5, <3>1, <3>2
  <2> QED
    BY <1>6, <2>1, <2>2, <2>3, <2>4, <2>5
<1>9. l = t
  BY <1>4, <1>5, <1>7, <1>8, SeqEqual
<1> QED
  BY <1>9 DEF l, t, u, x, r

\* The first message leaves a sequence.
Shifted(t, u) ==
  /\ Len(u) = Len(t) - 1 /\ Len(t) \in Nat \ {0}
  /\ \A i \in 1..Len(u) : u[i] = t[i + 1]

LEMMA ReceivedIsFirst ==
  ASSUME NEW w \in Seq(Messages), NEW s \in Seq(Requests), NEW q \in Seq(Messages), w # <<>>
  PROVE  Shifted(Line(w, s, q), Line(Tail(w), s, q)) /\ Line(w, s, q)[1] = Head(w)
<1> DEFINE x == Tail(w)
           t == Line(w, s, q)
           l == Line(x, s, q)
<1>1. /\ x \in Seq(Messages) /\ Len(x) = Len(w) - 1 /\ \A i \in 1..Len(x) : x[i] = w[i + 1]
      /\ Head(w) = w[1] /\ Len(w) \in Nat \ {0}
  OBVIOUS
<1> HIDE DEF x
<1>2. /\ t \in Seq(Messages) /\ Len(t) = Len(w) + Len(s) + Len(q)
      /\ Len(w) \in Nat /\ Len(s) \in Nat /\ Len(q) \in Nat
      /\ \A i \in 1..Len(w) : t[i] = w[i]
      /\ \A i \in 1..Len(s) : t[Len(w) + i] = s[i].message
      /\ \A i \in 1..Len(q) : t[Len(w) + Len(s) + i] = q[i]
  BY LineIsASequence
<1>3. /\ l \in Seq(Messages) /\ Len(l) = Len(x) + Len(s) + Len(q)
      /\ \A i \in 1..Len(x) : l[i] = x[i]
      /\ \A i \in 1..Len(s) : l[Len(x) + i] = s[i].message
      /\ \A i \in 1..Len(q) : l[Len(x) + Len(s) + i] = q[i]
  BY <1>1, LineIsASequence
<1>4. \A i \in 1..(Len(x) + Len(s) + Len(q)) :
        \/ i \in 1..Len(x)
        \/ \E j \in 1..Len(s) : i = Len(x) + j
        \/ \E j \in 1..Len(q) : i = Len(x) + Len(s) + j
  BY <1>1, EntryOfLine
<1> HIDE DEF t, l
<1>5. Len(l) = Len(t) - 1 /\ Len(t) \in Nat \ {0}
  BY <1>1, <1>2, <1>3
<1>6. ASSUME NEW i \in 1..Len(l) PROVE l[i] = t[i + 1]
  <2>1. CASE i \in 1..Len(x)
    <3>1. i + 1 \in 1..Len(w)
      BY <1>1, <2>1
    <3> QED
      BY <1>1, <1>2, <1>3, <2>1, <3>1
  <2>2. ASSUME NEW j \in 1..Len(s), i = Len(x) + j PROVE l[i] = t[i + 1]
    <3>1. i + 1 = Len(w) + j
      BY <1>1, <1>2, <2>2
    <3> QED
      BY <1>2, <1>3, <2>2, <3>1
  <2>3. ASSUME NEW j \in 1..Len(q), i = Len(x) + Len(s) + j PROVE l[i] = t[i + 1]
    <3>1. i + 1 = Len(w) + Len(s) + j
      BY <1>1, <1>2, <2>3
    <3> QED
      BY <1>2, <1>3, <2>3, <3>1
  <2> QED
    BY <1>3, <1>4, <2>1, <2>2, <2>3
<1>7. t[1] = Head(w)
  BY <1>1, <1>2
<1> QED
  BY <1>5, <1>6, <1>7 DEF Shifted, t, l, x

LEMMA RepliedIsInLine ==
  ASSUME NEW w \in Seq(Messages), NEW s \in Seq(Requests), NEW q \in Seq(Messages), s # <<>>,
         NEW r \in Requests
  PROVE  Inserted(Line(w, s, q), Line(Append(w, Head(s).message), Append(Tail(s), r), q),
                  Len(w) + Len(s), r.message)
<1>1. /\ Append(s, r) \in Seq(Requests) /\ Append(s, r) # <<>>
      /\ Head(Append(s, r)) = Head(s) /\ Tail(Append(s, r)) = Append(Tail(s), r)
  OBVIOUS
<1>2. Line(Append(w, Head(s).message), Append(Tail(s), r), q) = Line(w, Append(s, r), q)
  BY <1>1, SentIsOnTheWire
<1> QED
  BY <1>2, InLineIsBeforeTheQueue

-----------------------------------------------------------------------------
(* EventStream: types *)

Sessions == {"none", "idle", "asked", "subscribed", "validation", "snapshot", "serving"}
Answers == [for : Functions, nodes : [Nodes -> Nat], run : Nat]

\* Every variable keeps its type.
StreamTyped ==
  /\ records \in [Nodes -> Nat] /\ current \in Nat /\ pending \subseteq Nat
  /\ changes \in Nat /\ runs \in Nat
  /\ due \in [Threads -> SUBSET Nodes] /\ held \in [Threads -> Deferred \cup {Nothing}]
  /\ calls \in Seq(Deferred)
  /\ session \in Sessions /\ todo \in Seq(FurtherSnapshots) /\ behind \subseteq Parts
  /\ queue \in Seq(Messages) /\ sends \in Seq(Requests) /\ wire \in Seq(Messages)
  /\ conn \in BOOLEAN /\ wanted \in BOOLEAN /\ losses \in Nat
  /\ view \in [Nodes -> Nat] /\ shown \in Nat /\ disputed \subseteq Parts
  /\ asked \in [Functions -> Nat] /\ answers \subseteq Answers /\ accepted \subseteq Nat
  /\ posts \in Nat /\ statuses \in Nat

LEMMA MessagesAreTyped ==
  /\ \A n \in Nodes, v \in Nat : 
       /\ Status(n, v, "event") \in Messages /\ Status(n, v, "snapshot") \in Messages
       /\ Status(n, v, "deferred") \in Deferred
  /\ Deferred \subseteq Messages
  /\ \A r \in Nat, kind \in {"subscribed", "started", "finished"} : Run(r, kind) \in Messages
  /\ Issues \in Messages
  /\ \A m \in Messages, who \in {"commands", "forwarder"} :
       Request(who, m) \in Requests /\ Request(who, m).message = m
BY DEF Messages, Requests, Status, Run, Request, Deferred

LEMMA PartsAreTyped == 0 \in Parts /\ Nodes \subseteq Parts /\ 1 \in Nodes /\ 0 \notin Nodes
BY EventStreamAssumption DEF Parts, Nodes

LEMMA OfferIsTyped ==
  ASSUME StreamTyped, NEW m \in Messages, NEW part \in Parts, NEW isLatest, Offer(m, part, isLatest)
  PROVE  queue' \in Seq(Messages) /\ behind' \subseteq Parts
<1>1. queue \in Seq(Messages) /\ behind \subseteq Parts
  BY DEF StreamTyped
<1>2. behind' \subseteq Parts
  BY <1>1 DEF Offer
<1>3. CASE queue' = queue
  BY <1>1, <1>2, <1>3
<1>4. CASE queue' = Append(queue, m)
  BY <1>1, <1>2, <1>4
<1> QED
  BY <1>3, <1>4 DEF Offer

LEMMA StatusesAreTyped ==
  ASSUME StreamTyped
  PROVE  /\ Head(Statuses) = Status(1, records[1], "snapshot") /\ Head(Statuses) \in Messages
         /\ Tail(Statuses) \in Seq(FurtherSnapshots)
<1>1. Nodes = 1..NumNodes /\ NumNodes \in Nat \ {0}
  BY EventStreamAssumption DEF Nodes
<1>2. \A n \in Nodes : Statuses[n] = Status(n, records[n], "snapshot") /\ Statuses[n] \in Messages
  <2>1. \A n \in Nodes : records[n] \in Nat
    BY DEF StreamTyped
  <2> QED
    BY <2>1, MessagesAreTyped DEF Statuses
<1>3. Statuses \in Seq(Messages) /\ Len(Statuses) = NumNodes
  <2>1. Statuses \in [1..NumNodes -> Messages]
    BY <1>1, <1>2 DEF Statuses
  <2> QED
    BY <1>1, <2>1, IsASeq
<1> DEFINE t == Tail(Statuses)
<1>4. /\ Head(Statuses) = Statuses[1] /\ t \in Seq(Messages)
      /\ Len(t) = NumNodes - 1
      /\ \A i \in 1..(NumNodes - 1) : t[i] = Statuses[i + 1]
  BY <1>1, <1>3
<1> HIDE DEF t
<1>5. 1 \in Nodes /\ \A i \in 1..(NumNodes - 1) : i + 1 \in Nodes /\ i + 1 # 1
  BY <1>1
<1>6. ASSUME NEW i \in 1..(NumNodes - 1) PROVE t[i] \in FurtherSnapshots
  <2>1. t[i] = Status(i + 1, records[i + 1], "snapshot") /\ i + 1 \in Nodes \ {1}
    BY <1>2, <1>4, <1>5
  <2>2. records[i + 1] \in Nat
    BY <1>5 DEF StreamTyped
  <2> QED
    BY <2>1, <2>2 DEF Status, FurtherSnapshots
<1>7. t \in [1..(NumNodes - 1) -> FurtherSnapshots]
  <2>1. t = [i \in 1..(NumNodes - 1) |-> t[i]]
    BY <1>4
  <2> QED
    BY <1>6, <2>1
<1>8. t \in Seq(FurtherSnapshots)
  <2>1. NumNodes - 1 \in Nat
    BY <1>1
  <2> QED
    BY <1>7, <2>1, IsASeq
<1> QED
  BY <1>2, <1>4, <1>5, <1>8 DEF t

LEMMA StreamTypedStep ==
  ASSUME StreamTyped, [StreamNext]_streamVars
  PROVE  StreamTyped'
<1> USE DEF engine, loop, threads, server, socket, store, http, Sessions
<1>1. ASSUME NEW n \in Nodes, ChangeStatus(n) PROVE StreamTyped'
  <2>1. Status(n, changes + 1, "event") \in Messages /\ n \in Parts
    BY MessagesAreTyped, PartsAreTyped DEF StreamTyped
  <2>2. queue' \in Seq(Messages) /\ behind' \subseteq Parts
    BY <1>1, <2>1, OfferIsTyped DEF ChangeStatus
  <2>3. records' \in [Nodes -> Nat] /\ changes' \in Nat
    BY <1>1 DEF ChangeStatus, StreamTyped
  <2> QED
    BY <1>1, <2>2, <2>3 DEF ChangeStatus, StreamTyped
<1>2. ASSUME NEW r \in 1..MaxNews, BeginRun(r) PROVE StreamTyped'
  <2>1. r \in Nat /\ 0 \in Parts
    BY EventStreamAssumption, PartsAreTyped
  <2>2. Run(r, "started") \in Messages
    BY <2>1, MessagesAreTyped
  <2> QED
    BY <1>2, <2>1, <2>2, OfferIsTyped DEF BeginRun, StreamTyped
<1>3. ASSUME NEW r \in 1..MaxNews, RunAccepted(r) PROVE StreamTyped'
  <2>1. disputed' \subseteq Parts
    BY <1>3, PartsAreTyped DEF RunAccepted, StreamTyped
  <2> QED
    BY <1>3, <2>1 DEF RunAccepted, StreamTyped
<1>4. CASE FinishRun
  <2>1. Run(current, "finished") \in Messages /\ 0 \in Parts
    BY MessagesAreTyped, PartsAreTyped DEF StreamTyped
  <2> QED
    BY <1>4, <2>1, OfferIsTyped DEF FinishRun, StreamTyped
<1>16. ASSUME NEW t \in Threads, ThreadUpdates(t) PROVE StreamTyped'
  <2>1. PICK ns \in SUBSET Nodes :
          /\ records' = [n \in Nodes |-> IF n \in ns THEN changes + 1 ELSE records[n]]
          /\ due' = [due EXCEPT ![t] = ns]
    BY <1>16 DEF ThreadUpdates
  <2>2. changes' = changes + 1 /\ changes + 1 \in Nat
    BY <1>16 DEF ThreadUpdates, StreamTyped
  <2>3. records' \in [Nodes -> Nat]
    BY <2>1, <2>2 DEF StreamTyped
  <2>4. due' \in [Threads -> SUBSET Nodes]
    BY <2>1 DEF StreamTyped
  <2> QED
    BY <1>16, <2>2, <2>3, <2>4 DEF ThreadUpdates, StreamTyped
<1>17. ASSUME NEW t \in Threads, NEW n \in Nodes, ThreadReads(t, n) PROVE StreamTyped'
  <2>1. Status(n, records[n], "deferred") \in Deferred
    BY MessagesAreTyped DEF StreamTyped
  <2>2. held' \in [Threads -> Deferred \cup {Nothing}]
    BY <1>17, <2>1 DEF ThreadReads, StreamTyped
  <2>3. due' \in [Threads -> SUBSET Nodes]
    BY <1>17 DEF ThreadReads, StreamTyped
  <2> QED
    BY <1>17, <2>2, <2>3 DEF ThreadReads, StreamTyped
<1>18. ASSUME NEW t \in Threads, ThreadPublishes(t) PROVE StreamTyped'
  <2>1. held[t] \in Deferred
    BY <1>18 DEF ThreadPublishes, StreamTyped
  <2>2. calls' \in Seq(Deferred)
    BY <1>18, <2>1 DEF ThreadPublishes, StreamTyped
  <2>3. held' \in [Threads -> Deferred \cup {Nothing}]
    BY <1>18 DEF ThreadPublishes, StreamTyped
  <2> QED
    BY <1>18, <2>2, <2>3 DEF ThreadPublishes, StreamTyped
<1>19. CASE Deliver
  <2>1. Head(calls) \in Deferred /\ Tail(calls) \in Seq(Deferred)
    BY <1>19 DEF Deliver, StreamTyped
  <2>2. Head(calls) \in Messages /\ Head(calls).node \in Parts
    BY <2>1, MessagesAreTyped, PartsAreTyped DEF Deferred
  <2>3. Offer(Head(calls), Head(calls).node, Head(calls).v = records[Head(calls).node])
    BY <1>19 DEF Deliver
  <2>4. queue' \in Seq(Messages) /\ behind' \subseteq Parts
    BY <2>2, <2>3, OfferIsTyped
  <2> QED
    BY <1>19, <2>1, <2>4 DEF Deliver, StreamTyped
<1>5. CASE HandleSubscribe
  <2>1. Request("commands", Run(current, "subscribed")) \in Requests
    BY MessagesAreTyped DEF StreamTyped
  <2> QED
    BY <1>5, <2>1 DEF HandleSubscribe, StreamTyped
<1>6. CASE ReplySent \/ IssuesSent \/ StatusSent \/ EventSent
  <2>1. sends # <<>> /\ wire' = Append(wire, Head(sends).message)
    BY <1>6 DEF ReplySent, IssuesSent, StatusSent, EventSent, HasSent, Release
  <2>2. Tail(sends) \in Seq(Requests) /\ Head(sends) \in Requests
    BY <2>1 DEF StreamTyped
  <2>3. wire' \in Seq(Messages)
    BY <2>1, <2>2 DEF StreamTyped, Requests
  <2>4. \A m \in Messages : NextReply(m) => sends' \in Seq(Requests)
    BY <2>2, MessagesAreTyped DEF NextReply
  <2>5. CASE ReplySent
    BY <2>3, <2>4, <2>5, MessagesAreTyped DEF ReplySent, StreamTyped
  <2>6. CASE IssuesSent
    BY <2>3, <2>4, <2>6, StatusesAreTyped DEF IssuesSent, StreamTyped
  <2>7. CASE StatusSent /\ todo = <<>>
    BY <2>2, <2>3, <2>7 DEF StatusSent, StreamTyped
  <2>8. CASE StatusSent /\ todo # <<>>
    <3>1. Head(todo) \in Messages /\ Tail(todo) \in Seq(FurtherSnapshots)
      <4>1. Head(todo) \in FurtherSnapshots /\ Tail(todo) \in Seq(FurtherSnapshots)
        BY <2>8 DEF StreamTyped
      <4> QED
        BY <4>1 DEF FurtherSnapshots, Messages
    <3> QED
      BY <2>3, <2>4, <2>8, <3>1 DEF StatusSent, StreamTyped
  <2>9. CASE EventSent
    BY <2>2, <2>3, <2>9 DEF EventSent, StreamTyped
  <2> QED
    BY <1>6, <2>5, <2>6, <2>7, <2>8, <2>9
<1>7. CASE Forward
  <2>1. Head(queue) \in Messages /\ Tail(queue) \in Seq(Messages)
    BY <1>7 DEF Forward, StreamTyped
  <2>2. Request("forwarder", Head(queue)) \in Requests
    BY <2>1, MessagesAreTyped
  <2> QED
    BY <1>7, <2>1, <2>2 DEF Forward, StreamTyped
<1>8. CASE SocketOpens
  <2>1. asked' \in [Functions -> Nat]
    BY <1>8 DEF SocketOpens, StreamTyped, Functions
  <2>2. session' \in Sessions /\ conn' \in BOOLEAN
    BY <1>8 DEF SocketOpens
  <2>3. UNCHANGED <<engine, todo, queue, sends, behind, wire, wanted, losses, store,
                    answers, accepted, posts, statuses>>
    BY <1>8 DEF SocketOpens
  <2> QED
    BY <2>1, <2>2, <2>3 DEF StreamTyped
<1>9. CASE SocketBreaks
  <2>1. /\ losses' = losses + 1 /\ conn' = FALSE /\ session' = "none" /\ behind' = {}
        /\ todo' = <<>> /\ queue' = <<>> /\ sends' = <<>> /\ wire' = <<>>
        /\ UNCHANGED <<engine, wanted, store, http>>
    BY <1>9 DEF SocketBreaks
  <2>2. <<>> \in Seq(Messages) /\ <<>> \in Seq(Requests) /\ <<>> \in Seq(FurtherSnapshots)
    OBVIOUS
  <2>3. losses' \in Nat
    <3>1. losses \in Nat
      BY DEF StreamTyped
    <3>2. losses' = losses + 1
      BY <2>1
    <3> QED
      BY <3>1, <3>2
  <2>4. conn' \in BOOLEAN
    BY <2>1
  <2>5. session' \in Sessions /\ behind' \subseteq Parts
    BY <2>1
  <2>6. todo' \in Seq(FurtherSnapshots) /\ queue' \in Seq(Messages) /\ sends' \in Seq(Requests)
        /\ wire' \in Seq(Messages)
    BY <2>1, <2>2
  <2>7. UNCHANGED <<records, current, pending, changes, runs, due, held, calls, wanted, view, shown, disputed,
                    asked, answers, accepted, posts, statuses>>
    BY <2>1
  <2> QED
    BY <2>3, <2>4, <2>5, <2>6, <2>7 DEF StreamTyped
<1>10. CASE Receive
  <2> DEFINE m == Head(wire)
  <2>1. m \in Messages /\ wire' \in Seq(Messages)
    BY <1>10 DEF Receive, StreamTyped
  <2>2. /\ view' = IF IsStatus(m) THEN [view EXCEPT ![m.node] = m.v] ELSE view
        /\ shown' = Shown(m) /\ disputed' \subseteq disputed
    BY <1>10 DEF Receive
  <2> HIDE DEF m
  <2>3. /\ IsStatus(m) => m.v \in Nat
        /\ m.type \in {"subscribed", "started"} => m.run \in Nat
    BY <2>1 DEF Messages, Issues, IsStatus
  <2>4. view' \in [Nodes -> Nat]
    BY <2>2, <2>3 DEF StreamTyped
  <2>5. shown' \in Nat
    BY <2>2, <2>3 DEF Shown, StreamTyped
  <2> QED
    BY <1>10, <2>1, <2>2, <2>4, <2>5 DEF Receive, StreamTyped
<1>11. ASSUME NEW f \in Functions, StatusServed(f) PROVE StreamTyped'
  <2>1. [for |-> f, nodes |-> records, run |-> current] \in Answers
    BY DEF StreamTyped, Answers
  <2>2. asked[f] \in Nat /\ asked[f] > 0
    BY <1>11 DEF StatusServed, StreamTyped
  <2> QED
    BY <1>11, <2>1, <2>2 DEF StatusServed, StreamTyped
<1>12. ASSUME NEW f \in Functions, StatusFails(f) PROVE StreamTyped'
  <2>1. asked[f] \in Nat /\ asked[f] > 0
    BY <1>12 DEF StatusFails, StreamTyped
  <2> QED
    <3>1. asked' \in [Functions -> Nat]
      BY <1>12, <2>1 DEF StatusFails, StreamTyped
    <3>2. wanted' \in BOOLEAN /\ session' \in Sessions
      BY <1>12 DEF StatusFails, Subscribe, StreamTyped
    <3>3. UNCHANGED <<engine, todo, queue, sends, behind, conn, wire, losses, store, answers,
                      accepted, posts, statuses>>
      BY <1>12 DEF StatusFails
    <3> QED
      BY <3>1, <3>2, <3>3 DEF StreamTyped
<1>13. ASSUME NEW a \in answers, StatusApplied(a) PROVE StreamTyped'
  <2>1. a.nodes \in [Nodes -> Nat] /\ a.run \in Nat
    BY DEF StreamTyped, Answers
  <2>2. disputed' \subseteq Parts
    BY <1>13, PartsAreTyped DEF StatusApplied, StreamTyped
  <2> QED
    BY <1>13, <2>1, <2>2 DEF StatusApplied, Subscribe, StreamTyped
<1>14. CASE PostRun
  BY <1>14 DEF PostRun, StreamTyped
<1>15. CASE UNCHANGED streamVars
  BY <1>15 DEF streamVars, StreamTyped
<1> QED
  BY <1>1, <1>2, <1>3, <1>4, <1>5, <1>6, <1>7, <1>8, <1>9, <1>10, <1>11, <1>12, <1>13, <1>14, <1>15,
     <1>16, <1>17, <1>18, <1>19 DEF StreamNext

-----------------------------------------------------------------------------
(* EventStream: the order of the events *)

\* What precedes an event of the loop is older, and every event is one of the changes so far.
IsEvent(m) == m.type \in {"event", "deferred"}
Ordered(t) ==
  \A i, j \in 1..Len(t) : i < j /\ IsEvent(t[i]) /\ t[j].type = "event" => t[i].v < t[j].v
EventsUpTo(t, c) == \A i \in 1..Len(t) : IsEvent(t[i]) => t[i].v <= c

\* Where the entries of a sequence come from that another message joined.
LEMMA Origins ==
  ASSUME NEW t \in Seq(Messages), NEW u \in Seq(Messages), NEW k \in Nat, NEW m,
         Inserted(t, u, k, m)
  PROVE  /\ Len(t) \in Nat /\ Len(u) = Len(t) + 1 /\ k <= Len(t) /\ u[k + 1] = m
         /\ \A i \in 1..Len(u) :
              \/ i = k + 1
              \/ i <= k /\ i \in 1..Len(t) /\ u[i] = t[i]
              \/ i > k + 1 /\ i - 1 \in 1..Len(t) /\ u[i] = t[i - 1]
<1>1. /\ Len(t) \in Nat /\ Len(u) = Len(t) + 1 /\ k <= Len(t) /\ u[k + 1] = m
      /\ \A i \in 1..k : u[i] = t[i]
      /\ \A i \in (k + 1)..Len(t) : u[i + 1] = t[i]
  BY DEF Inserted
<1>2. ASSUME NEW i \in 1..Len(u), i > k + 1 PROVE i - 1 \in 1..Len(t) /\ u[i] = t[i - 1]
  <2>1. i - 1 \in (k + 1)..Len(t) /\ (i - 1) + 1 = i /\ i - 1 \in 1..Len(t)
    BY <1>1, <1>2
  <2> QED
    BY <1>1, <2>1
<1>3. ASSUME NEW i \in 1..Len(u), i <= k PROVE i \in 1..Len(t) /\ u[i] = t[i]
  BY <1>1, <1>3
<1> QED
  BY <1>1, <1>2, <1>3

LEMMA OrderedWithAnother ==
  ASSUME NEW t \in Seq(Messages), NEW u \in Seq(Messages), NEW k \in Nat, NEW m \in Messages,
         Inserted(t, u, k, m), ~IsEvent(m),
         NEW c, Ordered(t), EventsUpTo(t, c)
  PROVE  Ordered(u) /\ EventsUpTo(u, c)
<1>1. /\ Len(t) \in Nat /\ Len(u) = Len(t) + 1 /\ k <= Len(t) /\ u[k + 1] = m
      /\ \A i \in 1..Len(u) :
           \/ i = k + 1
           \/ i <= k /\ i \in 1..Len(t) /\ u[i] = t[i]
           \/ i > k + 1 /\ i - 1 \in 1..Len(t) /\ u[i] = t[i - 1]
  BY Origins
<1>2. EventsUpTo(u, c)
  <2> SUFFICES ASSUME NEW i \in 1..Len(u), IsEvent(u[i]) PROVE u[i].v <= c
    BY DEF EventsUpTo
  <2>1. i # k + 1
    BY <1>1
  <2>2. CASE i <= k
    BY <1>1, <2>2 DEF EventsUpTo
  <2>3. CASE i > k + 1
    BY <1>1, <2>3 DEF EventsUpTo
  <2> QED
    BY <1>1, <2>1, <2>2, <2>3
<1>3. ASSUME NEW i \in 1..Len(u), NEW j \in 1..Len(u), i < j, IsEvent(u[i]), u[j].type = "event"
      PROVE  u[i].v < u[j].v
  <2>1. i # k + 1 /\ j # k + 1
    BY <1>1, <1>3 DEF IsEvent
  <2>2. CASE j <= k
    <3>1. i <= k
      BY <1>1, <1>3, <2>2
    <3>2. i \in 1..Len(t) /\ j \in 1..Len(t) /\ u[i] = t[i] /\ u[j] = t[j]
      BY <1>1, <2>2, <3>1
    <3> QED
      BY <1>3, <3>2 DEF Ordered
  <2>3. CASE i <= k /\ j > k + 1
    <3>1. i \in 1..Len(t) /\ j - 1 \in 1..Len(t) /\ u[i] = t[i] /\ u[j] = t[j - 1] /\ i < j - 1
      BY <1>1, <1>3, <2>3
    <3> QED
      BY <1>3, <3>1 DEF Ordered
  <2>4. CASE i > k + 1
    <3>1. i - 1 \in 1..Len(t) /\ j - 1 \in 1..Len(t) /\ u[i] = t[i - 1] /\ u[j] = t[j - 1]
          /\ i - 1 < j - 1
      BY <1>1, <1>3, <2>4
    <3> QED
      BY <1>3, <3>1 DEF Ordered
  <2> QED
    BY <1>1, <1>3, <2>1, <2>2, <2>3, <2>4
<1> QED
  BY <1>2, <1>3 DEF Ordered

LEMMA OrderedWithTheNextEvent ==
  ASSUME NEW t \in Seq(Messages), NEW u \in Seq(Messages), NEW m \in Messages, NEW c \in Nat,
         Inserted(t, u, Len(t), m), m.type = "event", m.v = c + 1,
         Ordered(t), EventsUpTo(t, c)
  PROVE  Ordered(u) /\ EventsUpTo(u, c + 1)
<1>1. /\ Len(t) \in Nat /\ Len(u) = Len(t) + 1 /\ u[Len(t) + 1] = m
      /\ \A i \in 1..Len(u) : i = Len(t) + 1 \/ (i \in 1..Len(t) /\ u[i] = t[i])
  BY DEF Inserted
<1>2. \A i \in 1..Len(t) : IsEvent(t[i]) => t[i].v \in Nat
  <2>1. \A i \in 1..Len(t) : t[i] \in Messages
    OBVIOUS
  <2> QED
    BY <2>1 DEF Messages, Issues, IsEvent
<1>3. ASSUME NEW i \in 1..Len(t), IsEvent(u[i]) PROVE u[i].v < c + 1
  <2>1. u[i] = t[i]
    BY <1>1
  <2>2. IsEvent(t[i])
    BY <1>3, <2>1
  <2>3. t[i].v \in Nat /\ t[i].v <= c
    BY <1>2, <2>2 DEF EventsUpTo
  <2>4. t[i].v < c + 1
    BY <2>3
  <2> QED
    BY <2>1, <2>4
<1>4. EventsUpTo(u, c + 1)
  <2> SUFFICES ASSUME NEW i \in 1..Len(u), IsEvent(u[i]) PROVE u[i].v <= c + 1
    BY DEF EventsUpTo
  <2>1. CASE i = Len(t) + 1
    BY <1>1, <2>1
  <2>2. CASE i \in 1..Len(t)
    BY <1>1, <1>2, <2>2 DEF EventsUpTo
  <2> QED
    BY <1>1, <2>1, <2>2
<1>5. ASSUME NEW i \in 1..Len(u), NEW j \in 1..Len(u), i < j, IsEvent(u[i]), u[j].type = "event"
      PROVE  u[i].v < u[j].v
  <2>1. i \in 1..Len(t) /\ u[i] = t[i]
    BY <1>1, <1>5
  <2>2. CASE j = Len(t) + 1
    BY <1>1, <1>3, <1>5, <2>1, <2>2
  <2>3. CASE j \in 1..Len(t)
    BY <1>1, <1>5, <2>1, <2>3 DEF Ordered
  <2> QED
    BY <1>1, <2>2, <2>3
<1> QED
  BY <1>4, <1>5 DEF Ordered

\* What a thread has published may come behind newer events, never ahead of the loop's.
LEMMA OrderedWithADeferred ==
  ASSUME NEW t \in Seq(Messages), NEW u \in Seq(Messages), NEW m \in Messages, NEW c \in Nat,
         Inserted(t, u, Len(t), m), m.type = "deferred", m.v <= c,
         Ordered(t), EventsUpTo(t, c)
  PROVE  Ordered(u) /\ EventsUpTo(u, c)
<1>1. /\ Len(t) \in Nat /\ Len(u) = Len(t) + 1 /\ u[Len(t) + 1] = m
      /\ \A i \in 1..Len(u) : i = Len(t) + 1 \/ (i \in 1..Len(t) /\ u[i] = t[i])
  BY DEF Inserted
<1>2. EventsUpTo(u, c)
  BY <1>1 DEF EventsUpTo
<1>3. ASSUME NEW i \in 1..Len(u), NEW j \in 1..Len(u), i < j, IsEvent(u[i]), u[j].type = "event"
      PROVE  u[i].v < u[j].v
  <2>1. j \in 1..Len(t) /\ u[j] = t[j]
    BY <1>1, <1>3
  <2>2. i \in 1..Len(t) /\ u[i] = t[i]
    BY <1>1, <1>3, <2>1
  <2> QED
    BY <1>3, <2>1, <2>2 DEF Ordered
<1> QED
  BY <1>2, <1>3 DEF Ordered

LEMMA LaterIsUpTo ==
  ASSUME NEW t \in Seq(Messages), NEW c \in Nat, EventsUpTo(t, c)
  PROVE  EventsUpTo(t, c + 1)
<1>1. \A i \in 1..Len(t) : IsEvent(t[i]) => t[i].v \in Nat
  <2>1. \A i \in 1..Len(t) : t[i] \in Messages
    OBVIOUS
  <2> QED
    BY <2>1 DEF Messages, Issues, IsEvent
<1> QED
  BY <1>1 DEF EventsUpTo

LEMMA OrderedBehindTheFirst ==
  ASSUME NEW t \in Seq(Messages), NEW u \in Seq(Messages), Shifted(t, u),
         NEW c, Ordered(t), EventsUpTo(t, c)
  PROVE  Ordered(u) /\ EventsUpTo(u, c)
<1>1. /\ Len(t) \in Nat /\ Len(u) = Len(t) - 1
      /\ \A i \in 1..Len(u) : i + 1 \in 1..Len(t) /\ u[i] = t[i + 1]
  BY DEF Shifted
<1>2. ASSUME NEW i \in 1..Len(u), NEW j \in 1..Len(u), i < j, IsEvent(u[i]), u[j].type = "event"
      PROVE  u[i].v < u[j].v
  <2>1. i + 1 < j + 1
    BY <1>2
  <2> QED
    BY <1>1, <1>2, <2>1 DEF Ordered
<1> QED
  BY <1>1, <1>2 DEF Ordered, EventsUpTo

-----------------------------------------------------------------------------
(* EventStream: what a step does to the messages on their way *)

LEMMA LineIsTyped ==
  ASSUME StreamTyped
  PROVE  /\ OnTheWay = Line(wire, sends, queue) /\ OnTheWay \in Seq(Messages)
         /\ Len(OnTheWay) = Len(wire) + Len(sends) + Len(queue)
         /\ wire \in Seq(Messages) /\ sends \in Seq(Requests) /\ queue \in Seq(Messages)
         /\ Len(wire) \in Nat /\ Len(sends) \in Nat /\ Len(queue) \in Nat
BY LineIsASequence DEF StreamTyped, OnTheWay, Line

LEMMA LineAfter == OnTheWay' = Line(wire', sends', queue')
BY DEF OnTheWay, Line

LEMMA OfferedIsOnTheWay ==
  ASSUME StreamTyped, NEW m \in Messages, NEW part, NEW isLatest, Offer(m, part, isLatest),
         UNCHANGED <<sends, wire>>
  PROVE  \/ ~IsSubscribed /\ OnTheWay' = OnTheWay /\ behind' = behind
         \/ IsSubscribed /\ OnTheWay' = OnTheWay /\ behind' = behind \cup {part}
         \/ /\ IsSubscribed /\ Inserted(OnTheWay, OnTheWay', Len(OnTheWay), m)
            /\ behind' = IF ~isLatest THEN behind \cup {part}
                         ELSE IF part = 0 THEN behind ELSE behind \ {part}
<1>1. /\ OnTheWay = Line(wire, sends, queue)
      /\ wire \in Seq(Messages) /\ sends \in Seq(Requests) /\ queue \in Seq(Messages)
  BY LineIsTyped
<1>2. OnTheWay' = Line(wire, sends, queue')
  BY LineAfter
<1>3. queue' = queue => OnTheWay' = OnTheWay
  BY <1>1, <1>2
<1>4. queue' = Append(queue, m) => Inserted(OnTheWay, OnTheWay', Len(OnTheWay), m)
  <2>1. Inserted(Line(wire, sends, queue), Line(wire, sends, Append(queue, m)),
                 Len(Line(wire, sends, queue)), m)
    BY <1>1, PublishedIsLast
  <2> QED
    BY <1>1, <1>2, <2>1
<1> QED
  BY <1>3, <1>4 DEF Offer

LEMMA SubscribedIsOnTheWay ==
  ASSUME StreamTyped, HandleSubscribe
  PROVE  Inserted(OnTheWay, OnTheWay', Len(wire) + Len(sends), Run(current, "subscribed"))
         /\ Run(current, "subscribed") \in Messages
<1> DEFINE r == Request("commands", Run(current, "subscribed"))
<1>1. r \in Requests /\ r.message = Run(current, "subscribed") /\ Run(current, "subscribed") \in Messages
  BY MessagesAreTyped DEF StreamTyped
<1>2. OnTheWay' = Line(wire, Append(sends, r), queue)
  BY LineAfter DEF HandleSubscribe, socket
<1> HIDE DEF r
<1>3. Inserted(Line(wire, sends, queue), Line(wire, Append(sends, r), queue),
               Len(wire) + Len(sends), r.message)
  BY <1>1, LineIsTyped, InLineIsBeforeTheQueue
<1> QED
  BY <1>1, <1>2, <1>3, LineIsTyped

LEMMA ReplyIsOnTheWay ==
  ASSUME StreamTyped, sends # <<>>, Release, NEW m \in Messages, NextReply(m), UNCHANGED queue
  PROVE  Inserted(OnTheWay, OnTheWay', Len(wire) + Len(sends), m)
<1> DEFINE r == Request("commands", m)
<1>1. r \in Requests /\ r.message = m
  BY MessagesAreTyped
<1>2. OnTheWay' = Line(Append(wire, Head(sends).message), Append(Tail(sends), r), queue)
  BY LineAfter DEF Release, NextReply
<1> HIDE DEF r
<1>3. Inserted(Line(wire, sends, queue),
               Line(Append(wire, Head(sends).message), Append(Tail(sends), r), queue),
               Len(wire) + Len(sends), r.message)
  BY <1>1, LineIsTyped, RepliedIsInLine
<1> QED
  BY <1>1, <1>2, <1>3, LineIsTyped

LEMMA SendingKeepsTheLine ==
  ASSUME StreamTyped, sends # <<>>, Release, sends' = Tail(sends), UNCHANGED queue
  PROVE  OnTheWay' = OnTheWay
<1>1. OnTheWay' = Line(Append(wire, Head(sends).message), Tail(sends), queue)
  BY LineAfter DEF Release
<1>2. Line(Append(wire, Head(sends).message), Tail(sends), queue) = Line(wire, sends, queue)
  BY LineIsTyped, SentIsOnTheWire
<1> QED
  BY <1>1, <1>2, LineIsTyped

LEMMA ForwardingKeepsTheLine ==
  ASSUME StreamTyped, Forward
  PROVE  OnTheWay' = OnTheWay
<1>1. OnTheWay' = Line(wire, Append(sends, Request("forwarder", Head(queue))), Tail(queue))
  BY LineAfter DEF Forward, socket
<1>2. Line(wire, Append(sends, Request("forwarder", Head(queue))), Tail(queue)) = Line(wire, sends, queue)
  BY LineIsTyped, ForwardedIsInLine DEF Forward
<1> QED
  BY <1>1, <1>2, LineIsTyped

LEMMA ReceivingTakesTheFirst ==
  ASSUME StreamTyped, Receive
  PROVE  Shifted(OnTheWay, OnTheWay') /\ OnTheWay[1] = Head(wire)
<1>1. OnTheWay' = Line(Tail(wire), sends, queue)
  BY LineAfter DEF Receive, server
<1>2. Shifted(Line(wire, sends, queue), Line(Tail(wire), sends, queue))
      /\ Line(wire, sends, queue)[1] = Head(wire)
  BY LineIsTyped, ReceivedIsFirst DEF Receive
<1> QED
  BY <1>1, <1>2, LineIsTyped

LEMMA EmptyLine ==
  ASSUME NEW w \in Seq(Messages), NEW s \in Seq(Requests), NEW q \in Seq(Messages),
         w = <<>>, s = <<>>, q = <<>>
  PROVE  Line(w, s, q) = <<>>
<1>1. Line(w, s, q) \in Seq(Messages) /\ Len(Line(w, s, q)) = Len(w) + Len(s) + Len(q)
  BY LineIsASequence
<1>2. Len(w) = 0 /\ Len(s) = 0 /\ Len(q) = 0
  OBVIOUS
<1> HIDE DEF Line
<1>3. Len(Line(w, s, q)) = 0
  BY <1>1, <1>2
<1> QED
  BY <1>1, <1>3

-----------------------------------------------------------------------------
(* EventStream: the events, step by step *)

\* What the threads are about to publish is one of the changes so far.
ThreadsUpTo ==
  /\ \A n \in Nodes : records[n] <= changes
  /\ \A t \in Threads : held[t] \in Deferred => held[t].v <= changes
  /\ \A i \in 1..Len(calls) : calls[i].v <= changes

\* Every event on its way precedes the loop's later ones, and the changes still to come.
EventsInv ==
  StreamTyped /\ ThreadsUpTo /\ Ordered(OnTheWay) /\ EventsUpTo(OnTheWay, changes)

LEMMA EventsInit == StreamInit => EventsInv
<1> SUFFICES ASSUME StreamInit PROVE EventsInv
  OBVIOUS
<1>1. <<>> \in Seq(Messages) /\ <<>> \in Seq(Requests) /\ <<>> \in Seq(FurtherSnapshots)
  OBVIOUS
<1>2. StreamTyped
  <2>1. /\ records \in [Nodes -> Nat] /\ view \in [Nodes -> Nat] /\ asked \in [Functions -> Nat]
        /\ due \in [Threads -> SUBSET Nodes] /\ held \in [Threads -> Deferred \cup {Nothing}]
    BY DEF StreamInit
  <2>2. calls \in Seq(Deferred)
    BY DEF StreamInit
  <2>3. /\ queue \in Seq(Messages) /\ wire \in Seq(Messages) /\ sends \in Seq(Requests)
        /\ todo \in Seq(FurtherSnapshots)
    BY <1>1 DEF StreamInit
  <2>4. /\ behind \subseteq Parts /\ disputed \subseteq Parts /\ pending \subseteq Nat
        /\ answers \subseteq Answers /\ accepted \subseteq Nat
    BY DEF StreamInit
  <2>5. /\ current \in Nat /\ changes \in Nat /\ runs \in Nat /\ losses \in Nat /\ shown \in Nat
        /\ posts \in Nat /\ statuses \in Nat /\ session \in Sessions
        /\ conn \in BOOLEAN /\ wanted \in BOOLEAN
    BY DEF StreamInit, Sessions
  <2> QED
    BY <2>1, <2>2, <2>3, <2>4, <2>5 DEF StreamTyped
<1>3. OnTheWay = <<>>
  <2>1. Line(wire, sends, queue) = <<>>
    BY <1>2, EmptyLine DEF StreamInit, StreamTyped
  <2> QED
    BY <1>2, <2>1, LineIsTyped
<1> QED
  BY <1>2, <1>3 DEF EventsInv, Ordered, EventsUpTo, ThreadsUpTo, StreamInit, Nothing, Deferred

LEMMA ThreadsUpToStep ==
  ASSUME StreamTyped, ThreadsUpTo, [StreamNext]_streamVars
  PROVE  ThreadsUpTo'
<1>1. /\ records \in [Nodes -> Nat] /\ changes \in Nat /\ calls \in Seq(Deferred)
      /\ held \in [Threads -> Deferred \cup {Nothing}]
  BY DEF StreamTyped
<1>2. \A d \in Deferred : d.v \in Nat
  BY DEF Deferred
<1>3. ASSUME changes' \in Nat, changes <= changes', \A n \in Nodes : records'[n] <= changes',
             UNCHANGED <<held, calls>>
      PROVE  ThreadsUpTo'
  <2>1. \A t \in Threads : held[t] \in Deferred => held[t].v <= changes'
    BY <1>1, <1>2, <1>3 DEF ThreadsUpTo
  <2>2. \A i \in 1..Len(calls) : calls[i].v <= changes'
    <3> TAKE i \in 1..Len(calls)
    <3>1. calls[i].v \in Nat /\ calls[i].v <= changes
      BY <1>1, <1>2 DEF ThreadsUpTo
    <3> QED
      BY <1>1, <1>3, <3>1
  <2> QED
    BY <1>3, <2>1, <2>2 DEF ThreadsUpTo
<1>4. ASSUME NEW n \in Nodes, ChangeStatus(n) PROVE ThreadsUpTo'
  <2>1. changes' = changes + 1 /\ records' = [records EXCEPT ![n] = changes + 1] /\ UNCHANGED <<held, calls>>
    BY <1>4 DEF ChangeStatus, threads
  <2>2. \A k \in Nodes : records'[k] <= changes'
    BY <1>1, <2>1 DEF ThreadsUpTo
  <2> QED
    BY <1>1, <1>3, <2>1, <2>2
<1>5. ASSUME NEW t \in Threads, ThreadUpdates(t) PROVE ThreadsUpTo'
  <2>1. PICK ns : records' = [n \in Nodes |-> IF n \in ns THEN changes + 1 ELSE records[n]]
    BY <1>5 DEF ThreadUpdates
  <2>2. changes' = changes + 1 /\ UNCHANGED <<held, calls>>
    BY <1>5 DEF ThreadUpdates
  <2>3. \A k \in Nodes : records'[k] <= changes'
    BY <1>1, <2>1, <2>2 DEF ThreadsUpTo
  <2> QED
    BY <1>1, <1>3, <2>2, <2>3
<1>6. ASSUME NEW t \in Threads, NEW n \in Nodes, ThreadReads(t, n) PROVE ThreadsUpTo'
  <2>1. held' = [held EXCEPT ![t] = Status(n, records[n], "deferred")] /\ UNCHANGED <<records, changes, calls>>
    BY <1>6 DEF ThreadReads, loop
  <2>2. Status(n, records[n], "deferred").v = records[n]
    BY DEF Status
  <2> QED
    BY <1>1, <2>1, <2>2 DEF ThreadsUpTo
<1>7. ASSUME NEW t \in Threads, ThreadPublishes(t) PROVE ThreadsUpTo'
  <2>1. /\ held[t] \in Deferred /\ calls' = Append(calls, held[t])
        /\ held' = [held EXCEPT ![t] = Nothing] /\ UNCHANGED <<records, changes>>
    BY <1>1, <1>7 DEF ThreadPublishes, loop
  <2>2. Nothing \notin Deferred
    BY DEF Nothing, Deferred
  <2>3. \A k \in Threads : held'[k] \in Deferred => held'[k].v <= changes
    BY <1>1, <2>1, <2>2 DEF ThreadsUpTo
  <2>4. /\ Len(calls') = Len(calls) + 1 /\ calls'[Len(calls) + 1] = held[t] /\ Len(calls) \in Nat
        /\ \A i \in 1..Len(calls) : calls'[i] = calls[i]
    BY <1>1, <2>1
  <2>5. \A i \in 1..Len(calls') : calls'[i].v <= changes
    BY <2>1, <2>4 DEF ThreadsUpTo
  <2> QED
    BY <2>1, <2>3, <2>5 DEF ThreadsUpTo
<1>8. CASE Deliver
  <2>1. calls # <<>> /\ calls' = Tail(calls) /\ UNCHANGED <<held, records, changes>>
    BY <1>8 DEF Deliver, loop
  <2>2. /\ Len(calls') = Len(calls) - 1 /\ Len(calls) \in Nat
        /\ \A i \in 1..Len(calls') : calls'[i] = calls[i + 1] /\ i + 1 \in 1..Len(calls)
    BY <1>1, <2>1
  <2> QED
    BY <2>1, <2>2 DEF ThreadsUpTo
<1>9. CASE UNCHANGED <<held, calls, records, changes>>
  BY <1>9 DEF ThreadsUpTo
<1> QED
  BY <1>4, <1>5, <1>6, <1>7, <1>8, <1>9
     DEF StreamNext, streamVars, engine, loop, threads, BeginRun, FinishRun, HandleSubscribe, ReplySent,
         IssuesSent, StatusSent, Forward, EventSent, SocketOpens, SocketBreaks, Receive, StatusServed,
         StatusFails, StatusApplied, PostRun, RunAccepted

LEMMA NextStatusIsTyped ==
  ASSUME StreamTyped, todo # <<>>
  PROVE  Head(todo) \in Messages /\ Head(todo).type = "snapshot" /\ Head(todo).node # 1
<1>1. Head(todo) \in FurtherSnapshots
  BY DEF StreamTyped
<1> QED
  BY <1>1 DEF FurtherSnapshots, Messages

LEMMA OtherPublishedKeepsOrder ==
  ASSUME EventsInv, StreamTyped', ThreadsUpTo', NEW m \in Messages, ~IsEvent(m),
         Offer(m, 0, TRUE), UNCHANGED <<sends, wire, changes>>
  PROVE  EventsInv'
<1>1. OnTheWay' = OnTheWay \/ Inserted(OnTheWay, OnTheWay', Len(OnTheWay), m)
  BY OfferedIsOnTheWay DEF EventsInv
<1>2. OnTheWay \in Seq(Messages) /\ OnTheWay' \in Seq(Messages) /\ Len(OnTheWay) \in Nat
  <2>1. OnTheWay' \in Seq(Messages)
    BY LineAfter, LineIsASequence DEF StreamTyped
  <2> QED
    BY <2>1, LineIsTyped DEF EventsInv
<1>3. Ordered(OnTheWay') /\ EventsUpTo(OnTheWay', changes)
  BY <1>1, <1>2, OrderedWithAnother DEF EventsInv
<1> QED
  BY <1>3 DEF EventsInv, Ordered, EventsUpTo, IsEvent

LEMMA EventsInvStep ==
  ASSUME EventsInv, [StreamNext]_streamVars
  PROVE  EventsInv'
<1>1. /\ StreamTyped /\ StreamTyped' /\ ThreadsUpTo /\ ThreadsUpTo' /\ changes \in Nat
      /\ Ordered(OnTheWay) /\ EventsUpTo(OnTheWay, changes)
  BY StreamTypedStep, ThreadsUpToStep DEF EventsInv, StreamTyped
<1>2. OnTheWay \in Seq(Messages) /\ OnTheWay' \in Seq(Messages) /\ Len(OnTheWay) \in Nat
      /\ Len(wire) + Len(sends) \in Nat
  <2>1. OnTheWay' \in Seq(Messages)
    BY <1>1, LineAfter, LineIsASequence DEF StreamTyped
  <2> QED
    BY <1>1, <2>1, LineIsTyped
<1>3. ASSUME OnTheWay' = OnTheWay, changes' = changes PROVE EventsInv'
  BY <1>1, <1>3 DEF EventsInv, Ordered, EventsUpTo, IsEvent
<1>4. ASSUME Ordered(OnTheWay') /\ EventsUpTo(OnTheWay', changes') PROVE EventsInv'
  BY <1>1, <1>4 DEF EventsInv, Ordered, EventsUpTo, IsEvent
<1>5. ASSUME NEW k \in Nat, NEW m \in Messages, Inserted(OnTheWay, OnTheWay', k, m), ~IsEvent(m),
             changes' = changes
      PROVE  EventsInv'
  BY <1>1, <1>2, <1>4, <1>5, OrderedWithAnother
<1> HIDE DEF EventsInv
<1>6. ASSUME NEW n \in Nodes, ChangeStatus(n) PROVE EventsInv'
  <2> DEFINE m == Status(n, changes + 1, "event")
  <2>1. m \in Messages /\ m.type = "event" /\ m.v = changes + 1
    <3>1. changes + 1 \in Nat
      BY <1>1
    <3>2. m \in Messages
      BY <3>1, MessagesAreTyped
    <3> QED
      BY <3>2 DEF Status
  <2>2. changes' = changes + 1 /\ Offer(m, n, TRUE) /\ UNCHANGED <<sends, wire>>
    <3>1. changes' = changes + 1
      BY <1>6 DEF ChangeStatus
    <3>2. Offer(m, n, TRUE) /\ UNCHANGED <<sends, wire>>
      BY <1>6 DEF ChangeStatus, socket
    <3> QED
      BY <3>1, <3>2, Zenon
  <2> HIDE DEF m
  <2>3. OnTheWay' = OnTheWay \/ Inserted(OnTheWay, OnTheWay', Len(OnTheWay), m)
    BY <1>1, <2>1, <2>2, OfferedIsOnTheWay
  <2>4. CASE OnTheWay' = OnTheWay
    <3>2. EventsUpTo(OnTheWay, changes + 1)
      BY <1>1, <1>2, LaterIsUpTo
    <3> QED
      BY <1>1, <1>4, <2>2, <2>4, <3>2
  <2>5. CASE Inserted(OnTheWay, OnTheWay', Len(OnTheWay), m)
    BY <1>1, <1>2, <1>4, <2>1, <2>2, <2>5, OrderedWithTheNextEvent
  <2> QED
    BY <2>3, <2>4, <2>5
<1>7. ASSUME NEW r \in 1..MaxNews, BeginRun(r) PROVE EventsInv'
  <2>1. r \in Nat /\ ~IsEvent(Run(r, "started"))
    BY EventStreamAssumption DEF Run, IsEvent
  <2>2. Run(r, "started") \in Messages /\ UNCHANGED <<sends, wire, changes>> /\ Offer(Run(r, "started"), 0, TRUE)
    BY <1>7, <2>1, MessagesAreTyped DEF BeginRun, socket
  <2> QED
    BY <1>1, <2>1, <2>2, OtherPublishedKeepsOrder DEF EventsInv
<1>8. CASE FinishRun
  <2>1. ~IsEvent(Run(current, "finished")) /\ current \in Nat
    BY <1>1 DEF Run, StreamTyped, IsEvent
  <2>2. Run(current, "finished") \in Messages /\ UNCHANGED <<sends, wire, changes>>
        /\ Offer(Run(current, "finished"), 0, TRUE)
    BY <1>8, <2>1, MessagesAreTyped DEF FinishRun, socket
  <2> QED
    BY <1>1, <2>1, <2>2, OtherPublishedKeepsOrder DEF EventsInv
<1>9. CASE HandleSubscribe
  <2>1. changes' = changes /\ ~IsEvent(Run(current, "subscribed"))
    BY <1>9 DEF HandleSubscribe, engine, loop, Run, IsEvent
  <2> QED
    BY <1>1, <1>2, <1>5, <1>9, <2>1, SubscribedIsOnTheWay
<1>10. CASE ReplySent
  <2>1. sends # <<>> /\ Release /\ NextReply(Issues) /\ queue' = queue /\ changes' = changes
        /\ Issues \in Messages /\ ~IsEvent(Issues)
    BY <1>10, MessagesAreTyped DEF ReplySent, HasSent, engine, loop, Issues, IsEvent
  <2> QED
    BY <1>1, <1>2, <1>5, <2>1, ReplyIsOnTheWay
<1>11. CASE IssuesSent
  <2>1. sends # <<>> /\ Release /\ NextReply(Head(Statuses)) /\ queue' = queue /\ changes' = changes
    BY <1>11 DEF IssuesSent, HasSent, engine, loop
  <2>2. Head(Statuses) \in Messages /\ ~IsEvent(Head(Statuses))
    BY <1>1, StatusesAreTyped DEF Status, IsEvent
  <2> QED
    BY <1>1, <1>2, <1>5, <2>1, <2>2, ReplyIsOnTheWay
<1>12. CASE StatusSent /\ todo = <<>>
  <2>1. sends # <<>> /\ Release /\ sends' = Tail(sends) /\ queue' = queue /\ changes' = changes
    BY <1>12 DEF StatusSent, HasSent, engine, loop
  <2> QED
    BY <1>1, <1>3, <2>1, SendingKeepsTheLine
<1>13. CASE StatusSent /\ todo # <<>>
  <2>1. sends # <<>> /\ Release /\ NextReply(Head(todo)) /\ queue' = queue /\ changes' = changes
    BY <1>13 DEF StatusSent, HasSent, engine, loop
  <2>2. Head(todo) \in Messages /\ ~IsEvent(Head(todo))
    BY <1>1, <1>13, NextStatusIsTyped DEF IsEvent
  <2> QED
    BY <1>1, <1>2, <1>5, <2>1, <2>2, ReplyIsOnTheWay
<1>14. CASE Forward
  <2>1. changes' = changes
    BY <1>14 DEF Forward, engine, loop
  <2> QED
    BY <1>1, <1>3, <1>14, <2>1, ForwardingKeepsTheLine
<1>15. CASE EventSent
  <2>1. sends # <<>> /\ Release /\ sends' = Tail(sends) /\ queue' = queue /\ changes' = changes
    BY <1>15 DEF EventSent, HasSent, engine, loop
  <2> QED
    BY <1>1, <1>3, <2>1, SendingKeepsTheLine
<1>16. CASE SocketBreaks
  <2>1. Line(wire', sends', queue') = <<>>
    BY <1>1, <1>16, EmptyLine DEF SocketBreaks, StreamTyped
  <2>2. OnTheWay' = <<>>
    BY <2>1, LineAfter
  <2> QED
    BY <1>4, <2>2 DEF Ordered, EventsUpTo
<1>17. CASE Receive
  <2>1. Shifted(OnTheWay, OnTheWay') /\ changes' = changes
    BY <1>1, <1>17, ReceivingTakesTheFirst DEF Receive, engine, loop
  <2> QED
    BY <1>1, <1>2, <1>4, <2>1, OrderedBehindTheFirst
<1>18. ASSUME UNCHANGED <<queue, sends, wire, changes>> PROVE EventsInv'
  <2>1. OnTheWay' = OnTheWay
    BY <1>18, LineAfter DEF OnTheWay, Line
  <2> QED
    BY <1>3, <1>18, <2>1
<1>19. ASSUME NEW r \in 1..MaxNews, RunAccepted(r) PROVE EventsInv'
  BY <1>18, <1>19 DEF RunAccepted, engine, loop, server, socket
<1>20. CASE SocketOpens
  BY <1>18, <1>20 DEF SocketOpens, engine, loop
<1>21. ASSUME NEW f \in Functions, StatusServed(f) \/ StatusFails(f) PROVE EventsInv'
  BY <1>18, <1>21 DEF StatusServed, StatusFails, engine, loop, server, socket
<1>22. ASSUME NEW a \in answers, StatusApplied(a) PROVE EventsInv'
  BY <1>18, <1>22 DEF StatusApplied, engine, loop
<1>23. CASE PostRun
  BY <1>18, <1>23 DEF PostRun, server, socket
<1>25. ASSUME NEW t \in Threads, ThreadUpdates(t) PROVE EventsInv'
  <2>1. changes' = changes + 1 /\ UNCHANGED <<queue, sends, wire>>
    BY <1>25 DEF ThreadUpdates, server, socket
  <2>2. OnTheWay' = OnTheWay
    BY <2>1, LineAfter DEF OnTheWay, Line
  <2> QED
    BY <1>1, <1>2, <1>4, <2>1, <2>2, LaterIsUpTo
<1>26. ASSUME NEW t \in Threads, NEW n \in Nodes, ThreadReads(t, n) PROVE EventsInv'
  BY <1>18, <1>26 DEF ThreadReads, loop, server, socket
<1>27. ASSUME NEW t \in Threads, ThreadPublishes(t) PROVE EventsInv'
  BY <1>18, <1>27 DEF ThreadPublishes, loop, server, socket
<1>28. CASE Deliver
  <2> DEFINE m == Head(calls)
  <2>1. m \in Deferred /\ m.v <= changes /\ changes' = changes /\ UNCHANGED <<sends, wire>>
    <3>1. calls # <<>> /\ changes' = changes /\ UNCHANGED <<sends, wire>>
      BY <1>28 DEF Deliver, loop, socket
    <3>2. Head(calls) = calls[1] /\ 1 \in 1..Len(calls) /\ calls[1] \in Deferred
      BY <1>1, <3>1 DEF StreamTyped
    <3> QED
      BY <1>1, <3>1, <3>2 DEF ThreadsUpTo
  <2>2. Offer(m, m.node, m.v = records[m.node])
    BY <1>28 DEF Deliver
  <2> HIDE DEF m
  <2>3. m \in Messages /\ m.type = "deferred"
    BY <2>1, MessagesAreTyped DEF Deferred
  <2>4. OnTheWay' = OnTheWay \/ Inserted(OnTheWay, OnTheWay', Len(OnTheWay), m)
    BY <1>1, <2>1, <2>2, <2>3, OfferedIsOnTheWay
  <2>5. CASE OnTheWay' = OnTheWay
    BY <1>3, <2>1, <2>5
  <2>6. CASE Inserted(OnTheWay, OnTheWay', Len(OnTheWay), m)
    BY <1>1, <1>2, <1>4, <2>1, <2>3, <2>6, OrderedWithADeferred
  <2> QED
    BY <2>4, <2>5, <2>6
<1>24. CASE UNCHANGED streamVars
  BY <1>18, <1>24 DEF streamVars, engine, loop, server, socket
<1> QED
  BY <1>6, <1>7, <1>8, <1>9, <1>10, <1>11, <1>12, <1>13, <1>14, <1>15, <1>16, <1>17, <1>19, <1>20,
     <1>21, <1>22, <1>23, <1>24, <1>25, <1>26, <1>27, <1>28 DEF StreamNext

-----------------------------------------------------------------------------
(* EventStream: the session of the client *)

\* The workflow is opened once: its status is asked for, or on its way, or wanted.
OpenedOnce ==
  /\ asked["openWorkflow"] # 0 => ~wanted /\ asked["openWorkflow"] = 1
  /\ \A a \in answers : a.for = "openWorkflow" => ~wanted /\ asked["openWorkflow"] = 0
  /\ \A a, b \in answers : a.for = "openWorkflow" /\ b.for = "openWorkflow" => a = b

\* Nothing is queued for a client that has not subscribed, and nobody subscribes
\* twice on one connection.
SubscribedOnce ==
  /\ ~conn => session = "none"
  /\ ~wanted => session \in {"none", "idle"}
  /\ ~IsSubscribed => queue = <<>> /\ sends = <<>> /\ wire = <<>>

Connected == OpenedOnce /\ SubscribedOnce

LEMMA ConnectedInit == StreamInit => Connected
BY DEF StreamInit, Connected, OpenedOnce, SubscribedOnce, Functions

LEMMA OpenedOnceStep ==
  ASSUME StreamTyped, Connected, [StreamNext]_streamVars
  PROVE  OpenedOnce'
<1>1. asked \in [Functions -> Nat] /\ "openWorkflow" \in Functions /\ OpenedOnce
  BY DEF StreamTyped, Functions, Connected
<1>2. CASE UNCHANGED <<asked, answers, wanted>>
  BY <1>1, <1>2 DEF OpenedOnce
<1>3. CASE SocketOpens
  <2>1. asked'["openWorkflow"] = asked["openWorkflow"] /\ UNCHANGED <<answers, wanted>>
    BY <1>1, <1>3 DEF SocketOpens, Functions
  <2> QED
    BY <1>1, <2>1 DEF OpenedOnce
<1>4. ASSUME NEW f \in Functions, StatusServed(f) PROVE OpenedOnce'
  <2>1. /\ answers' = answers \cup {[for |-> f, nodes |-> records, run |-> current]}
        /\ asked' = [asked EXCEPT ![f] = asked[f] - 1] /\ wanted' = wanted /\ asked[f] # 0
    <3>1. asked[f] \in Nat
      BY <1>1
    <3> QED
      BY <1>4, <3>1 DEF StatusServed, socket
  <2>2. CASE f = "openWorkflow"
    <3>1. asked[f] = 1 /\ ~wanted /\ asked'[f] = 0 /\ \A a \in answers : a.for # f
      BY <1>1, <2>1, <2>2 DEF OpenedOnce
    <3> QED
      BY <2>1, <2>2, <3>1 DEF OpenedOnce
  <2>3. CASE f # "openWorkflow"
    <3>1. asked'["openWorkflow"] = asked["openWorkflow"]
      BY <1>1, <2>1, <2>3
    <3> QED
      BY <1>1, <2>1, <2>3, <3>1 DEF OpenedOnce
  <2> QED
    BY <2>2, <2>3
<1>5. ASSUME NEW f \in Functions, StatusFails(f) PROVE OpenedOnce'
  <2>1. /\ answers' = answers /\ asked' = [asked EXCEPT ![f] = asked[f] - 1] /\ asked[f] # 0
        /\ Subscribe(f)
    <3>1. asked[f] \in Nat
      BY <1>1
    <3> QED
      BY <1>5, <3>1 DEF StatusFails
  <2>2. CASE f = "openWorkflow"
    <3>1. asked[f] = 1 /\ asked'[f] = 0 /\ \A a \in answers : a.for # f
      BY <1>1, <2>1, <2>2 DEF OpenedOnce
    <3> QED
      BY <2>1, <2>2, <3>1 DEF OpenedOnce
  <2>3. CASE f # "openWorkflow"
    <3>1. asked'["openWorkflow"] = asked["openWorkflow"] /\ wanted' = wanted
      BY <1>1, <2>1, <2>3 DEF Subscribe
    <3> QED
      BY <1>1, <2>1, <3>1 DEF OpenedOnce
  <2> QED
    BY <2>2, <2>3
<1>6. ASSUME NEW a \in answers, StatusApplied(a) PROVE OpenedOnce'
  <2>1. answers' = answers \ {a} /\ asked' = asked /\ Subscribe(a.for)
    BY <1>6 DEF StatusApplied
  <2>2. CASE a.for = "openWorkflow"
    <3>1. asked'["openWorkflow"] = 0 /\ \A b \in answers' : b.for # "openWorkflow"
      BY <1>1, <2>1, <2>2 DEF OpenedOnce
    <3> QED
      BY <3>1 DEF OpenedOnce
  <2>3. CASE a.for # "openWorkflow"
    <3>1. wanted' = wanted
      BY <2>1, <2>3 DEF Subscribe
    <3> QED
      BY <1>1, <2>1, <3>1 DEF OpenedOnce
  <2> QED
    BY <2>2, <2>3
<1> QED
  BY <1>2, <1>3, <1>4, <1>5, <1>6
     DEF StreamNext, streamVars, http, socket, ChangeStatus, ThreadUpdates, ThreadReads, ThreadPublishes,
         Deliver, BeginRun, RunAccepted, FinishRun, HandleSubscribe,
         ReplySent, IssuesSent, StatusSent, Forward, EventSent, SocketBreaks, Receive, PostRun

LEMMA SubscribedOnceStep ==
  ASSUME StreamTyped, Connected, [StreamNext]_streamVars
  PROVE  SubscribedOnce'
<1>1. SubscribedOnce /\ OpenedOnce /\ asked \in [Functions -> Nat]
  BY DEF Connected, StreamTyped
<1>2. ASSUME NEW m, NEW part, NEW isLatest, Offer(m, part, isLatest),
             UNCHANGED <<session, conn, wanted, sends, wire>>
      PROVE  SubscribedOnce'
  BY <1>1, <1>2 DEF SubscribedOnce, Offer, IsSubscribed
<1>3. ASSUME NEW n \in Nodes, ChangeStatus(n) PROVE SubscribedOnce'
  BY <1>2, <1>3 DEF ChangeStatus, socket
<1>17. CASE Deliver
  BY <1>2, <1>17 DEF Deliver, socket
<1>4. ASSUME NEW r \in 1..MaxNews, BeginRun(r) PROVE SubscribedOnce'
  BY <1>2, <1>4 DEF BeginRun, socket
<1>5. CASE FinishRun
  BY <1>2, <1>5 DEF FinishRun, socket
<1>6. ASSUME IsSubscribed, IsSubscribed', UNCHANGED <<conn, wanted>> PROVE SubscribedOnce'
  <2>1. conn /\ wanted
    BY <1>1, <1>6 DEF SubscribedOnce, IsSubscribed
  <2> QED
    BY <1>6, <2>1 DEF SubscribedOnce
<1>7. CASE HandleSubscribe
  <2>1. conn /\ wanted /\ IsSubscribed' /\ UNCHANGED <<conn, wanted>>
    BY <1>1, <1>7 DEF HandleSubscribe, SubscribedOnce, IsSubscribed, socket
  <2> QED
    BY <2>1 DEF SubscribedOnce
<1>8. sends # <<>> \/ wire # <<>> => IsSubscribed
  BY <1>1 DEF SubscribedOnce
<1>9. CASE ReplySent \/ IssuesSent \/ StatusSent \/ Forward \/ EventSent
  <2>1. IsSubscribed /\ IsSubscribed' /\ UNCHANGED <<conn, wanted>>
    BY <1>8, <1>9 DEF ReplySent, IssuesSent, StatusSent, Forward, EventSent, HasSent, IsSubscribed, socket
  <2> QED
    BY <1>6, <2>1
<1>10. CASE Receive
  <2>1. IsSubscribed /\ IsSubscribed' /\ UNCHANGED <<conn, wanted>>
    BY <1>8, <1>10 DEF Receive, IsSubscribed, server
  <2> QED
    BY <1>6, <2>1
<1>11. CASE SocketOpens
  BY <1>1, <1>11 DEF SocketOpens, SubscribedOnce, IsSubscribed
<1>12. CASE SocketBreaks
  BY <1>12 DEF SocketBreaks, SubscribedOnce, IsSubscribed
<1>13. ASSUME NEW f, Subscribe(f), f = "openWorkflow" => ~wanted,
              UNCHANGED <<conn, queue, sends, wire>>
       PROVE  SubscribedOnce'
  BY <1>1, <1>13 DEF Subscribe, SubscribedOnce, IsSubscribed
<1>14. ASSUME NEW f \in Functions, StatusFails(f) PROVE SubscribedOnce'
  <2>1. asked[f] # 0
    BY <1>1, <1>14 DEF StatusFails
  <2> QED
    BY <1>1, <1>13, <1>14, <2>1 DEF StatusFails, OpenedOnce
<1>15. ASSUME NEW a \in answers, StatusApplied(a) PROVE SubscribedOnce'
  BY <1>1, <1>13, <1>15 DEF StatusApplied, OpenedOnce
<1>16. ASSUME UNCHANGED <<server, socket>> PROVE SubscribedOnce'
  BY <1>1, <1>16 DEF server, socket, SubscribedOnce, IsSubscribed
<1> QED
  BY <1>3, <1>4, <1>5, <1>7, <1>9, <1>10, <1>11, <1>12, <1>14, <1>15, <1>16, <1>17
     DEF StreamNext, streamVars, RunAccepted, StatusServed, PostRun, ThreadUpdates, ThreadReads,
         ThreadPublishes

LEMMA ConnectedStep ==
  ASSUME StreamTyped, Connected, [StreamNext]_streamVars
  PROVE  Connected'
<1>1. OpenedOnce' /\ SubscribedOnce'
  BY OpenedOnceStep, SubscribedOnceStep
<1> QED
  BY <1>1 DEF Connected

-----------------------------------------------------------------------------
(* EventStream: what the messages on their way will show *)

\* The messages that say which run is in progress, and what the canvas shows once
\* it has received the first i messages' worth of them (0: none).
Naming(t) == {i \in 1..Len(t) : t[i].type \in {"subscribed", "started", "finished"}}
RunAt(t, s, i) == IF i = 0 THEN s ELSE IF t[i].type = "finished" THEN 0 ELSE t[i].run

\* The last of them names the run c, and a run that ends is the one shown till then.
RunsFollow(t, s, c) ==
  /\ \A i \in {0} \cup Naming(t) : (\A j \in Naming(t) : j <= i) => RunAt(t, s, i) = c
  /\ \A i \in Naming(t), j \in {0} \cup Naming(t) :
       /\ t[i].type = "finished" /\ j < i
       /\ \A k \in Naming(t) : ~(j < k /\ k < i)
       => RunAt(t, s, j) = t[i].run

\* The messages of one line are those of another, each where f says.
LEMMA RunsFollowElsewhere ==
  ASSUME NEW t \in Seq(Messages), NEW u \in Seq(Messages), NEW s, NEW z, NEW c,
         NEW f \in [{0} \cup Naming(u) -> {0} \cup Naming(t)],
         \A i \in {0} \cup Naming(u) : RunAt(u, z, i) = RunAt(t, s, f[i]),
         \A i \in Naming(u) : f[i] \in Naming(t) /\ u[i] = t[f[i]],
         \A i, j \in {0} \cup Naming(u) : i < j <=> f[i] < f[j],
         \A p \in Naming(t) : p <= f[0] \/ \E i \in Naming(u) : f[i] = p,
         RunsFollow(t, s, c)
  PROVE  RunsFollow(u, z, c)
<1>1. Naming(t) \subseteq Nat /\ Naming(u) \subseteq Nat
  BY DEF Naming
<1>2. ASSUME NEW i \in {0} \cup Naming(u), \A j \in Naming(u) : j <= i PROVE RunAt(u, z, i) = c
  <2>1. ASSUME NEW p \in Naming(t) PROVE p <= f[i]
    <3>1. CASE p <= f[0]
      <4>1. ~(f[i] < f[0])
        BY <1>1
      <4> QED
        BY <1>1, <3>1, <4>1
    <3>2. ASSUME NEW j \in Naming(u), f[j] = p PROVE p <= f[i]
      <4>1. ~(f[i] < f[j])
        BY <1>1, <1>2
      <4> QED
        BY <1>1, <3>2, <4>1
    <3> QED
      BY <3>1, <3>2
  <2>2. RunAt(t, s, f[i]) = c
    BY <2>1 DEF RunsFollow
  <2> QED
    BY <2>2
<1>3. ASSUME NEW i \in Naming(u), NEW j \in {0} \cup Naming(u), u[i].type = "finished", j < i,
             \A k \in Naming(u) : ~(j < k /\ k < i)
      PROVE  RunAt(u, z, j) = u[i].run
  <2>1. ASSUME NEW p \in Naming(t), f[j] < p, p < f[i] PROVE FALSE
    <3>1. ~(p <= f[0])
      <4>1. ~(f[j] < f[0])
        BY <1>1
      <4> QED
        BY <1>1, <2>1, <4>1
    <3>2. PICK k \in Naming(u) : f[k] = p
      BY <3>1
    <3>3. j < k /\ k < i
      BY <2>1, <3>2
    <3> QED
      BY <1>3, <3>3
  <2>2. f[i] \in Naming(t) /\ f[j] \in {0} \cup Naming(t) /\ f[j] < f[i] /\ t[f[i]].type = "finished"
    BY <1>3
  <2>3. RunAt(t, s, f[j]) = t[f[i]].run
    BY <2>1, <2>2 DEF RunsFollow
  <2> QED
    BY <2>3
<1> QED
  BY <1>2, <1>3 DEF RunsFollow

LEMMA RunsFollowWithAnother ==
  ASSUME NEW t \in Seq(Messages), NEW u \in Seq(Messages), NEW k \in Nat, NEW m \in Messages,
         Inserted(t, u, k, m), m.type \notin {"subscribed", "started", "finished"},
         NEW s, NEW c, RunsFollow(t, s, c)
  PROVE  RunsFollow(u, s, c)
<1> DEFINE f == [i \in {0} \cup Naming(u) |-> IF i <= k THEN i ELSE i - 1]
<1>1. /\ Len(t) \in Nat /\ Len(u) = Len(t) + 1 /\ k <= Len(t) /\ u[k + 1] = m
      /\ \A i \in 1..Len(u) :
           \/ i = k + 1
           \/ i <= k /\ i \in 1..Len(t) /\ u[i] = t[i]
           \/ i > k + 1 /\ i - 1 \in 1..Len(t) /\ u[i] = t[i - 1]
  BY Origins
<1>2. Naming(t) \subseteq Nat \ {0} /\ Naming(u) \subseteq Nat \ {0} /\ k + 1 \notin Naming(u)
  BY <1>1 DEF Naming
<1>3. \A i \in {0} \cup Naming(u) : f[i] = IF i <= k THEN i ELSE i - 1
  OBVIOUS
<1>4. f = [i \in {0} \cup Naming(u) |-> f[i]]
  OBVIOUS
<1> HIDE DEF f
<1>5. ASSUME NEW i \in Naming(u) PROVE f[i] \in Naming(t) /\ u[i] = t[f[i]] /\ f[i] # 0
  <2>1. i \in 1..Len(u) /\ u[i].type \in {"subscribed", "started", "finished"}
    BY DEF Naming
  <2>2. CASE i <= k
    BY <1>1, <1>2, <1>3, <2>1, <2>2 DEF Naming
  <2>3. CASE i > k + 1
    <3>1. f[i] = i - 1 /\ i - 1 \in 1..Len(t) /\ u[i] = t[i - 1]
      BY <1>1, <1>3, <2>1, <2>3
    <3> QED
      BY <2>1, <3>1 DEF Naming
  <2> QED
    BY <1>1, <1>2, <2>1, <2>2, <2>3
<1>6. f[0] = 0
  BY <1>3
<1>7. f \in [{0} \cup Naming(u) -> {0} \cup Naming(t)]
  BY <1>4, <1>5, <1>6
<1>8. \A i \in {0} \cup Naming(u) : RunAt(u, s, i) = RunAt(t, s, f[i])
  BY <1>2, <1>5, <1>6 DEF RunAt
<1>9. \A i, j \in {0} \cup Naming(u) : i < j <=> f[i] < f[j]
  BY <1>2, <1>3
<1>10. ASSUME NEW p \in Naming(t) PROVE \E i \in Naming(u) : f[i] = p
  <2>1. p \in 1..Len(t) /\ t[p].type \in {"subscribed", "started", "finished"}
    BY DEF Naming
  <2>2. CASE p <= k
    <3>1. p \in 1..Len(u) /\ u[p] = t[p]
      BY <1>1, <2>1, <2>2
    <3> QED
      BY <1>3, <2>1, <2>2, <3>1 DEF Naming
  <2>3. CASE ~(p <= k)
    <3>1. p + 1 \in 1..Len(u) /\ u[p + 1] = t[p]
      <4>1. p + 1 \in 1..Len(u) /\ p + 1 # k + 1 /\ ~(p + 1 <= k) /\ (p + 1) - 1 = p
        BY <1>1, <2>1, <2>3
      <4> QED
        BY <1>1, <4>1
    <3>2. p + 1 \in Naming(u)
      BY <2>1, <3>1 DEF Naming
    <3>3. f[p + 1] = p
      BY <1>3, <2>1, <2>3, <3>2
    <3> QED
      BY <3>2, <3>3
  <2> QED
    BY <2>2, <2>3
<1>11. \A p \in Naming(t) : p <= f[0] \/ \E i \in Naming(u) : f[i] = p
  BY <1>10
<1>12. \A i \in Naming(u) : f[i] \in Naming(t) /\ u[i] = t[f[i]]
  BY <1>5
<1> QED
  BY <1>7, <1>8, <1>9, <1>11, <1>12, RunsFollowElsewhere

LEMMA RunsFollowBehindTheFirst ==
  ASSUME NEW t \in Seq(Messages), NEW u \in Seq(Messages), Shifted(t, u),
         NEW s, NEW c, RunsFollow(t, s, c)
  PROVE  RunsFollow(u, IF 1 \in Naming(t) THEN RunAt(t, s, 1) ELSE s, c)
<1> DEFINE z == IF 1 \in Naming(t) THEN RunAt(t, s, 1) ELSE s
           f == [i \in {0} \cup Naming(u) |-> IF i = 0 /\ 1 \notin Naming(t) THEN 0 ELSE i + 1]
<1>1. /\ Len(t) \in Nat /\ Len(u) = Len(t) - 1 /\ Len(u) \in Nat
      /\ \A i \in 1..Len(u) : i + 1 \in 1..Len(t) /\ u[i] = t[i + 1]
  BY DEF Shifted
<1>2. Naming(t) \subseteq Nat \ {0} /\ Naming(u) \subseteq Nat \ {0}
  BY DEF Naming
<1>3. \A i \in {0} \cup Naming(u) : f[i] = IF i = 0 /\ 1 \notin Naming(t) THEN 0 ELSE i + 1
  OBVIOUS
<1>4. f = [i \in {0} \cup Naming(u) |-> f[i]]
  OBVIOUS
<1> HIDE DEF f
<1>5. ASSUME NEW i \in Naming(u) PROVE f[i] \in Naming(t) /\ u[i] = t[f[i]] /\ f[i] = i + 1 /\ f[i] # 0
  <2>1. i \in 1..Len(u) /\ u[i].type \in {"subscribed", "started", "finished"}
    BY DEF Naming
  <2>2. f[i] = i + 1 /\ i + 1 \in 1..Len(t) /\ u[i] = t[i + 1]
    BY <1>1, <1>2, <1>3, <2>1
  <2> QED
    BY <1>2, <2>1, <2>2 DEF Naming
<1>6. f[0] = IF 1 \in Naming(t) THEN 1 ELSE 0
  BY <1>3
<1>7. f \in [{0} \cup Naming(u) -> {0} \cup Naming(t)]
  BY <1>4, <1>5, <1>6
<1>8. \A i \in {0} \cup Naming(u) : RunAt(u, z, i) = RunAt(t, s, f[i])
  <2>1. RunAt(u, z, 0) = RunAt(t, s, f[0])
    BY <1>6 DEF RunAt
  <2>2. \A i \in Naming(u) : RunAt(u, z, i) = RunAt(t, s, f[i])
    BY <1>2, <1>5 DEF RunAt
  <2> QED
    BY <2>1, <2>2
<1>9. \A i, j \in {0} \cup Naming(u) : i < j <=> f[i] < f[j]
  BY <1>2, <1>3
<1>10. ASSUME NEW p \in Naming(t), ~(p <= f[0]) PROVE \E i \in Naming(u) : f[i] = p
  <2>1. p \in 1..Len(t) /\ t[p].type \in {"subscribed", "started", "finished"}
    BY DEF Naming
  <2>2. p # 1
    BY <1>6, <1>10
  <2>3. p - 1 \in 1..Len(u) /\ u[p - 1] = t[p]
    <3>1. p - 1 \in 1..Len(u) /\ (p - 1) + 1 = p
      BY <1>1, <2>1, <2>2
    <3> QED
      BY <1>1, <3>1
  <2>4. p - 1 \in Naming(u)
    BY <2>1, <2>3 DEF Naming
  <2>5. f[p - 1] = p
    <3>1. (p - 1) + 1 = p
      BY <2>1
    <3> QED
      BY <1>5, <2>4, <3>1
  <2> QED
    BY <2>4, <2>5
<1> HIDE DEF z
<1>11. RunsFollow(u, z, c)
  BY <1>5, <1>7, <1>8, <1>9, <1>10, RunsFollowElsewhere
<1> QED
  BY <1>11 DEF z

\* The engine's next step joins them last.
LEMMA RunsFollowTheEngine ==
  ASSUME NEW t \in Seq(Messages), NEW u \in Seq(Messages), NEW m \in Messages,
         Inserted(t, u, Len(t), m), m.type \in {"subscribed", "started", "finished"},
         NEW s, NEW c, RunsFollow(t, s, c), m.type = "finished" => m.run = c
  PROVE  RunsFollow(u, s, IF m.type = "finished" THEN 0 ELSE m.run)
<1> DEFINE l == Len(t) + 1
<1>1. /\ Len(t) \in Nat /\ Len(u) = l /\ u[l] = m
      /\ \A i \in 1..Len(u) : i = l \/ (i \in 1..Len(t) /\ u[i] = t[i])
      /\ \A i \in 1..Len(t) : i \in 1..Len(u) /\ u[i] = t[i] /\ i < l
  BY DEF Inserted
<1>2. /\ Naming(t) \subseteq Nat \ {0} /\ Naming(u) = Naming(t) \cup {l} /\ l \notin Naming(t)
      /\ \A i \in Naming(t) : u[i] = t[i] /\ i < l
  <2>1. Naming(t) \subseteq Nat \ {0} /\ \A i \in Naming(t) : i \in 1..Len(t)
    BY DEF Naming
  <2>2. \A i \in Naming(t) : u[i] = t[i] /\ i < l /\ i \in Naming(u)
    BY <1>1, <2>1 DEF Naming
  <2>3. l \in Naming(u)
    BY <1>1 DEF Naming
  <2>4. \A i \in Naming(u) : i = l \/ i \in Naming(t)
    BY <1>1 DEF Naming
  <2>5. l \notin Naming(t)
    BY <1>1, <2>1
  <2> QED
    BY <2>1, <2>2, <2>3, <2>4, <2>5
<1>3. l \in Nat \ {0}
  BY <1>1
<1> HIDE DEF l
<1>4. \A i \in {0} \cup Naming(t) : RunAt(u, s, i) = RunAt(t, s, i)
  BY <1>2 DEF RunAt
<1>5. RunAt(u, s, l) = IF m.type = "finished" THEN 0 ELSE m.run
  BY <1>1, <1>3 DEF RunAt
<1>6. ASSUME NEW i \in {0} \cup Naming(u), \A j \in Naming(u) : j <= i PROVE i = l
  <2>1. l <= i
    BY <1>2, <1>6
  <2> QED
    BY <1>2, <1>3, <2>1
<1>7. ASSUME NEW i \in Naming(u), NEW j \in {0} \cup Naming(u), u[i].type = "finished", j < i,
             \A k \in Naming(u) : ~(j < k /\ k < i)
      PROVE  RunAt(u, s, j) = u[i].run
  <2>1. j \in {0} \cup Naming(t)
    BY <1>2, <1>3, <1>7
  <2>2. CASE i = l
    <3>1. ASSUME NEW k \in Naming(t) PROVE k <= j
      <4>1. k \in Naming(u) /\ k < i
        BY <1>2, <2>2
      <4> QED
        BY <1>2, <1>7, <2>1, <4>1
    <3>2. RunAt(t, s, j) = c
      BY <2>1, <3>1 DEF RunsFollow
    <3> QED
      BY <1>1, <1>4, <1>7, <2>1, <2>2, <3>2
  <2>3. CASE i \in Naming(t)
    <3>1. t[i].type = "finished" /\ t[i].run = u[i].run /\ \A k \in Naming(t) : ~(j < k /\ k < i)
      BY <1>2, <1>7, <2>3
    <3>2. RunAt(t, s, j) = t[i].run
      BY <1>7, <2>1, <2>3, <3>1 DEF RunsFollow
    <3> QED
      BY <1>4, <2>1, <3>1, <3>2
  <2> QED
    BY <1>2, <2>2, <2>3
<1> QED
  BY <1>5, <1>6, <1>7 DEF RunsFollow

\* A subscription's reply is the first.
LEMMA RunsFollowTheReply ==
  ASSUME NEW u \in Seq(Messages), NEW m \in Messages, Inserted(<<>>, u, 0, m), m.type = "subscribed",
         NEW s
  PROVE  RunsFollow(u, s, m.run)
<1>1. Len(u) = 1 /\ u[1] = m
  BY DEF Inserted
<1>2. Naming(u) = {1}
  BY <1>1 DEF Naming
<1> QED
  BY <1>1, <1>2 DEF RunsFollow, RunAt

-----------------------------------------------------------------------------
\* The messages that bring the status of the first node; the last brings c.
IsShowing(m) == IsStatus(m) /\ m.node = 1
Showing(t) == {i \in 1..Len(t) : IsShowing(t[i])}
StatusesEndWith(t, c) ==
  \A i \in Showing(t) : (\A j \in Showing(t) : j <= i) => t[i].v = c

LEMMA StatusesWithAnother ==
  ASSUME NEW t \in Seq(Messages), NEW u \in Seq(Messages), NEW k \in Nat, NEW m \in Messages,
         Inserted(t, u, k, m), ~IsShowing(m), NEW c, StatusesEndWith(t, c)
  PROVE  StatusesEndWith(u, c) /\ (Showing(u) = {} => Showing(t) = {})
<1>1. /\ Len(t) \in Nat /\ Len(u) = Len(t) + 1 /\ k <= Len(t) /\ u[k + 1] = m
      /\ \A i \in 1..Len(u) :
           \/ i = k + 1
           \/ i <= k /\ i \in 1..Len(t) /\ u[i] = t[i]
           \/ i > k + 1 /\ i - 1 \in 1..Len(t) /\ u[i] = t[i - 1]
  BY Origins
<1>2. \A p \in Showing(t) : p \in 1..Len(t) /\ IsShowing(t[p])
  BY DEF Showing
<1>3. ASSUME NEW p \in Showing(t), p <= k PROVE p \in Showing(u)
  <2>1. p \in 1..Len(u) /\ p # k + 1 /\ ~(p > k + 1)
    BY <1>1, <1>2, <1>3
  <2>2. u[p] = t[p]
    BY <1>1, <2>1
  <2> QED
    BY <1>2, <2>1, <2>2 DEF Showing
<1>4. ASSUME NEW p \in Showing(t), ~(p <= k) PROVE p + 1 \in Showing(u)
  <2>1. p + 1 \in 1..Len(u) /\ p + 1 # k + 1 /\ ~(p + 1 <= k) /\ (p + 1) - 1 = p
    BY <1>1, <1>2, <1>4
  <2>2. u[p + 1] = t[p]
    BY <1>1, <2>1
  <2> QED
    BY <1>2, <2>1, <2>2 DEF Showing
<1>5. ASSUME NEW i \in Showing(u), \A j \in Showing(u) : j <= i PROVE u[i].v = c
  <2>1. i \in 1..Len(u) /\ IsShowing(u[i])
    BY DEF Showing
  <2>2. i # k + 1
    BY <1>1, <2>1
  <2>3. CASE i <= k
    <3>1. i \in 1..Len(t) /\ u[i] = t[i]
      BY <1>1, <2>1, <2>3
    <3>2. ASSUME NEW p \in Showing(t) PROVE p <= i
      <4>1. p <= k => p <= i
        BY <1>3, <1>5
      <4>2. ~(p <= k) => p + 1 <= i
        BY <1>4, <1>5
      <4> QED
        BY <1>1, <1>2, <2>1, <2>3, <4>1, <4>2
    <3> QED
      BY <2>1, <3>1, <3>2 DEF Showing, StatusesEndWith
  <2>4. CASE i > k + 1
    <3>1. i - 1 \in 1..Len(t) /\ u[i] = t[i - 1]
      BY <1>1, <2>1, <2>4
    <3>2. ASSUME NEW p \in Showing(t) PROVE p <= i - 1
      <4>1. p <= k \/ p + 1 <= i
        BY <1>4, <1>5
      <4> QED
        BY <1>1, <1>2, <2>1, <2>4, <4>1
    <3> QED
      BY <2>1, <3>1, <3>2 DEF Showing, StatusesEndWith
  <2> QED
    BY <1>1, <2>1, <2>2, <2>3, <2>4
<1> QED
  BY <1>3, <1>4, <1>5 DEF StatusesEndWith

LEMMA StatusesWithTheLatest ==
  ASSUME NEW t \in Seq(Messages), NEW u \in Seq(Messages), NEW k \in Nat, NEW m \in Messages,
         Inserted(t, u, k, m), IsShowing(m), k = Len(t) \/ StatusesEndWith(t, m.v)
  PROVE  StatusesEndWith(u, m.v) /\ Showing(u) # {}
<1>1. /\ Len(t) \in Nat /\ Len(u) = Len(t) + 1 /\ k <= Len(t) /\ u[k + 1] = m
      /\ \A i \in 1..Len(u) :
           \/ i = k + 1
           \/ i <= k /\ i \in 1..Len(t) /\ u[i] = t[i]
           \/ i > k + 1 /\ i - 1 \in 1..Len(t) /\ u[i] = t[i - 1]
  BY Origins
<1>2. k + 1 \in Showing(u)
  BY <1>1 DEF Showing
<1>3. ASSUME NEW i \in Showing(u), \A j \in Showing(u) : j <= i PROVE u[i].v = m.v
  <2>1. i \in 1..Len(u) /\ IsShowing(u[i]) /\ k + 1 <= i
    BY <1>2, <1>3 DEF Showing
  <2>2. CASE i = k + 1
    BY <1>1, <2>2
  <2>3. CASE i # k + 1
    <3>1. i > k + 1 /\ k # Len(t)
      BY <1>1, <2>1, <2>3
    <3>2. i - 1 \in 1..Len(t) /\ u[i] = t[i - 1]
      BY <1>1, <2>1, <3>1
    <3>3. ASSUME NEW p \in Showing(t) PROVE p <= i - 1
      <4>1. p \in 1..Len(t) /\ IsShowing(t[p])
        BY DEF Showing
      <4>2. CASE p <= k
        BY <1>1, <2>1, <3>1, <4>1, <4>2
      <4>3. CASE ~(p <= k)
        <5>1. p + 1 \in 1..Len(u) /\ p + 1 # k + 1 /\ ~(p + 1 <= k) /\ (p + 1) - 1 = p
          BY <1>1, <4>1, <4>3
        <5>2. u[p + 1] = t[p]
          BY <1>1, <5>1
        <5>3. p + 1 \in Showing(u)
          BY <4>1, <5>1, <5>2 DEF Showing
        <5>4. p + 1 <= i
          BY <1>3, <5>3
        <5> QED
          BY <2>1, <4>1, <5>4
      <4> QED
        BY <4>2, <4>3
    <3> QED
      BY <2>1, <3>1, <3>2, <3>3 DEF Showing, StatusesEndWith
  <2> QED
    BY <2>2, <2>3
<1> QED
  BY <1>2, <1>3 DEF StatusesEndWith

LEMMA StatusesBehindTheFirst ==
  ASSUME NEW t \in Seq(Messages), NEW u \in Seq(Messages), Shifted(t, u),
         NEW c, StatusesEndWith(t, c)
  PROVE  /\ StatusesEndWith(u, c)
         /\ Showing(u) = {} /\ 1 \in Showing(t) => t[1].v = c
         /\ Showing(u) = {} /\ 1 \notin Showing(t) => Showing(t) = {}
<1>1. /\ Len(t) \in Nat /\ Len(u) = Len(t) - 1 /\ Len(u) \in Nat
      /\ \A i \in 1..Len(u) : i + 1 \in 1..Len(t) /\ u[i] = t[i + 1]
  BY DEF Shifted
<1>2. ASSUME NEW p \in Showing(t), p # 1 PROVE p - 1 \in Showing(u)
  <2>1. p \in 1..Len(t) /\ IsShowing(t[p])
    BY DEF Showing
  <2>2. p - 1 \in 1..Len(u) /\ (p - 1) + 1 = p
    BY <1>1, <1>2, <2>1
  <2>3. u[p - 1] = t[p]
    BY <1>1, <2>2
  <2> QED
    BY <2>1, <2>2, <2>3 DEF Showing
<1>3. ASSUME NEW i \in Showing(u), \A j \in Showing(u) : j <= i PROVE u[i].v = c
  <2>1. i \in 1..Len(u) /\ IsShowing(u[i]) /\ i + 1 \in 1..Len(t) /\ u[i] = t[i + 1]
    BY <1>1 DEF Showing
  <2>2. i + 1 \in Showing(t)
    BY <2>1 DEF Showing
  <2>3. ASSUME NEW p \in Showing(t) PROVE p <= i + 1
    <3>1. p \in Nat
      BY DEF Showing
    <3>2. p # 1 => p - 1 <= i
      BY <1>2, <1>3
    <3> QED
      BY <2>1, <3>1, <3>2
  <2> QED
    BY <2>1, <2>2, <2>3 DEF StatusesEndWith
<1>4. ASSUME Showing(u) = {}, 1 \in Showing(t) PROVE t[1].v = c
  <2>1. \A p \in Showing(t) : p <= 1
    BY <1>2, <1>4
  <2> QED
    BY <1>4, <2>1 DEF StatusesEndWith
<1>5. ASSUME Showing(u) = {}, 1 \notin Showing(t) PROVE Showing(t) = {}
  BY <1>2, <1>5
<1> QED
  BY <1>3, <1>4, <1>5 DEF StatusesEndWith

-----------------------------------------------------------------------------
(* EventStream: the canvas follows the engine *)

LEMMA LinesAreTyped ==
  ASSUME StreamTyped, StreamTyped'
  PROVE  /\ OnTheWay \in Seq(Messages) /\ OnTheWay' \in Seq(Messages)
         /\ Len(OnTheWay) \in Nat /\ Len(wire) + Len(sends) \in Nat
<1>1. OnTheWay' \in Seq(Messages)
  BY LineAfter, LineIsASequence DEF StreamTyped
<1> QED
  BY <1>1, LineIsTyped

\* The steps of the session that add a message to the line: what it is, and where.
LEMMA RepliesOnTheWay ==
  ASSUME StreamTyped, ReplySent \/ IssuesSent \/ (StatusSent /\ todo # <<>>)
  PROVE  \E m \in Messages :
           /\ Inserted(OnTheWay, OnTheWay', Len(wire) + Len(sends), m)
           /\ m.type \notin {"subscribed", "started", "finished"}
           /\ IF IssuesSent THEN IsShowing(m) /\ m.v = records[1] ELSE ~IsShowing(m)
<1>1. CASE ReplySent
  <2>1. sends # <<>> /\ Release /\ NextReply(Issues) /\ queue' = queue /\ ~IssuesSent
    BY <1>1 DEF ReplySent, IssuesSent, HasSent
  <2>2. /\ Issues \in Messages /\ ~IsShowing(Issues)
        /\ Issues.type \notin {"subscribed", "started", "finished"}
    BY MessagesAreTyped DEF IsShowing, IsStatus, Issues
  <2>3. Inserted(OnTheWay, OnTheWay', Len(wire) + Len(sends), Issues)
    BY <2>1, <2>2, ReplyIsOnTheWay
  <2> QED
    BY <2>1, <2>2, <2>3
<1>2. CASE IssuesSent
  <2> DEFINE m == Head(Statuses)
  <2>1. sends # <<>> /\ Release /\ NextReply(m) /\ queue' = queue
    BY <1>2 DEF IssuesSent, HasSent
  <2>2. m \in Messages /\ m.type = "snapshot" /\ m.v = records[1] /\ IsShowing(m)
    BY StatusesAreTyped DEF Status, IsShowing, IsStatus
  <2> HIDE DEF m
  <2>3. Inserted(OnTheWay, OnTheWay', Len(wire) + Len(sends), m)
    BY <2>1, <2>2, ReplyIsOnTheWay
  <2> QED
    BY <1>2, <2>2, <2>3
<1>3. CASE StatusSent /\ todo # <<>>
  <2>1. sends # <<>> /\ Release /\ NextReply(Head(todo)) /\ queue' = queue /\ ~IssuesSent
    BY <1>3 DEF StatusSent, IssuesSent, HasSent
  <2>2. /\ Head(todo) \in Messages /\ ~IsShowing(Head(todo))
        /\ Head(todo).type \notin {"subscribed", "started", "finished"}
    BY <1>3, NextStatusIsTyped DEF IsShowing
  <2>3. Inserted(OnTheWay, OnTheWay', Len(wire) + Len(sends), Head(todo))
    BY <2>1, <2>2, ReplyIsOnTheWay
  <2> QED
    BY <2>1, <2>2, <2>3
<1> QED
  BY <1>1, <1>2, <1>3

\* The steps that send a message, hand one over or have nothing to do with the line.
LEMMA LineKept ==
  ASSUME StreamTyped,
         \/ StatusSent /\ todo = <<>>
         \/ Forward \/ EventSent
         \/ UNCHANGED <<queue, sends, wire>>
  PROVE  OnTheWay' = OnTheWay
<1>1. CASE (StatusSent /\ todo = <<>>) \/ EventSent
  <2>1. sends # <<>> /\ Release /\ sends' = Tail(sends) /\ queue' = queue
    BY <1>1 DEF StatusSent, EventSent, HasSent
  <2> QED
    BY <2>1, SendingKeepsTheLine
<1>2. CASE Forward
  BY <1>2, ForwardingKeepsTheLine
<1>3. CASE UNCHANGED <<queue, sends, wire>>
  BY <1>3, LineAfter DEF OnTheWay, Line
<1> QED
  BY <1>1, <1>2, <1>3

LEMMA NothingOnTheWay ==
  ASSUME StreamTyped, queue = <<>>, sends = <<>>, wire = <<>>
  PROVE  OnTheWay = <<>>
<1>1. Line(wire, sends, queue) = <<>>
  BY EmptyLine DEF StreamTyped
<1> QED
  BY <1>1, LineIsTyped

\* Steps that leave the line, and the session as it is.
Aside ==
  \/ \E t \in Threads : ThreadUpdates(t) \/ ThreadPublishes(t) \/ \E n \in Nodes : ThreadReads(t, n)
  \/ \E f \in Functions : StatusServed(f)
  \/ PostRun
  \/ UNCHANGED streamVars

\* A failed GET of the status changes nothing the client shows.
LEMMA AsideIsAside ==
  ASSUME Aside \/ (\E f \in Functions : StatusFails(f))
  PROVE  /\ UNCHANGED <<queue, sends, wire, behind, current, store>>
         /\ IsSubscribed' => IsSubscribed /\ session' = session
BY DEF Aside, ThreadUpdates, ThreadPublishes, ThreadReads, StatusServed, PostRun, StatusFails, Subscribe,
       streamVars, engine, loop, threads, server, socket, store, IsSubscribed

-----------------------------------------------------------------------------
(* EventStream: the canvas follows the runs *)

\* While the subscription has been given every news of a run, its messages follow one
\* another from the run they have made the canvas show, unless an answer over HTTP has
\* changed that, to the run in progress.
RunFollowed ==
  IsSubscribed /\ 0 \notin behind =>
    \E s : (0 \notin disputed => s = shown) /\ RunsFollow(OnTheWay, s, current)

LEMMA RunFollowedAfter ==
  ASSUME IsSubscribed' /\ 0 \notin behind' =>
           \E s : (0 \notin disputed' => s = shown') /\ RunsFollow(OnTheWay', s, current')
  PROVE  RunFollowed'
BY DEF RunFollowed, RunsFollow, Naming, RunAt

LEMMA RunFollowedWithTheLine ==
  ASSUME RunFollowed, OnTheWay' = OnTheWay, current' = current, IsSubscribed' => IsSubscribed,
         0 \notin behind' => 0 \notin behind,
         0 \notin disputed' => 0 \notin disputed /\ shown' = shown
  PROVE  RunFollowed'
<1> SUFFICES ASSUME IsSubscribed', 0 \notin behind'
             PROVE  \E s : (0 \notin disputed' => s = shown') /\ RunsFollow(OnTheWay', s, current')
  BY RunFollowedAfter
<1>1. PICK s : (0 \notin disputed => s = shown) /\ RunsFollow(OnTheWay, s, current)
  BY DEF RunFollowed
<1> QED
  BY <1>1

LEMMA RunFollowedWithAnother ==
  ASSUME StreamTyped, StreamTyped', RunFollowed, IsSubscribed, 0 \notin behind' => 0 \notin behind,
         NEW k \in Nat, NEW m \in Messages, Inserted(OnTheWay, OnTheWay', k, m),
         m.type \notin {"subscribed", "started", "finished"},
         UNCHANGED <<current, shown, disputed>>
  PROVE  RunFollowed'
<1> SUFFICES ASSUME 0 \notin behind'
             PROVE  \E s : (0 \notin disputed' => s = shown') /\ RunsFollow(OnTheWay', s, current')
  BY RunFollowedAfter
<1>1. PICK s : (0 \notin disputed => s = shown) /\ RunsFollow(OnTheWay, s, current)
  BY DEF RunFollowed
<1>2. RunsFollow(OnTheWay', s, current)
  BY <1>1, LinesAreTyped, RunsFollowWithAnother
<1> QED
  BY <1>1, <1>2

\* A status, from the loop or from a thread.
LEMMA RunFollowedWithAStatus ==
  ASSUME StreamTyped, StreamTyped', RunFollowed, NEW m \in Messages, IsStatus(m),
         NEW part \in Nodes, NEW isLatest, Offer(m, part, isLatest),
         UNCHANGED <<session, sends, wire, current, shown, disputed>>
  PROVE  RunFollowed'
<1>1. /\ part # 0 /\ m.type \notin {"subscribed", "started", "finished"}
      /\ IsSubscribed' <=> IsSubscribed
  BY PartsAreTyped DEF IsStatus, IsSubscribed
<1>2. 0 \notin behind' => 0 \notin behind
  BY <1>1 DEF Offer
<1>3. OnTheWay' = OnTheWay \/ (IsSubscribed /\ Inserted(OnTheWay, OnTheWay', Len(OnTheWay), m))
  BY OfferedIsOnTheWay
<1>4. CASE OnTheWay' = OnTheWay
  BY <1>1, <1>2, <1>4, RunFollowedWithTheLine
<1>5. CASE IsSubscribed /\ Inserted(OnTheWay, OnTheWay', Len(OnTheWay), m)
  BY <1>1, <1>2, <1>5, LinesAreTyped, RunFollowedWithAnother
<1> QED
  BY <1>3, <1>4, <1>5

\* A run begins or ends.
LEMMA RunFollowedWithTheEngine ==
  ASSUME StreamTyped, StreamTyped', RunFollowed, NEW m \in Messages, m.type \in {"started", "finished"},
         m.type = "finished" => m.run = current,
         current' = (IF m.type = "finished" THEN 0 ELSE m.run), Offer(m, 0, TRUE),
         UNCHANGED <<session, sends, wire, shown, disputed>>
  PROVE  RunFollowed'
<1> SUFFICES ASSUME IsSubscribed, 0 \notin behind'
             PROVE  \E s : (0 \notin disputed' => s = shown') /\ RunsFollow(OnTheWay', s, current')
  BY RunFollowedAfter DEF IsSubscribed
<1>1. Inserted(OnTheWay, OnTheWay', Len(OnTheWay), m) /\ 0 \notin behind
  BY OfferedIsOnTheWay
<1>2. PICK s : (0 \notin disputed => s = shown) /\ RunsFollow(OnTheWay, s, current)
  BY <1>1 DEF RunFollowed
<1>3. RunsFollow(OnTheWay', s, current')
  BY <1>1, <1>2, LinesAreTyped, RunsFollowTheEngine
<1> QED
  BY <1>2, <1>3

LEMMA RunFollowedWithTheReply ==
  ASSUME StreamTyped, StreamTyped', Connected, HandleSubscribe
  PROVE  RunFollowed'
<1> DEFINE m == Run(current, "subscribed")
<1>1. m.type = "subscribed" /\ m.run = current
  BY DEF Run
<1>2. UNCHANGED <<current, shown, disputed>>
  BY DEF HandleSubscribe, engine, loop, store
<1>3. m \in Messages /\ Inserted(OnTheWay, OnTheWay', Len(wire) + Len(sends), m)
  BY SubscribedIsOnTheWay
<1> HIDE DEF m
<1>4. wire = <<>> /\ sends = <<>> /\ queue = <<>>
  BY DEF HandleSubscribe, Connected, SubscribedOnce, IsSubscribed
<1>5. Inserted(<<>>, OnTheWay', 0, m)
  <2>1. OnTheWay = <<>> /\ Len(wire) + Len(sends) = 0
    BY <1>4, NothingOnTheWay
  <2> QED
    BY <1>3, <2>1
<1>6. RunsFollow(OnTheWay', shown, m.run)
  BY <1>1, <1>3, <1>5, LinesAreTyped, RunsFollowTheReply
<1> QED
  BY <1>1, <1>2, <1>6, RunFollowedAfter

LEMMA RunFollowedWithReceive ==
  ASSUME StreamTyped, StreamTyped', RunFollowed, Receive
  PROVE  RunFollowed'
<1> DEFINE m == Head(wire)
<1>1. m \in Messages
  BY DEF Receive, StreamTyped
<1>2. /\ shown' = Shown(m) /\ UNCHANGED <<session, current, behind>>
      /\ disputed' = IF IsStatus(m) THEN disputed \ {m.node}
                     ELSE IF Names(m) THEN disputed \ {0} ELSE disputed
  BY DEF Receive, engine, loop, server
<1> HIDE DEF m
<1>3. Shifted(OnTheWay, OnTheWay') /\ OnTheWay[1] = m
  BY ReceivingTakesTheFirst DEF m
<1>4. 1 \in 1..Len(OnTheWay)
  BY <1>3 DEF Shifted
<1> SUFFICES ASSUME IsSubscribed, 0 \notin behind
             PROVE  \E s : (0 \notin disputed' => s = shown') /\ RunsFollow(OnTheWay', s, current')
  BY <1>2, RunFollowedAfter DEF IsSubscribed
<1>5. PICK s : (0 \notin disputed => s = shown) /\ RunsFollow(OnTheWay, s, current)
  BY DEF RunFollowed
<1> DEFINE z == IF 1 \in Naming(OnTheWay) THEN RunAt(OnTheWay, s, 1) ELSE s
<1>6. RunsFollow(OnTheWay', z, current')
  BY <1>2, <1>3, <1>5, LinesAreTyped, RunsFollowBehindTheFirst
<1>7. 1 \in Naming(OnTheWay) <=> m.type \in {"subscribed", "started", "finished"}
  BY <1>3, <1>4 DEF Naming
<1>8. RunAt(OnTheWay, s, 1) = IF m.type = "finished" THEN 0 ELSE m.run
  BY <1>3 DEF RunAt
<1>9. ASSUME m.type = "finished" PROVE s = m.run
  <2>1. \A k \in Naming(OnTheWay) : ~(0 < k /\ k < 1)
    BY DEF Naming
  <2>2. RunAt(OnTheWay, s, 0) = m.run
    BY <1>3, <1>5, <1>7, <1>9, <2>1 DEF RunsFollow
  <2> QED
    BY <2>2 DEF RunAt
<1>10. 0 \notin disputed' => z = shown'
  <2>1. CASE m.type \in {"subscribed", "started"}
    BY <1>2, <1>7, <1>8, <2>1 DEF Shown
  <2>2. CASE m.type = "finished"
    <3>1. z = 0 /\ s = m.run
      BY <1>7, <1>8, <1>9, <2>2
    <3>2. CASE shown = m.run
      BY <1>2, <2>2, <3>1, <3>2 DEF Shown
    <3>3. CASE shown # m.run
      <4>1. 0 \in disputed
        BY <1>5, <3>1, <3>3
      <4>2. disputed' = disputed
        BY <1>2, <2>2, <3>3 DEF IsStatus, Names
      <4> QED
        BY <4>1, <4>2
    <3> QED
      BY <3>2, <3>3
  <2>3. CASE m.type \notin {"subscribed", "started", "finished"}
    <3>1. z = s /\ shown' = shown
      BY <1>2, <1>7, <2>3 DEF Shown
    <3>2. 0 \notin disputed' => 0 \notin disputed
      <4>1. IsStatus(m) => m.node # 0
        BY <1>1, PartsAreTyped DEF Messages, IsStatus, Issues
      <4>2. ~Names(m)
        BY <2>3 DEF Names
      <4> QED
        BY <1>2, <4>1, <4>2
    <3> QED
      BY <1>5, <3>1, <3>2
  <2> QED
    BY <2>1, <2>2, <2>3
<1> QED
  BY <1>6, <1>10

LEMMA RunFollowedStep ==
  ASSUME StreamTyped, StreamTyped', Connected, RunFollowed, [StreamNext]_streamVars
  PROVE  RunFollowed'
<1>1. ASSUME NEW n \in Nodes, ChangeStatus(n) PROVE RunFollowed'
  <2>1. Status(n, changes + 1, "event") \in Messages /\ IsStatus(Status(n, changes + 1, "event"))
    <3>1. changes + 1 \in Nat
      BY DEF StreamTyped
    <3>2. Status(n, changes + 1, "event") \in Messages
      BY <3>1, MessagesAreTyped
    <3> QED
      BY <3>2 DEF IsStatus, Status
  <2>2. /\ Offer(Status(n, changes + 1, "event"), n, TRUE)
        /\ UNCHANGED <<session, sends, wire, current, shown, disputed>>
    BY <1>1 DEF ChangeStatus, socket, store
  <2> QED
    BY <2>1, <2>2, RunFollowedWithAStatus
<1>2. CASE Deliver
  <2>1. Head(calls) \in Deferred
    BY <1>2 DEF Deliver, StreamTyped
  <2>2. Head(calls) \in Messages /\ IsStatus(Head(calls)) /\ Head(calls).node \in Nodes
    BY <2>1, MessagesAreTyped DEF Deferred, IsStatus
  <2>3. /\ Offer(Head(calls), Head(calls).node, Head(calls).v = records[Head(calls).node])
        /\ UNCHANGED <<session, sends, wire, current, shown, disputed>>
    BY <1>2 DEF Deliver, loop, socket, store
  <2> QED
    BY <2>2, <2>3, RunFollowedWithAStatus
<1>3. ASSUME NEW r \in 1..MaxNews, BeginRun(r) PROVE RunFollowed'
  <2>1. Run(r, "started") \in Messages /\ Run(r, "started").type = "started" /\ Run(r, "started").run = r
    <3>1. r \in Nat
      BY EventStreamAssumption
    <3>2. Run(r, "started") \in Messages
      BY <3>1, MessagesAreTyped
    <3> QED
      BY <3>2 DEF Run
  <2>2. /\ current' = r /\ Offer(Run(r, "started"), 0, TRUE)
        /\ UNCHANGED <<session, sends, wire, shown, disputed>>
    BY <1>3 DEF BeginRun, socket, store
  <2> QED
    BY <2>1, <2>2, RunFollowedWithTheEngine
<1>4. CASE FinishRun
  <2>1. /\ Run(current, "finished") \in Messages
        /\ Run(current, "finished").type = "finished" /\ Run(current, "finished").run = current
    <3>1. Run(current, "finished") \in Messages
      BY MessagesAreTyped DEF StreamTyped
    <3> QED
      BY <3>1 DEF Run
  <2>2. /\ current' = 0 /\ Offer(Run(current, "finished"), 0, TRUE)
        /\ UNCHANGED <<session, sends, wire, shown, disputed>>
    BY <1>4 DEF FinishRun, socket, store
  <2> QED
    BY <2>1, <2>2, RunFollowedWithTheEngine
<1>5. CASE ReplySent \/ IssuesSent \/ (StatusSent /\ todo # <<>>)
  <2>1. IsSubscribed /\ UNCHANGED <<current, shown, disputed, behind>>
    BY <1>5 DEF ReplySent, IssuesSent, StatusSent, IsSubscribed, engine, loop, store
  <2>2. PICK m \in Messages : /\ Inserted(OnTheWay, OnTheWay', Len(wire) + Len(sends), m)
                              /\ m.type \notin {"subscribed", "started", "finished"}
    BY <1>5, RepliesOnTheWay
  <2> QED
    BY <2>1, <2>2, LinesAreTyped, RunFollowedWithAnother
<1>6. CASE (StatusSent /\ todo = <<>>) \/ Forward \/ EventSent
  <2>1. UNCHANGED <<current, shown, disputed, behind>> /\ (IsSubscribed' => IsSubscribed)
    BY <1>6 DEF StatusSent, Forward, EventSent, IsSubscribed, engine, loop, store
  <2>2. OnTheWay' = OnTheWay
    BY <1>6, LineKept
  <2> QED
    BY <2>1, <2>2, RunFollowedWithTheLine
<1>7. CASE SocketOpens \/ SocketBreaks
  <2>1. ~IsSubscribed'
    BY <1>7 DEF SocketOpens, SocketBreaks, IsSubscribed
  <2> QED
    BY <2>1, RunFollowedAfter
<1>8. CASE Aside \/ (\E f \in Functions : StatusFails(f))
  <2>1. /\ UNCHANGED <<queue, sends, wire, behind, current, shown, disputed>>
        /\ IsSubscribed' => IsSubscribed
    BY <1>8, AsideIsAside DEF store
  <2>2. OnTheWay' = OnTheWay
    BY <2>1, LineKept
  <2> QED
    BY <2>1, <2>2, RunFollowedWithTheLine
<1>9. ASSUME NEW a \in answers, StatusApplied(a) PROVE RunFollowed'
  <2>1. /\ UNCHANGED <<queue, sends, wire, behind, current>> /\ (IsSubscribed' => IsSubscribed)
        /\ 0 \notin disputed' => 0 \notin disputed /\ shown' = shown
    BY <1>9 DEF StatusApplied, Subscribe, engine, loop, IsSubscribed
  <2>2. OnTheWay' = OnTheWay
    BY <2>1, LineKept
  <2> QED
    BY <2>1, <2>2, RunFollowedWithTheLine
<1>10. ASSUME NEW r \in 1..MaxNews, RunAccepted(r) PROVE RunFollowed'
  <2>1. /\ UNCHANGED <<queue, sends, wire, behind, current>> /\ (IsSubscribed' => IsSubscribed)
        /\ 0 \notin disputed' => 0 \notin disputed /\ shown' = shown
    BY <1>10 DEF RunAccepted, engine, loop, server, socket, IsSubscribed
  <2>2. OnTheWay' = OnTheWay
    BY <2>1, LineKept
  <2> QED
    BY <2>1, <2>2, RunFollowedWithTheLine
<1> QED
  BY <1>1, <1>2, <1>3, <1>4, <1>5, <1>6, <1>7, <1>8, <1>9, <1>10,
     RunFollowedWithTheReply, RunFollowedWithReceive DEF StreamNext, Aside

-----------------------------------------------------------------------------
(* EventStream: the canvas follows the first node *)

\* A thread has yet to publish the first node's status, or the loop to deliver it.
Unsettled ==
  \/ \E t \in Threads : 1 \in due[t] \/ (held[t] \in Deferred /\ held[t].node = 1)
  \/ \E i \in 1..Len(calls) : calls[i].node = 1

\* While the subscription has been given the node's latest status, the last of those on
\* their way is that; with none on its way, and the snapshot sent as far as that node, the
\* canvas shows it, unless an answer over HTTP has changed that.
NodeFollowed ==
  IsSubscribed /\ 1 \notin behind /\ ~Unsettled =>
    /\ StatusesEndWith(OnTheWay, records[1])
    /\ session \in {"snapshot", "serving"} /\ Showing(OnTheWay) = {} /\ 1 \notin disputed
         => view[1] = records[1]

LEMMA NodeFollowedAfter ==
  ASSUME IsSubscribed' /\ 1 \notin behind' /\ ~Unsettled' =>
           /\ StatusesEndWith(OnTheWay', records'[1])
           /\ session' \in {"snapshot", "serving"} /\ Showing(OnTheWay') = {} /\ 1 \notin disputed'
                => view'[1] = records'[1]
  PROVE  NodeFollowed'
BY DEF NodeFollowed, StatusesEndWith, Showing

LEMMA NodeFollowedWithTheLine ==
  ASSUME NodeFollowed, OnTheWay' = OnTheWay, IsSubscribed' => IsSubscribed,
         session' \in {"snapshot", "serving"} => session \in {"snapshot", "serving"},
         1 \notin behind' => 1 \notin behind,
         Unsettled => Unsettled', Unsettled' \/ records'[1] = records[1],
         1 \notin disputed' => 1 \notin disputed /\ view'[1] = view[1]
  PROVE  NodeFollowed'
BY NodeFollowedAfter DEF NodeFollowed

LEMMA NodeFollowedWithAnother ==
  ASSUME StreamTyped, StreamTyped', NodeFollowed, IsSubscribed,
         session' \in {"snapshot", "serving"} => session \in {"snapshot", "serving"},
         1 \notin behind' => 1 \notin behind, Unsettled => Unsettled',
         NEW k \in Nat, NEW m \in Messages, Inserted(OnTheWay, OnTheWay', k, m), ~IsShowing(m),
         records'[1] = records[1], UNCHANGED <<view, disputed>>
  PROVE  NodeFollowed'
<1> SUFFICES ASSUME 1 \notin behind', ~Unsettled'
             PROVE  /\ StatusesEndWith(OnTheWay', records'[1])
                    /\ session' \in {"snapshot", "serving"} /\ Showing(OnTheWay') = {} /\ 1 \notin disputed'
                         => view'[1] = records'[1]
  BY NodeFollowedAfter
<1>1. StatusesEndWith(OnTheWay, records[1])
  BY DEF NodeFollowed
<1>2. StatusesEndWith(OnTheWay', records[1]) /\ (Showing(OnTheWay') = {} => Showing(OnTheWay) = {})
  BY <1>1, LinesAreTyped, StatusesWithAnother
<1> QED
  BY <1>2 DEF NodeFollowed

\* News of anything but the node.
LEMMA NodeFollowedWithOtherNews ==
  ASSUME StreamTyped, StreamTyped', NodeFollowed, NEW m \in Messages, ~IsShowing(m),
         NEW part, part # 1, NEW isLatest, Offer(m, part, isLatest), Unsettled => Unsettled',
         records'[1] = records[1], UNCHANGED <<session, sends, wire, view, disputed>>
  PROVE  NodeFollowed'
<1>1. 1 \notin behind' => 1 \notin behind
  BY DEF Offer
<1>2. OnTheWay' = OnTheWay \/ (IsSubscribed /\ Inserted(OnTheWay, OnTheWay', Len(OnTheWay), m))
  BY OfferedIsOnTheWay
<1>3. CASE OnTheWay' = OnTheWay
  BY <1>1, <1>3, NodeFollowedWithTheLine DEF IsSubscribed
<1>4. CASE IsSubscribed /\ Inserted(OnTheWay, OnTheWay', Len(OnTheWay), m)
  BY <1>1, <1>4, LinesAreTyped, NodeFollowedWithAnother
<1> QED
  BY <1>2, <1>3, <1>4

\* News of the node: the latest is the last of the line, or the subscription is behind.
LEMMA NodeFollowedWithItsNews ==
  ASSUME StreamTyped, StreamTyped', NEW m \in Messages, IsShowing(m),
         NEW isLatest \in BOOLEAN, Offer(m, 1, isLatest), isLatest => m.v = records'[1],
         UNCHANGED <<session, sends, wire>>
  PROVE  NodeFollowed'
<1> SUFFICES ASSUME IsSubscribed, 1 \notin behind'
             PROVE  StatusesEndWith(OnTheWay', records'[1]) /\ Showing(OnTheWay') # {}
  BY NodeFollowedAfter DEF IsSubscribed
<1>1. Inserted(OnTheWay, OnTheWay', Len(OnTheWay), m) /\ isLatest
  BY OfferedIsOnTheWay
<1>2. StatusesEndWith(OnTheWay', m.v) /\ Showing(OnTheWay') # {}
  BY <1>1, LinesAreTyped, StatusesWithTheLatest
<1> QED
  BY <1>1, <1>2

LEMMA UnsettledKept ==
  ASSUME UNCHANGED threads
  PROVE  Unsettled' <=> Unsettled
BY DEF threads, Unsettled

LEMMA NodeFollowedWithTheThreads ==
  ASSUME StreamTyped, StreamTyped', NodeFollowed, NEW t \in Threads,
         ThreadUpdates(t) \/ ThreadPublishes(t) \/ \E n \in Nodes : ThreadReads(t, n)
  PROVE  NodeFollowed'
<1>1. /\ due \in [Threads -> SUBSET Nodes] /\ held \in [Threads -> Deferred \cup {Nothing}]
      /\ calls \in Seq(Deferred) /\ records \in [Nodes -> Nat] /\ 1 \in Nodes
  BY PartsAreTyped DEF StreamTyped
<1>2. /\ UNCHANGED <<queue, sends, wire, behind, view, disputed, session>>
  BY DEF ThreadUpdates, ThreadPublishes, ThreadReads, server, socket, store
<1>3. OnTheWay' = OnTheWay
  BY <1>2, LineKept
<1>4. SUFFICES (Unsettled => Unsettled') /\ (Unsettled' \/ records'[1] = records[1])
  BY <1>2, <1>3, NodeFollowedWithTheLine DEF IsSubscribed
<1>5. Nothing \notin Deferred
  BY DEF Nothing, Deferred
<1>6. CASE ThreadUpdates(t)
  <2>1. PICK ns \in SUBSET Nodes \ {{}} :
          /\ records' = [n \in Nodes |-> IF n \in ns THEN changes + 1 ELSE records[n]]
          /\ due' = [due EXCEPT ![t] = ns]
    BY <1>6 DEF ThreadUpdates
  <2>2. due[t] = {} /\ UNCHANGED <<held, calls>>
    BY <1>6 DEF ThreadUpdates
  <2>3. 1 \in ns => Unsettled'
    <3>1. due'[t] = ns
      BY <1>1, <2>1
    <3> QED
      BY <3>1 DEF Unsettled
  <2>4. 1 \notin ns => records'[1] = records[1]
    BY <1>1, <2>1
  <2>5. \A u \in Threads : 1 \in due[u] => 1 \in due'[u]
    BY <1>1, <2>1, <2>2
  <2>6. Unsettled => Unsettled'
    BY <2>2, <2>5 DEF Unsettled
  <2> QED
    BY <2>3, <2>4, <2>6
<1>7. CASE ThreadPublishes(t)
  <2>1. /\ held[t] \in Deferred /\ calls' = Append(calls, held[t])
        /\ held' = [held EXCEPT ![t] = Nothing] /\ UNCHANGED <<records, due>>
    BY <1>1, <1>7 DEF ThreadPublishes, loop
  <2>2. /\ Len(calls) \in Nat /\ Len(calls') = Len(calls) + 1 /\ calls'[Len(calls) + 1] = held[t]
        /\ \A i \in 1..Len(calls) : calls'[i] = calls[i] /\ i \in 1..Len(calls')
        /\ Len(calls) + 1 \in 1..Len(calls')
    BY <1>1, <2>1
  <2>3. ASSUME NEW i \in 1..Len(calls), calls[i].node = 1 PROVE Unsettled'
    BY <2>2, <2>3 DEF Unsettled
  <2>4. ASSUME NEW u \in Threads, 1 \in due[u] PROVE Unsettled'
    BY <2>1, <2>4 DEF Unsettled
  <2>5. ASSUME NEW u \in Threads, held[u] \in Deferred, held[u].node = 1 PROVE Unsettled'
    <3>1. CASE u = t
      BY <2>2, <2>5, <3>1 DEF Unsettled
    <3>2. CASE u # t
      <4>1. held'[u] = held[u]
        BY <1>1, <2>1, <3>2
      <4> QED
        BY <2>5, <4>1 DEF Unsettled
    <3> QED
      BY <3>1, <3>2
  <2> QED
    BY <2>1, <2>3, <2>4, <2>5 DEF Unsettled
<1>8. ASSUME NEW n \in Nodes, ThreadReads(t, n)
      PROVE  (Unsettled => Unsettled') /\ (Unsettled' \/ records'[1] = records[1])
  <2>1. /\ held[t] = Nothing /\ due' = [due EXCEPT ![t] = due[t] \ {n}]
        /\ held' = [held EXCEPT ![t] = Status(n, records[n], "deferred")] /\ UNCHANGED <<records, calls>>
    BY <1>8 DEF ThreadReads, loop
  <2>2. held'[t] \in Deferred /\ held'[t].node = n
    BY <1>1, <2>1, MessagesAreTyped DEF Status
  <2>3. ASSUME NEW u \in Threads, 1 \in due[u] PROVE Unsettled'
    <3>1. CASE u = t /\ n = 1
      BY <2>2, <3>1 DEF Unsettled
    <3>2. CASE ~(u = t /\ n = 1)
      <4>1. 1 \in due'[u]
        BY <1>1, <2>1, <2>3, <3>2
      <4> QED
        BY <4>1 DEF Unsettled
    <3> QED
      BY <3>1, <3>2
  <2>4. ASSUME NEW u \in Threads, held[u] \in Deferred, held[u].node = 1 PROVE Unsettled'
    <3>1. u # t
      BY <1>5, <2>1, <2>4
    <3>2. held'[u] = held[u]
      BY <1>1, <2>1, <3>1
    <3> QED
      BY <2>4, <3>2 DEF Unsettled
  <2> QED
    BY <2>1, <2>3, <2>4 DEF Unsettled
<1> QED
  BY <1>6, <1>7, <1>8

LEMMA NodeFollowedWithDeliver ==
  ASSUME StreamTyped, StreamTyped', NodeFollowed, Deliver
  PROVE  NodeFollowed'
<1> DEFINE m == Head(calls)
<1>1. /\ calls # <<>> /\ calls' = Tail(calls) /\ UNCHANGED <<records, due, held>>
      /\ UNCHANGED <<session, sends, wire, view, disputed>>
  BY DEF Deliver, loop, socket, store
<1>2. m \in Deferred
  BY <1>1 DEF StreamTyped
<1>3. Offer(m, m.node, m.v = records[m.node])
  BY DEF Deliver
<1>4. m = calls[1]
  BY <1>1 DEF StreamTyped
<1> HIDE DEF m
<1>5. m \in Messages /\ IsStatus(m)
  BY <1>2, MessagesAreTyped DEF Deferred, IsStatus
<1>6. CASE m.node = 1
  <2>1. Offer(m, 1, m.v = records[1]) /\ IsShowing(m) /\ (m.v = records[1]) \in BOOLEAN
    BY <1>3, <1>5, <1>6 DEF IsShowing
  <2> QED
    BY <1>1, <1>5, <2>1, NodeFollowedWithItsNews
<1>7. CASE m.node # 1
  <2>1. Unsettled => Unsettled'
    <3>1. ASSUME NEW i \in 1..Len(calls), calls[i].node = 1 PROVE Unsettled'
      <4>1. i # 1
        BY <1>4, <1>7, <3>1
      <4>2. i - 1 \in 1..Len(calls') /\ calls'[i - 1] = calls[i]
        BY <1>1, <4>1 DEF StreamTyped
      <4> QED
        BY <3>1, <4>2 DEF Unsettled
    <3> QED
      BY <1>1, <3>1 DEF Unsettled
  <2>2. ~IsShowing(m)
    BY <1>7 DEF IsShowing
  <2> QED
    BY <1>1, <1>3, <1>5, <1>7, <2>1, <2>2, NodeFollowedWithOtherNews
<1> QED
  BY <1>6, <1>7

LEMMA NodeFollowedWithChange ==
  ASSUME StreamTyped, StreamTyped', NodeFollowed, NEW n \in Nodes, ChangeStatus(n)
  PROVE  NodeFollowed'
<1> DEFINE m == Status(n, changes + 1, "event")
<1>1. m \in Messages
  <2>1. changes + 1 \in Nat
    BY DEF StreamTyped
  <2> QED
    BY <2>1, MessagesAreTyped
<1>2. IsStatus(m) /\ m.node = n /\ m.v = changes + 1
  BY DEF Status, IsStatus
<1>3. records' = [records EXCEPT ![n] = m.v]
  BY <1>2 DEF ChangeStatus
<1>4. /\ Offer(m, n, TRUE) /\ UNCHANGED threads
      /\ UNCHANGED <<session, sends, wire, view, disputed>>
  BY DEF ChangeStatus, socket, store
<1> HIDE DEF m
<1>5. 1 \in Nodes /\ records \in [Nodes -> Nat]
  BY PartsAreTyped DEF StreamTyped
<1>6. CASE n = 1
  <2>1. IsShowing(m) /\ records'[1] = m.v
    BY <1>2, <1>3, <1>5, <1>6 DEF IsShowing
  <2> QED
    BY <1>1, <1>4, <1>6, <2>1, NodeFollowedWithItsNews
<1>7. CASE n # 1
  <2>1. ~IsShowing(m) /\ records'[1] = records[1]
    BY <1>2, <1>3, <1>5, <1>7 DEF IsShowing
  <2> QED
    BY <1>1, <1>4, <1>7, <2>1, UnsettledKept, NodeFollowedWithOtherNews
<1> QED
  BY <1>6, <1>7

LEMMA NodeFollowedWithReceive ==
  ASSUME StreamTyped, StreamTyped', NodeFollowed, Receive
  PROVE  NodeFollowed'
<1> DEFINE m == Head(wire)
<1>1. m \in Messages
  BY DEF Receive, StreamTyped
<1>2. /\ view' = IF IsStatus(m) THEN [view EXCEPT ![m.node] = m.v] ELSE view
      /\ disputed' = IF IsStatus(m) THEN disputed \ {m.node}
                     ELSE IF Names(m) THEN disputed \ {0} ELSE disputed
      /\ UNCHANGED <<session, records, behind>> /\ UNCHANGED threads
  BY DEF Receive, engine, loop, server
<1> HIDE DEF m
<1>3. Shifted(OnTheWay, OnTheWay') /\ OnTheWay[1] = m
  BY ReceivingTakesTheFirst DEF m
<1>4. 1 \in 1..Len(OnTheWay)
  BY <1>3 DEF Shifted
<1>5. SUFFICES ASSUME IsSubscribed, 1 \notin behind, ~Unsettled PROVE NodeFollowed'
  BY <1>2, UnsettledKept, NodeFollowedAfter DEF IsSubscribed
<1>6. /\ StatusesEndWith(OnTheWay, records[1])
      /\ session \in {"snapshot", "serving"} /\ Showing(OnTheWay) = {} /\ 1 \notin disputed
           => view[1] = records[1]
  BY <1>5 DEF NodeFollowed
<1>7. /\ StatusesEndWith(OnTheWay', records[1])
      /\ Showing(OnTheWay') = {} /\ 1 \in Showing(OnTheWay) => m.v = records[1]
      /\ Showing(OnTheWay') = {} /\ 1 \notin Showing(OnTheWay) => Showing(OnTheWay) = {}
  BY <1>3, <1>6, LinesAreTyped, StatusesBehindTheFirst
<1>8. 1 \in Showing(OnTheWay) <=> IsShowing(m)
  BY <1>3, <1>4 DEF Showing
<1>9. 1 \in Nodes /\ view \in [Nodes -> Nat]
  BY PartsAreTyped DEF StreamTyped
<1>10. CASE IsShowing(m)
  <2>1. view'[1] = m.v
    BY <1>2, <1>9, <1>10 DEF IsShowing
  <2> QED
    BY <1>2, <1>7, <1>8, <1>10, <2>1, NodeFollowedAfter
<1>11. CASE ~IsShowing(m)
  <2>1. view'[1] = view[1]
    <3>1. CASE IsStatus(m)
      BY <1>2, <1>9, <1>11, <3>1 DEF IsShowing
    <3>2. CASE ~IsStatus(m)
      BY <1>2, <3>2
    <3> QED
      BY <3>1, <3>2
  <2>2. 1 \in disputed <=> 1 \in disputed'
    BY <1>2, <1>11 DEF IsShowing
  <2> QED
    BY <1>2, <1>6, <1>7, <1>8, <1>11, <2>1, <2>2, NodeFollowedAfter
<1> QED
  BY <1>10, <1>11

LEMMA NodeFollowedWithTheSession ==
  ASSUME StreamTyped, StreamTyped', Connected, NodeFollowed,
         HandleSubscribe \/ ReplySent \/ IssuesSent \/ StatusSent \/ Forward \/ EventSent
  PROVE  NodeFollowed'
<1>1. (Unsettled' <=> Unsettled) /\ UNCHANGED <<records, view, disputed>>
  <2>1. UNCHANGED threads /\ UNCHANGED <<records, view, disputed>>
    BY DEF HandleSubscribe, ReplySent, IssuesSent, StatusSent, Forward, EventSent, engine, loop, store
  <2> QED
    BY <2>1, UnsettledKept
<1>2. CASE HandleSubscribe
  <2>1. Run(current, "subscribed") \in Messages /\ ~IsShowing(Run(current, "subscribed"))
    BY <1>2, SubscribedIsOnTheWay DEF IsShowing, IsStatus, Run
  <2>2. Inserted(OnTheWay, OnTheWay', Len(wire) + Len(sends), Run(current, "subscribed"))
    BY <1>2, SubscribedIsOnTheWay
  <2>3. OnTheWay = <<>>
    BY <1>2, NothingOnTheWay DEF HandleSubscribe, Connected, SubscribedOnce, IsSubscribed
  <2>4. StatusesEndWith(OnTheWay, records[1])
    BY <2>3 DEF StatusesEndWith, Showing
  <2>5. StatusesEndWith(OnTheWay', records[1])
    BY <2>1, <2>2, <2>4, LinesAreTyped, StatusesWithAnother
  <2>6. session' \notin {"snapshot", "serving"}
    BY <1>2 DEF HandleSubscribe
  <2> QED
    BY <1>1, <2>5, <2>6, NodeFollowedAfter
<1>3. CASE IssuesSent
  <2>1. IsSubscribed /\ behind' = behind
    BY <1>3 DEF IssuesSent, IsSubscribed
  <2>2. PICK m \in Messages : /\ Inserted(OnTheWay, OnTheWay', Len(wire) + Len(sends), m)
                              /\ IsShowing(m) /\ m.v = records[1]
    BY <1>3, RepliesOnTheWay
  <2> SUFFICES ASSUME 1 \notin behind, ~Unsettled
               PROVE  StatusesEndWith(OnTheWay', records[1]) /\ Showing(OnTheWay') # {}
    BY <1>1, <2>1, NodeFollowedAfter
  <2>3. StatusesEndWith(OnTheWay, m.v)
    BY <2>1, <2>2 DEF NodeFollowed
  <2> QED
    BY <2>2, <2>3, LinesAreTyped, StatusesWithTheLatest
<1>4. CASE ReplySent \/ (StatusSent /\ todo # <<>>)
  <2>1. /\ IsSubscribed /\ behind' = behind /\ ~IssuesSent
        /\ session' \in {"snapshot", "serving"} => session \in {"snapshot", "serving"}
    BY <1>4 DEF ReplySent, StatusSent, IssuesSent, IsSubscribed
  <2>2. PICK m \in Messages : Inserted(OnTheWay, OnTheWay', Len(wire) + Len(sends), m) /\ ~IsShowing(m)
    BY <1>4, <2>1, RepliesOnTheWay
  <2> QED
    BY <1>1, <2>1, <2>2, LinesAreTyped, NodeFollowedWithAnother
<1>5. CASE (StatusSent /\ todo = <<>>) \/ Forward \/ EventSent
  <2>1. /\ behind' = behind /\ (IsSubscribed' => IsSubscribed)
        /\ session' \in {"snapshot", "serving"} => session \in {"snapshot", "serving"}
    BY <1>5 DEF StatusSent, Forward, EventSent, IsSubscribed
  <2>2. OnTheWay' = OnTheWay
    BY <1>5, LineKept
  <2> QED
    BY <1>1, <2>1, <2>2, NodeFollowedWithTheLine
<1> QED
  BY <1>2, <1>3, <1>4, <1>5

LEMMA NodeFollowedStep ==
  ASSUME StreamTyped, StreamTyped', Connected, NodeFollowed, [StreamNext]_streamVars
  PROVE  NodeFollowed'
<1>1. ASSUME NEW m \in Messages, ~IsStatus(m), Offer(m, 0, TRUE), UNCHANGED threads,
             UNCHANGED <<records, session, sends, wire, view, disputed>>
      PROVE  NodeFollowed'
  <2>1. (Unsettled => Unsettled') /\ ~IsShowing(m) /\ records'[1] = records[1] /\ 0 # 1
    BY <1>1, UnsettledKept DEF IsShowing
  <2>2. UNCHANGED <<session, sends, wire, view, disputed>>
    BY <1>1
  <2> QED
    BY <1>1, <2>1, <2>2, NodeFollowedWithOtherNews
<1>2. ASSUME NEW r \in 1..MaxNews, BeginRun(r) PROVE NodeFollowed'
  <2>1. r \in Nat
    BY EventStreamAssumption
  <2>2. Run(r, "started") \in Messages /\ ~IsStatus(Run(r, "started"))
    BY <2>1, MessagesAreTyped DEF IsStatus, Run
  <2>3. /\ Offer(Run(r, "started"), 0, TRUE) /\ UNCHANGED threads
        /\ UNCHANGED <<records, session, sends, wire, view, disputed>>
    BY <1>2 DEF BeginRun, socket, store
  <2> QED
    BY <1>1, <2>2, <2>3
<1>3. CASE FinishRun
  <2>1. current \in Nat
    BY DEF StreamTyped
  <2>2. Run(current, "finished") \in Messages /\ ~IsStatus(Run(current, "finished"))
    BY <2>1, MessagesAreTyped DEF IsStatus, Run
  <2>3. /\ Offer(Run(current, "finished"), 0, TRUE) /\ UNCHANGED threads
        /\ UNCHANGED <<records, session, sends, wire, view, disputed>>
    BY <1>3 DEF FinishRun, socket, store
  <2> QED
    BY <1>1, <2>2, <2>3
<1>4. CASE SocketOpens \/ SocketBreaks
  <2>1. ~IsSubscribed'
    BY <1>4 DEF SocketOpens, SocketBreaks, IsSubscribed
  <2> QED
    BY <2>1, NodeFollowedAfter
<1>5. ASSUME UNCHANGED <<queue, sends, wire, behind, records>>, UNCHANGED threads,
             session' = session \/ session' = "asked",
             1 \notin disputed' => 1 \notin disputed /\ view'[1] = view[1]
      PROVE  NodeFollowed'
  <2>1. OnTheWay' = OnTheWay
    BY <1>5, LineKept
  <2>2. /\ IsSubscribed' => IsSubscribed
        /\ session' \in {"snapshot", "serving"} => session \in {"snapshot", "serving"}
    BY <1>5 DEF IsSubscribed
  <2> QED
    BY <1>5, <2>1, <2>2, UnsettledKept, NodeFollowedWithTheLine
<1>6. ASSUME NEW f \in Functions, StatusServed(f) \/ StatusFails(f) PROVE NodeFollowed'
  <2>1. UNCHANGED <<queue, sends, wire, behind, records, view, disputed>> /\ UNCHANGED threads
    BY <1>6 DEF StatusServed, StatusFails, engine, loop, server, socket, store
  <2>2. session' = session \/ session' = "asked"
    BY <1>6 DEF StatusServed, StatusFails, Subscribe, server
  <2> QED
    BY <1>5, <2>1, <2>2
<1>7. ASSUME NEW a \in answers, StatusApplied(a) PROVE NodeFollowed'
  <2>1. UNCHANGED <<queue, sends, wire, behind, records>> /\ UNCHANGED threads
    BY <1>7 DEF StatusApplied, engine, loop
  <2>2. session' = session \/ session' = "asked"
    BY <1>7 DEF StatusApplied, Subscribe
  <2>3. 1 \notin disputed' => 1 \notin disputed /\ view'[1] = view[1]
    BY <1>7, PartsAreTyped DEF StatusApplied
  <2> QED
    BY <1>5, <2>1, <2>2, <2>3
<1>8. ASSUME NEW r \in 1..MaxNews, RunAccepted(r) PROVE NodeFollowed'
  <2>1. UNCHANGED <<queue, sends, wire, behind, records, session, view>> /\ UNCHANGED threads
    BY <1>8 DEF RunAccepted, engine, loop, server, socket
  <2>2. 1 \notin disputed' => 1 \notin disputed
    BY <1>8 DEF RunAccepted
  <2> QED
    BY <1>5, <2>1, <2>2
<1>9. CASE PostRun \/ UNCHANGED streamVars
  <2>1. UNCHANGED <<queue, sends, wire, behind, records, session, view, disputed>> /\ UNCHANGED threads
    BY <1>9 DEF PostRun, streamVars, engine, loop, server, socket, store
  <2> QED
    BY <1>5, <2>1
<1> QED
  BY <1>2, <1>3, <1>4, <1>6, <1>7, <1>8, <1>9, NodeFollowedWithChange, NodeFollowedWithTheThreads,
     NodeFollowedWithDeliver, NodeFollowedWithReceive, NodeFollowedWithTheSession DEF StreamNext

-----------------------------------------------------------------------------
(* EventStream: the theorems *)

StreamInv == EventsInv /\ Connected /\ RunFollowed /\ NodeFollowed

LEMMA StreamInvAlways == StreamSpec => []StreamInv
<1>1. StreamInit => StreamInv
  <2>1. StreamInit => ~IsSubscribed
    BY DEF StreamInit, IsSubscribed
  <2> QED
    BY <2>1, EventsInit, ConnectedInit DEF StreamInv, RunFollowed, NodeFollowed
<1>2. StreamInv /\ [StreamNext]_streamVars => StreamInv'
  <2> SUFFICES ASSUME StreamInv, [StreamNext]_streamVars PROVE StreamInv'
    OBVIOUS
  <2>1. EventsInv' /\ StreamTyped /\ StreamTyped'
    BY EventsInvStep DEF StreamInv, EventsInv
  <2> QED
    BY <2>1, ConnectedStep, RunFollowedStep, NodeFollowedStep DEF StreamInv
<1> QED
  BY <1>1, <1>2, PTL DEF StreamSpec

\* Every variable of the event stream keeps its type.
THEOREM StreamTypeCorrect == StreamSpec => []StreamTyped
BY StreamInvAlways, PTL DEF StreamInv, EventsInv

\* EventBus.publish, WsSession._forward and WsSession.send: whoever holds the send lock,
\* however the snapshot is mixed in and whatever threads publish, no event on its way is
\* ahead of an older one of the loop.
THEOREM EventsInOrderAlways == StreamSpec => []EventsInOrder
<1>1. StreamInv => EventsInOrder
  <2> SUFFICES ASSUME StreamInv PROVE EventsInOrder
    OBVIOUS
  <2>1. OnTheWay \in Seq(Messages) /\ Ordered(OnTheWay)
    BY LineIsTyped DEF StreamInv, EventsInv
  <2>2. DOMAIN OnTheWay = 1..Len(OnTheWay)
    BY <2>1
  <2> QED
    BY <2>1, <2>2 DEF EventsInOrder, Ordered, IsEvent
<1> QED
  BY <1>1, StreamInvAlways, PTL

\* What holds of any number of nodes: the snapshot's first status is taken and queued in
\* one step, so no event of its node comes between.
FirstNodeIsCurrent == Quiet => \A part \in {0, 1} \ (behind \cup disputed) : IsCurrent(part)

\* session.ts and execution.ts: over any number of losses, reconnects and answered GETs
\* and POSTs, and however threads publish, when every message has been received the canvas
\* shows the run in progress, and the first node as the engine has it, unless its latest
\* news was not given last or an answer over HTTP came after the socket's last word.
THEOREM FirstNodeIsCurrentAlways == StreamSpec => []FirstNodeIsCurrent
<1>1. StreamInv => FirstNodeIsCurrent
  <2> SUFFICES ASSUME StreamInv, Quiet
               PROVE  \A part \in {0, 1} \ (behind \cup disputed) : IsCurrent(part)
    BY DEF FirstNodeIsCurrent
  <2>1. OnTheWay = <<>>
    BY NothingOnTheWay DEF StreamInv, EventsInv, Quiet
  <2>2. Showing(OnTheWay) = {} /\ Naming(OnTheWay) = {}
    BY <2>1 DEF Showing, Naming
  <2>3. IsSubscribed /\ session \in {"snapshot", "serving"}
    BY DEF Quiet, IsSubscribed
  <2>4. ASSUME 1 \notin behind, 1 \notin disputed PROVE view[1] = records[1]
    <3>1. ~Unsettled
      BY DEF Quiet, Unsettled, Nothing, Deferred
    <3> QED
      BY <2>2, <2>3, <2>4, <3>1 DEF StreamInv, NodeFollowed
  <2>5. ASSUME 0 \notin behind, 0 \notin disputed PROVE shown = current
    <3>1. PICK s : (0 \notin disputed => s = shown) /\ RunsFollow(OnTheWay, s, current)
      BY <2>3, <2>5 DEF StreamInv, RunFollowed
    <3>2. RunAt(OnTheWay, s, 0) = current
      BY <2>2, <3>1 DEF RunsFollow
    <3> QED
      BY <2>5, <3>1, <3>2 DEF RunAt
  <2> QED
    BY <2>4, <2>5 DEF IsCurrent
<1> QED
  BY <1>1, StreamInvAlways, PTL

\* With a single node the canvas shows all of it (of several nodes one may be overtaken:
\* ViewIsCurrent).
THEOREM ViewIsCurrentAlways ==
  ASSUME NumNodes = 1
  PROVE  StreamSpec => []ViewIsCurrent
<1>1. FirstNodeIsCurrent => ViewIsCurrent
  <2>1. Parts = {0, 1}
    BY DEF Parts
  <2> QED
    BY <2>1 DEF FirstNodeIsCurrent, ViewIsCurrent
<1> QED
  BY <1>1, FirstNodeIsCurrentAlways, PTL
=============================================================================
