-------------------------------- MODULE Batch --------------------------------
(***************************************************************************)
(* One batch of the batch runner                                           *)
(* (backend/src/astro_canvas/engine/batch.py): a workflow run once per row *)
(* of a table, `Workers` rows at a time, by one scheduler per row.  What   *)
(* happens inside a scheduler is Scheduler's business: here a run computes *)
(* until it is over, is cancelled or has taken too long.                   *)
(***************************************************************************)
EXTENDS Integers, Sequences, FiniteSets

CONSTANTS
  NumRows,       \* rows of the table
  Workers        \* rows in flight

Rows == 1..NumRows
ASSUME BatchAssumption ==
  NumRows \in Nat \ {0} /\ Workers \in Nat \ {0}

VARIABLES
  continueOnError, \* spec.continue_on_error, as the batch was submitted
  state,    \* BatchRowRecord.state
  phase,    \* where the coroutine of each row is
  failed,   \* a node of the row's scheduler ended in error
  stopped,  \* the row's scheduler was cancelled
  abort,    \* BatchRun.abort
  status,   \* BatchRun.status
  told,     \* the state in the last batch.row event of each row
  finished, \* the status in batch.finished, once published
  cancelled \* observer: the user cancelled

vars == <<continueOnError, state, phase, failed, stopped, abort, status, told,
          finished, cancelled>>
given == <<continueOnError, cancelled>>

Final == {"done", "error", "cancelled"}
InScheduler == {"computing", "returning"}

\* A plausible bug: a failed row keeps its slot.
InFlightOrFailed ==
  {r \in Rows : phase[r] \in InScheduler \cup {"closing"} \/ state[r] = "error"}

InFlight == {r \in Rows : phase[r] \in InScheduler \cup {"closing"}}

Init ==
  /\ continueOnError \in BOOLEAN /\ cancelled = FALSE
  /\ state = [r \in Rows |-> "pending"] /\ phase = [r \in Rows |-> "queued"]
  /\ failed = [r \in Rows |-> FALSE] /\ stopped = [r \in Rows |-> FALSE]
  /\ abort = FALSE /\ status = "running"
  /\ told = [r \in Rows |-> "pending"] /\ finished = "none"

\* Types; a row is in flight in at most `Workers` slots, and its record says so.
TypeOK ==
  /\ state \in [Rows -> Final \cup {"pending", "running"}]
  /\ phase \in [Rows -> InScheduler \cup {"queued", "closing", "ended"}]
  /\ failed \in [Rows -> BOOLEAN] /\ stopped \in [Rows -> BOOLEAN]
  /\ {continueOnError, cancelled, abort} \subseteq BOOLEAN
  /\ status \in Final \cup {"running"} /\ finished \in Final \cup {"none"}
  /\ told \in [Rows -> Final \cup {"pending", "running"}]
  /\ Cardinality(InFlight) <= Workers
  /\ \A r \in Rows : /\ state[r] = "pending" <=> phase[r] = "queued"
                     /\ state[r] = "running" <=> phase[r] \in InScheduler

Goto(r, there) == phase' = [phase EXCEPT ![r] = there]
Becomes(r, s) == state' = [state EXCEPT ![r] = s]

\* The semaphore hands its slots out in the order of the rows.
Slot(r) ==
  /\ phase[r] = "queued" /\ Cardinality(InFlight) < Workers
  /\ \A q \in Rows : q < r => phase[q] # "queued"

\* A queued row of an aborted batch is cancelled without a scheduler.
SkipRow(r) ==
  /\ Slot(r) /\ abort
  /\ Goto(r, "ended") /\ Becomes(r, "cancelled")
  /\ told' = [told EXCEPT ![r] = "cancelled"]
  /\ UNCHANGED <<given, failed, stopped, abort, status, finished>>

\* A plausible bug: the row does not look at abort.
StartAnyRow(r) ==
  /\ Slot(r)
  /\ Goto(r, "computing") /\ Becomes(r, "running")
  /\ told' = [told EXCEPT ![r] = "running"]
  /\ UNCHANGED <<given, failed, stopped, abort, status, finished>>

StartRow(r) ==
  /\ Slot(r) /\ ~abort
  /\ Goto(r, "computing") /\ Becomes(r, "running")
  /\ told' = [told EXCEPT ![r] = "running"]
  /\ UNCHANGED <<given, failed, stopped, abort, status, finished>>

(***************************************************************************)
(* The row's scheduler.                                                    *)
(***************************************************************************)
\* The row's nodes are done, or one of them failed.
Compute(r) ==
  /\ phase[r] = "computing" /\ ~stopped[r]
  /\ Goto(r, "returning")
  /\ \E fails \in BOOLEAN : failed' = [failed EXCEPT ![r] = fails]
  /\ UNCHANGED <<given, state, stopped, abort, status, told, finished>>

\* A cancelled run stops where it is.
StopRun(r) ==
  /\ phase[r] = "computing" /\ stopped[r]
  /\ Goto(r, "returning")
  /\ UNCHANGED <<given, state, failed, stopped, abort, status, told, finished>>

\* run_timeout_s: the run is stopped and the row has no outputs.
RunTimesOut(r) ==
  /\ phase[r] = "computing" /\ ~stopped[r]
  /\ Goto(r, "returning")
  /\ failed' = [failed EXCEPT ![r] = TRUE]
  /\ UNCHANGED <<given, state, stopped, abort, status, told, finished>>

(***************************************************************************)
(* The rest of the row.                                                    *)
(***************************************************************************)
\* A run that was stopped has no outputs, which would be an error too.
Outcome(r) ==
  IF abort THEN "cancelled" ELSE IF failed[r] THEN "error" ELSE "done"

\* scheduler.run has returned: the record is set before scheduler.close().
RunReturned(r) ==
  /\ phase[r] = "returning"
  /\ Becomes(r, Outcome(r))
  /\ Goto(r, "closing")
  /\ UNCHANGED <<given, failed, stopped, abort, status, told, finished>>

\* A plausible bug: a failed row aborts the batch only if it is the first in flight.
AbortsIfAlone(r) ==
  ~continueOnError /\ state[r] = "error" /\ InFlight = {r}

\* A plausible bug: continue_on_error is not looked at.
AbortsAlways(r) == state[r] = "error"

Aborts(r) == ~continueOnError /\ state[r] = "error"

\* scheduler.close() is over: the row is reported, and may abort the batch.
RowEnded(r) ==
  /\ phase[r] = "closing"
  /\ Goto(r, "ended")
  /\ told' = [told EXCEPT ![r] = state[r]]
  /\ abort' = (abort \/ Aborts(r))
  /\ UNCHANGED <<given, state, failed, stopped, status, finished>>

(***************************************************************************)
(* The batch.                                                              *)
(***************************************************************************)
\* cancel: no row starts any more, the rows in flight are told to stop.
Cancel ==
  /\ status = "running"
  /\ abort' = TRUE /\ cancelled' = TRUE
  /\ stopped' = [r \in Rows |-> stopped[r] \/ phase[r] \in InScheduler]
  /\ UNCHANGED <<continueOnError, state, phase, failed, status, told, finished>>

\* A plausible bug: the abort flag does not count, only the rows do.
StatusOfRows ==
  IF \E r \in Rows : state[r] = "error" THEN "error"
  ELSE IF \E r \in Rows : state[r] = "cancelled" THEN "cancelled" ELSE "done"

FinalStatus ==
  IF abort \/ \E r \in Rows : state[r] = "cancelled" THEN "cancelled"
  ELSE IF \E r \in Rows : state[r] = "error" THEN "error" ELSE "done"

Finish ==
  /\ status = "running" /\ \A r \in Rows : phase[r] = "ended"
  /\ status' = FinalStatus /\ finished' = FinalStatus
  /\ UNCHANGED <<given, state, phase, failed, stopped, abort, told>>

RowStep(r) ==
  \/ SkipRow(r) \/ StartRow(r)
  \/ Compute(r) \/ StopRun(r) \/ RunTimesOut(r)
  \/ RunReturned(r) \/ RowEnded(r)

Next == (\E r \in Rows : RowStep(r)) \/ Cancel \/ Finish

Spec == Init /\ [][Next]_vars

\* The event loop serves every row; nodes return (a run times out otherwise).
FairSpec == Spec /\ (\A r \in Rows : WF_vars(RowStep(r))) /\ WF_vars(Finish)

(***************************************************************************)
(* Properties.                                                             *)
(***************************************************************************)
\* Once the batch is cancelled, no row becomes "done" or starts running any more:
\* also a row whose run had just ended, and one that was next in line.
NothingSucceedsAfterCancel ==
  [][abort => \A r \in Rows : state'[r] # state[r] => state'[r] = "cancelled"]_vars

\* With continue_on_error false, a row reported as failed stops the rest: when the
\* event is out, no other row starts.
FailureStopsTheRest ==
  [][~continueOnError /\ (\E r \in Rows : told[r] = "error") =>
       \A q \in Rows : state[q] = "pending" => state'[q] # "running"]_vars

\* batch.finished comes after the last batch.row of every row, each of which has
\* been told its final state; "done" means all rows are, and "cancelled" that the
\* batch was aborted.  With continue_on_error and no cancel a failing row does not
\* stop the others: each ends with its own outcome, and the status says whether one failed.
FinishedIsLast ==
  finished # "none" =>
    /\ told = state /\ \A r \in Rows : state[r] \in Final
    /\ finished = status
    /\ finished = "done" => \A r \in Rows : state[r] = "done"
    /\ finished = "cancelled" <=> abort
    /\ continueOnError /\ ~cancelled =>
         /\ \A r \in Rows : state[r] = IF failed[r] THEN "error" ELSE "done"
         /\ finished = "error" <=> \E r \in Rows : failed[r]

\* A batch ends, cancelled or not.
BatchEnds == <>(finished # "none")
=============================================================================
