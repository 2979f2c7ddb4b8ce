------------------------------ MODULE RunQueue ------------------------------
(***************************************************************************)
(* What the scheduler promises about its runs, seen from outside: requests *)
(* wait in one line, begin strictly in the order they were made, one at a  *)
(* time, and an explicit request is never lost.  Only an auto-run may be   *)
(* withdrawn before it began, and at most one of them waits.               *)
(***************************************************************************)
EXTENDS Sequences, SequencesExt

CONSTANT Targets   \* what a request may name

VARIABLES waiting, \* requests not yet begun, oldest first
          holder   \* the kind of the run in progress, if any

rqvars == <<waiting, holder>>

Init == waiting = <<>> /\ holder = "none"

AskExplicit(t) ==
  /\ waiting' = Append(waiting, [auto |-> FALSE, targets |-> t])
  /\ UNCHANGED holder

AskAuto ==
  /\ \A i \in DOMAIN waiting : ~waiting[i].auto
  /\ waiting' = Append(waiting, [auto |-> TRUE, targets |-> {}])
  /\ UNCHANGED holder

WithdrawAuto ==
  /\ \E i \in DOMAIN waiting : waiting[i].auto /\ waiting' = RemoveAt(waiting, i)
  /\ UNCHANGED holder

Begin ==
  /\ holder = "none"
  /\ waiting # <<>>
  /\ holder' = IF Head(waiting).auto THEN "auto" ELSE "explicit"
  /\ waiting' = Tail(waiting)

End ==
  /\ holder # "none"
  /\ holder' = "none"
  /\ UNCHANGED waiting

Next == \/ \E t \in Targets : AskExplicit(t)
        \/ AskAuto \/ WithdrawAuto \/ Begin \/ End

Spec == Init /\ [][Next]_rqvars
FairSpec == Spec /\ WF_rqvars(Begin) /\ WF_rqvars(End)
=============================================================================
