-------------------------- MODULE RevolutionWindow --------------------------
(***************************************************************************)
(* What the controllers promise about the rotation frequency: revolutions  *)
(* are counted in a sliding window of time_window_bins bins, the last of   *)
(* which is the current one, and each time the window moves on, the total  *)
(* it held is what is reported.                                            *)
(***************************************************************************)
EXTENDS Integers, Sequences, Functions

CONSTANT TimeWindowBins

VARIABLES
  window,     \* the counts, oldest bin first
  reported,   \* the total last reported
  mayLose     \* whether a total may go unreported; it never changes

Total(w) == FoldFunction(LAMBDA x, y : x + y, 0, w)

\* One read counts at most one revolution, in the current bin.
Read == {window, [window EXCEPT ![TimeWindowBins] = @ + 1]}

Moved(w) == Append(Tail(w), 0)

Init ==
  /\ window = [k \in 1..TimeWindowBins |-> 0]
  /\ reported = 0
  /\ mayLose \in BOOLEAN

Count ==
  /\ window' \in Read
  /\ UNCHANGED reported

Move ==
  \E w \in Read :
    /\ window' = Moved(w)
    /\ reported' = Total(w)

\* The window moves on but the total is not reported.
MoveUnreported ==
  /\ \E w \in Read : window' = Moved(w)
  /\ UNCHANGED reported

Next ==
  /\ Count \/ Move \/ (mayLose /\ MoveUnreported)
  /\ UNCHANGED mayLose

vars == <<window, reported, mayLose>>

Spec == Init /\ [][Next]_vars
=============================================================================
