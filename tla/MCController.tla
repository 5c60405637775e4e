---------------------------- MODULE MCController ----------------------------
(* An instance of Controller for TLC. *)
EXTENDS Controller

const_Impls      == {"C", "Zig", "Rust", "Tune"}
const_Readings   == {0, 1, -1}
const_Thresholds == [close |-> 1, far |-> 0]

\* Thresholds as they should be, and two that overlap: level 0 is only close, 1 both.
const_TuneParams ==
  {[signal |-> 1,  close |-> 1, far |-> 0],
   [signal |-> -1, close |-> 2, far |-> 0]}

\* Parameters the formula is meant for, and some it cannot take.
const_Params ==
  {[target |-> 1,   factor |-> 1,  ti |-> 1,   td |-> 0],
   [target |-> 1,   factor |-> 1,  ti |-> 0,   td |-> 0],
   [target |-> NaN, factor |-> 1,  ti |-> 2,   td |-> 0],
   [target |-> 0,   factor |-> -1, ti |-> 2,   td |-> 1],
   [target |-> 1,   factor |-> 2,  ti |-> NaN, td |-> 1]}
=============================================================================
