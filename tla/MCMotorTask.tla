---------------------------- MODULE MCMotorTask ----------------------------
(* An instance of MotorTask for TLC: integration switched on and off. *)
EXTENDS MotorTask

const_Impls  == {"C", "Zig", "Rust"}
const_Params == {[target |-> 1, factor |-> 1, ti |-> 1, low |-> 1, td |-> 0],
                 [target |-> 1, factor |-> 1, ti |-> 2, low |-> 0, td |-> 1]}
=============================================================================
