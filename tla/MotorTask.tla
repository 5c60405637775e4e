----------------------------- MODULE MotorTask -----------------------------
(***************************************************************************)
(* The motor controller of scenario 3-pid on the ESP32 (c/3-pid-bm,        *)
(* zig/3-pid-bm, rust/3-pid-bm) among what runs beside it: the interrupt   *)
(* of the timer, which wakes the controller's task by a notification, and  *)
(* the task of the Modbus stack on the other core, which writes the        *)
(* holding registers a word at a time while the controller reads them      *)
(* without a lock.  How revolutions are counted is in Controller, from     *)
(* which this differs in nothing; the frequency is any here.               *)
(* FreeRTOS, esp-modbus, gptimer, the ADC and the PWM are external.        *)
(***************************************************************************)
EXTENDS Pid, Sequences

CONSTANTS
  Impls,            \* the implementations: subset of {"C", "Zig", "Rust"}
  ReadsPerBin,      \* reads_per_bin (100)
  ControlFrequency, \* control_frequency (10)
  ItersPerReport,   \* CONTROL_ITERS_PER_PERF_REPORT (10), C only
  Params,           \* the parameters clients write
  MaxWrites         \* bound: requests that write the holding registers

\* `low` is the low half of the integration time: 0, or 1 for any other.
ParamSet == [target : Float, factor : Float, ti : Float, low : {0, 1}, td : Float]

ASSUME MotorTaskAssumption ==
  /\ Impls \subseteq {"C", "Zig", "Rust"}
  /\ ReadsPerBin \in Nat \ {0} /\ ControlFrequency \in Nat \ {0}
  /\ ItersPerReport \in 1..(2 * ControlFrequency)
  /\ Params \subseteq ParamSet
  /\ MaxWrites \in Nat

\* The words of the holding registers; of the floats of which the class does not
\* depend on how halves mix, both words in one.
WordOrder == <<"target_frequency", "proportional_factor", "integration_high",
               "integration_low", "differentiation_time">>
Words == {WordOrder[i] : i \in 1..5}

Unread == -1

VARIABLES
  impl,          \* which implementation runs; it never changes
  pc,            \* where the task is: "wait", "params", "report", "panicked"
  notified,      \* whether the notification value of the task is not 0
  readNo,        \* reads of the current bin so far
  controlNo,     \* control phases since the last report
  perfRead,      \* samples in the READ performance counter
  perfControl,   \* samples in the CONTROL performance counter
  holding,       \* for each word the request it was written by, 0 for the first value
  sent,          \* the parameters of the requests so far
  written,       \* how many words of the last request are written: 5 when all are
  got,           \* the words read by the current or the last control phase
  asOf,          \* the last request completed when that control phase began
  feedback,      \* state.feedback
  signal         \* input registers: the control signal

loop == <<pc, readNo, controlNo, perfRead, perfControl>>
registers == <<holding, sent, written>>
outputs == <<feedback, signal>>
vars == <<impl, loop, notified, registers, got, asOf, outputs>>

Iterations == IF impl = "C" THEN ItersPerReport ELSE ControlFrequency

PerfReadCapacity ==
  (IF impl = "Zig" THEN 1 ELSE 2) * ReadsPerBin * ControlFrequency
PerfControlCapacity == (IF impl = "Zig" THEN 1 ELSE 2) * ControlFrequency

\* add_sample: a sample that finds the counter full is dropped.
Sampled(length, capacity) == IF length < capacity THEN length + 1 ELSE length

-----------------------------------------------------------------------------
(* The Modbus stack and the timer *)

Request(n) ==
  IF n = 0 THEN [target |-> 0, factor |-> 0, ti |-> 2, low |-> 0, td |-> 0]
  ELSE sent[n]

ReceiveWrite(p) ==
  /\ written = 5
  /\ Len(sent) < MaxWrites
  /\ sent' = Append(sent, p)
  /\ written' = 0
  /\ UNCHANGED <<impl, loop, notified, holding, got, asOf, outputs>>

\* The stack writes the words in the order of their addresses; a float has its
\* high half first (FloatCDAB).
WriteWord ==
  /\ written < 5
  /\ written' = written + 1
  /\ holding' = [holding EXCEPT ![WordOrder[written']] = Len(sent)]
  /\ UNCHANGED <<impl, loop, notified, sent, got, asOf, outputs>>

\* The interrupt adds one to the notification value (the notifier of esp-idf-hal,
\* in Rust, sets a bit of it); the task takes all of it at once, so alarms that
\* come before it does lead to a single read phase.
OnTimerFired ==
  /\ pc # "panicked"
  /\ ~notified
  /\ notified' = TRUE
  /\ UNCHANGED <<impl, loop, registers, got, asOf, outputs>>

-----------------------------------------------------------------------------
(* The task of the controller *)

\* Faulty variant for UsesFreshParams and ParamsTakeEffect: the parameters are
\* read once.
NoneReadTwice == IF got["target_frequency"] = Unread
                 THEN [w \in Words |-> Unread] ELSE got

NoneRead == [w \in Words |-> Unread]

\* Faulty variant for TypeOK: the count of reads never starts anew.
NextReadUnwrapped == readNo + 1

NextRead == (readNo + 1) % ReadsPerBin

\* A notification is taken, with all that came since the last, and a read phase
\* follows, whose failure changes nothing here; after the last read of the bin
\* the control phase begins.
Read ==
  /\ pc = "wait"
  /\ notified
  /\ notified' = FALSE
  /\ perfRead' = Sampled(perfRead, PerfReadCapacity)
  /\ readNo' = NextRead
  /\ IF readNo' = 0
     THEN /\ pc' = "params"
          /\ got' = NoneRead
          /\ asOf' = IF written = 5 THEN Len(sent) ELSE Len(sent) - 1
     ELSE UNCHANGED <<pc, got, asOf>>
  /\ UNCHANGED <<impl, controlNo, perfControl, registers, outputs>>

\* The compiler is free to read the words in any order.
ReadParam(w) ==
  /\ pc = "params"
  /\ got[w] = Unread
  /\ got' = [got EXCEPT ![w] = holding[w]]
  /\ UNCHANGED <<impl, loop, notified, registers, asOf, outputs>>

\* The integration time made of halves of two requests: the high half tells
\* infinity, zero and numbers apart, the low half infinity from NaN.
IntegrationTime ==
  LET high == Request(got["integration_high"]).ti
      low  == Request(got["integration_low"]).low
  IN IF low = 0 THEN high
     ELSE IF high \in {-2, 2} THEN NaN
     ELSE IF high = 0 THEN 1
     ELSE high

ParamsRead ==
  [target |-> Request(got["target_frequency"]).target,
   factor |-> Request(got["proportional_factor"]).factor,
   ti     |-> IntegrationTime,
   td     |-> Request(got["differentiation_time"]).td]

\* The loops around the control phase.
ControlEnds ==
  /\ pc = "params"
  /\ \A w \in Words : got[w] # Unread
  /\ controlNo' = controlNo + 1
  /\ perfControl' = Sampled(perfControl, PerfControlCapacity)
  /\ pc' = IF controlNo' = Iterations THEN "report" ELSE "wait"
  /\ UNCHANGED <<impl, notified, readNo, perfRead, registers, got, asOf>>

Controls == UNION {RawControl(ParamsRead, frequency, feedback) : frequency \in {0, 1}}

\* Faulty variant for RecoversFromTornParams: finite_or_zero is left out.
ShowThenDriveUnsanitised ==
  /\ impl # "Zig"
  /\ ControlEnds
  /\ \E control \in Controls :
       /\ signal' \in Limited(control.signal)
       /\ feedback' = [delta |-> control.delta, integ |-> control.integ]

\* C and Rust: the registers are written, then the duty cycle is set; when that
\* fails, feedback keeps its value.  A NaN becomes some duty cycle.
ShowThenDrive ==
  /\ impl # "Zig"
  /\ ControlEnds
  /\ \E control \in Controls :
       /\ signal' \in Limited(control.signal)
       /\ feedback' \in {Sanitised(control), feedback}

\* Zig: the duty cycle is set first, and when that fails nothing else changes;
\* feedback is stored as it is.
DriveThenShow ==
  /\ impl = "Zig"
  /\ ControlEnds
  /\ \/ \E control \in Controls :
          /\ signal' \in Limited(control.signal)
          /\ feedback' = [delta |-> control.delta, integ |-> control.integ]
     \/ UNCHANGED outputs

\* Zig, built for debugging: @intFromFloat panics on NaN, and the chip restarts.
DrivePanics ==
  /\ impl = "Zig"
  /\ pc = "params"
  /\ \A w \in Words : got[w] # Unread
  /\ \E control \in Controls : NaN \in Limited(control.signal)
  /\ pc' = "panicked"
  /\ UNCHANGED <<impl, notified, readNo, controlNo, perfRead, perfControl, registers,
                 got, asOf, outputs>>

\* Rust and Zig, built for debugging: add_sample panics when the cycle counter, of
\* 32 bits, wraps between the two readings of a measure that has just ended.
MeasurePanics ==
  /\ impl # "C"
  /\ pc # "panicked"
  /\ perfRead > 0
  /\ pc = "params" => got = [w \in Words |-> Unread]
  /\ pc' = "panicked"
  /\ UNCHANGED <<impl, notified, readNo, controlNo, perfRead, perfControl, registers,
                 got, asOf, outputs>>

\* Faulty variant for NoSampleDropped: one of the counters is not reset.
ReportForgetsControl ==
  /\ pc = "report"
  /\ pc' = "wait"
  /\ controlNo' = 0
  /\ perfRead' = 0
  /\ UNCHANGED <<perfControl, impl, notified, readNo, registers, got, asOf, outputs>>

Report ==
  /\ pc = "report"
  /\ pc' = "wait"
  /\ controlNo' = 0
  /\ perfRead' = 0
  /\ perfControl' = 0
  /\ UNCHANGED <<impl, notified, readNo, registers, got, asOf, outputs>>

-----------------------------------------------------------------------------
(* The whole *)

Init ==
  /\ impl \in Impls
  /\ pc = "wait"
  /\ notified = FALSE
  /\ readNo = 0
  /\ controlNo = 0
  /\ perfRead = 0
  /\ perfControl = 0
  /\ holding = [w \in Words |-> 0]
  /\ sent = <<>>
  /\ written = 5
  /\ got = [w \in Words |-> Unread]
  /\ asOf = 0
  /\ feedback = [delta |-> 0, integ |-> 0]
  /\ signal = 0

ControllerLoop ==
  \/ Read
  \/ \E w \in Words : ReadParam(w)
  \/ ShowThenDrive
  \/ DriveThenShow
  \/ DrivePanics
  \/ MeasurePanics
  \/ Report

Next ==
  \/ ControllerLoop
  \/ OnTimerFired
  \/ \E p \in Params : ReceiveWrite(p)
  \/ WriteWord

Spec == Init /\ [][Next]_vars

\* The task has the highest priority of its core, the timer reloads itself, and
\* the stack goes through with a request it has begun.
FairSpec ==
  /\ Spec
  /\ WF_vars(ControllerLoop)
  /\ WF_vars(OnTimerFired)
  /\ WF_vars(WriteWord)

-----------------------------------------------------------------------------
(* Properties *)

\* The variables keep their types: counts within a bin and a report, words from
\* requests that were sent.
TypeOK ==
  /\ impl \in Impls
  /\ pc \in {"wait", "params", "report", "panicked"}
  /\ notified \in BOOLEAN
  /\ readNo \in 0..(ReadsPerBin - 1)
  /\ controlNo \in 0..Iterations
  /\ perfRead \in 0..PerfReadCapacity /\ perfControl \in 0..PerfControlCapacity
  /\ sent \in Seq(Params) /\ Len(sent) <= MaxWrites
  /\ holding \in [Words -> 0..Len(sent)]
  /\ written \in 0..5
  /\ got \in [Words -> (0..Len(sent)) \cup {Unread}]
  /\ asOf \in 0..Len(sent)
  /\ feedback \in [delta : Float, integ : Float]
  /\ signal \in Float

\* Without a lock a control phase may mix words of requests under way, but no
\* word is older than the last request completed before the phase began: the
\* registers are regular.
UsesFreshParams == \A w \in Words : got[w] = Unread \/ got[w] >= asOf

\* No performance sample is dropped, whichever way the capacity and the length
\* of a report are chosen (Zig has no room to spare).
NoSampleDropped ==
  /\ pc = "wait" => perfRead < PerfReadCapacity
  /\ pc = "params" => perfControl < PerfControlCapacity

Complete == \A v, w \in Words : got[v] = got[w]

Sane(p) == /\ IsFinite(p.target) /\ IsFinite(p.factor) /\ IsFinite(p.td)
           /\ p.ti \in {1, 2}

\* Words of two requests can make an integration time that is not a number.  A
\* control phase that reads one whole request shows a number again, whatever
\* NaN or infinity the phases before it had read (in C and Rust; Zig keeps a NaN
\* in feedback), as long as sums and products of finite numbers stay finite: a
\* finite target so huge that they do not is outside what this says.
RecoversFromTornParams ==
  [][pc = "params" /\ pc' \in {"wait", "report"} /\ impl # "Zig"
     /\ Complete /\ Sane(ParamsRead)
       => signal' # NaN]_vars

InForce(n) == pc # "params" /\ \A w \in Words : got[w] = n

\* What a client wrote is what the motor is controlled by soon, unless another
\* request comes or a panic restarts the chip.
ParamsTakeEffect ==
  \A n \in 0..MaxWrites :
    (Len(sent) = n /\ written = 5) ~> (Len(sent) > n \/ InForce(n) \/ pc = "panicked")
=============================================================================
