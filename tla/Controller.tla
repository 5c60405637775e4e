----------------------------- MODULE Controller -----------------------------
(***************************************************************************)
(* The motor controller of scenario 3-pid on Linux, in its three           *)
(* implementations (c/3-pid, zig/3-pid, rust/3-pid): at each tick of the   *)
(* timer the read phase counts revolutions of the motor in a ring of bins, *)
(* and once per bin the control phase computes the frequency, moves the    *)
(* window on, and turns the PID formula into a duty cycle.  They differ    *)
(* in what they do first and in what they do when something is wrong.      *)
(* The controller of 0-tune (rust/0-tune-bm), "Tune", counts alike, but    *)
(* with thresholds that clients set, drives the motor by the signal they   *)
(* ask for, and shows the range of the last readings.                      *)
(* pigpio, pwm (Zig), rppal, esp-idf-hal and ringbuffer are external.      *)
(***************************************************************************)
EXTENDS Pid, FiniteSets, FiniteSetsExt, Functions, Sequences

CONSTANTS
  TimeWindowBins,    \* bins of the time window (10)
  ReadsPerBin,       \* reads_per_bin (100)
  ControlFrequency,  \* control phases per report (10)
  Params,            \* the parameters clients write to the holding registers
  TuneParams,        \* the same for Tune: a control signal and two thresholds
  Thresholds,        \* revolution_threshold_close and _far
  AdcReadings,       \* what read_adc yields: levels, or Failed
  Impls,             \* the implementations: subset of {"C", "Zig", "Rust", "Tune"}
  MaxExpirations     \* bound: timer expirations the kernel has queued

\* The ADC of the ESP32 yields 9 bits, that of the Raspberry Pi 8.
AdcMax == 511
Failed == -1
Levels == AdcReadings \ {Failed}
ThresholdPair == [close : Int, far : Int]

ASSUME ControllerAssumption ==
  /\ TimeWindowBins \in Nat \ {0}
  /\ ReadsPerBin \in Nat \ {0}
  /\ ControlFrequency \in Nat \ {0}
  /\ MaxExpirations \in Nat \ {0}
  /\ AdcReadings \subseteq 0..AdcMax \cup {Failed}
  /\ Impls \subseteq {"C", "Zig", "Rust", "Tune"}
  /\ Params \subseteq [target : Float, factor : Float, ti : Float, td : Float]
  /\ TuneParams \subseteq [signal : Float, close : Int, far : Int]
  /\ Thresholds \in ThresholdPair

VARIABLES
  impl,          \* which implementation runs; it never changes
  panicked,      \* a panic has ended the program
  revolutions,   \* ring buffer: array
  tail,          \* ring buffer: index of the current bin
  isClose,       \* the magnet is near
  thresholds,    \* threshold_close and threshold_far
  readings,      \* Tune: the last readings, oldest first, and which were counted
  feedback,      \* state.feedback
  readNo,        \* state.iteration % reads_per_bin
  binNo,         \* state.iteration / reads_per_bin % control_frequency
  perfRead,      \* samples in the READ performance counter
  perfControl,   \* samples in the CONTROL performance counter
  params,        \* holding registers
  shown,         \* input registers: frequency as a total, signal, range of readings
  duty,          \* duty cycle of the PWM: 0, or 1 for one within the limits
  expirations    \* kernel: timer expirations not yet read

ring == <<revolutions, tail>>
iteration == <<readNo, binNo>>
perf == <<perfRead, perfControl>>
tuning == <<thresholds, readings>>
outputs == <<feedback, shown, duty>>
vars == <<impl, panicked, revolutions, tail, isClose, thresholds, readings, feedback,
          readNo, binNo, perfRead, perfControl, params, shown, duty, expirations>>

Bins == 0..(TimeWindowBins - 1)
PerfReadCapacity == 2 * ReadsPerBin * ControlFrequency
PerfControlCapacity == 2 * ControlFrequency

\* The holding registers before a client writes them: no integration.
DefaultParams == [target |-> 0, factor |-> 0, ti |-> 2, td |-> 0]

\* Those of Tune: all zero, so the first control phase makes it blind.
DefaultTuneParams == [signal |-> 0, close |-> 0, far |-> 0]

\* What the range starts from: above every level, and the least.
NoMin == AdcMax + 1
NoMax == 0

-----------------------------------------------------------------------------
(* Ring buffer *)

\* Faulty variant for TypeOK: the index runs past the array.
Next1Unwrapped(k) == k + 1

Next1(k) == (k + 1) % TimeWindowBins

\* push(0) on the counts revs: the oldest bin becomes the current one.
Pushed(revs) == [revs EXCEPT ![Next1(tail)] = 0]

Total(revs) == FoldFunction(LAMBDA x, y : x + y, 0, revs)

-----------------------------------------------------------------------------
(* Read phase *)

\* Faulty variant for BinBound and BinInv: each close reading is counted.
GoneCloseAlways(adc) == adc # Failed /\ adc < thresholds.close

\* A threshold that is NaN is one that no reading is beyond.
GoneClose(adc) == adc # Failed /\ adc < thresholds.close /\ ~isClose
GoneFar(adc) == adc # Failed /\ adc > thresholds.far /\ isClose

IsCloseAfter(adc) == GoneClose(adc) \/ (isClose /\ ~GoneFar(adc))

CountsAfter(adc) ==
  IF GoneClose(adc) THEN [revolutions EXCEPT ![tail] = @ + 1] ELSE revolutions

\* Faulty variant for RangeCoversWindow: one reading too few.
ReadingsCapacityOneLess == TimeWindowBins * ReadsPerBin - 1

ReadingsCapacity == TimeWindowBins * ReadsPerBin

LastReadings(s) ==
  IF Len(s) > ReadingsCapacity THEN Tail(s) ELSE s

\* A reading that failed is not kept; `counted` is what the properties need.
ReadingsAfter(adc) ==
  IF impl = "Tune" /\ adc # Failed
  THEN LastReadings(Append(readings, [level |-> adc, counted |-> GoneClose(adc)]))
  ELSE readings

-----------------------------------------------------------------------------
(* Control phase *)

\* The frequency is the total over a positive time.
FrequencyOf(total) == Sign(total)

Control(total) == RawControl(params, FrequencyOf(total), feedback)

-----------------------------------------------------------------------------
(* A tick: the part all three handlers share *)

ControlDue == readNo = 0
ReportDue == ControlDue /\ binNo = 0

\* add_sample: a sample that finds the counter full is dropped; Tune takes none.
Sampled(length, capacity) ==
  IF impl # "Tune" /\ length < capacity THEN length + 1 ELSE length

\* Faulty variant for PerfNeverFull: the counters are not reset.
TickNoReset(adc) ==
  /\ ~panicked
  /\ expirations > 0
  /\ expirations' = 0
  /\ isClose' = IsCloseAfter(adc)
  /\ readings' = ReadingsAfter(adc)
  /\ perfRead' = Sampled(perfRead, PerfReadCapacity)
  /\ perfControl' = IF ControlDue THEN Sampled(perfControl, PerfControlCapacity)
                    ELSE perfControl
  /\ readNo' = (readNo + 1) % ReadsPerBin
  /\ binNo' = IF readNo' = 0 THEN (binNo + 1) % ControlFrequency ELSE binNo
  /\ UNCHANGED <<impl, params>>

\* The read phase, the performance counters with their report, and the count of
\* iterations.  However many expirations are queued, they make one tick.
Tick(adc) ==
  /\ ~panicked
  /\ expirations > 0
  /\ expirations' = 0
  /\ isClose' = IsCloseAfter(adc)
  /\ readings' = ReadingsAfter(adc)
  /\ perfRead' = IF ReportDue THEN 0 ELSE Sampled(perfRead, PerfReadCapacity)
  /\ perfControl' = IF ReportDue THEN 0
                    ELSE IF ControlDue THEN Sampled(perfControl, PerfControlCapacity)
                    ELSE perfControl
  /\ readNo' = (readNo + 1) % ReadsPerBin
  /\ binNo' = IF readNo' = 0 THEN (binNo + 1) % ControlFrequency ELSE binNo
  /\ UNCHANGED <<impl, params>>

\* A tick with a read phase only.
HandleRead(adc) ==
  /\ Tick(adc)
  /\ ~ControlDue
  /\ revolutions' = CountsAfter(adc)
  /\ UNCHANGED <<panicked, tail, thresholds, outputs>>

\* The first steps of a control phase: frequency, then push.
MoveWindow(adc) ==
  /\ Tick(adc)
  /\ ControlDue
  /\ revolutions' = Pushed(CountsAfter(adc))
  /\ tail' = Next1(tail)

NoRange == [min |-> NoMin, max |-> NoMax]

\* The input registers; the range is Tune's.
Shown(total, signal) == [frequency |-> total, signal |-> signal, range |-> NoRange]

\* What the PWM makes of a signal.  NaN becomes an integer by a conversion that C
\* leaves undefined; what the pwm library of Zig does with it is not known.
DutyOf(signal) == IF signal = NaN THEN {0, 1} ELSE {signal}

\* Faulty variant for ImplementsWindow: the frequency of the window already moved.
ShowThenDrivePushesFirst(adc) ==
  /\ impl \in {"C", "Rust"}
  /\ MoveWindow(adc)
  /\ UNCHANGED <<panicked, thresholds>>
  /\ LET total == Total(Pushed(CountsAfter(adc))) IN
       \E control \in Control(total) :
       \E signal \in Limited(control.signal) :
         /\ shown' = Shown(total, signal)
         /\ duty' \in DutyOf(signal)
         /\ feedback' = Sanitised(control)

\* Faulty variant for FeedbackFinite: finite_or_zero is left out.
ShowThenDriveUnsanitised(adc) ==
  /\ impl \in {"C", "Rust"}
  /\ MoveWindow(adc)
  /\ UNCHANGED <<panicked, thresholds>>
  /\ LET total == Total(CountsAfter(adc)) IN
       \E control \in Control(total) :
       \E signal \in Limited(control.signal) :
         /\ shown' = Shown(total, signal)
         /\ duty' \in DutyOf(signal)
         /\ feedback' = [delta |-> control.delta, integ |-> control.integ]

\* The control phase in C and Rust: the input registers are written first; when
\* the PWM fails, feedback keeps its value.
ShowThenDrive(adc) ==
  /\ impl \in {"C", "Rust"}
  /\ MoveWindow(adc)
  /\ UNCHANGED <<panicked, thresholds>>
  /\ LET total == Total(CountsAfter(adc)) IN
       \E control \in Control(total) :
       \E signal \in Limited(control.signal) :
         /\ impl = "Rust" => signal # NaN
         /\ shown' = Shown(total, signal)
         /\ \/ /\ duty' \in DutyOf(signal)
               /\ feedback' = Sanitised(control)
            \/ UNCHANGED <<duty, feedback>>

\* In Rust a signal that is NaN panics on its way to the PWM (mul_f32).
ShowThenPanic(adc) ==
  /\ impl = "Rust"
  /\ MoveWindow(adc)
  /\ panicked' = TRUE
  /\ LET total == Total(CountsAfter(adc)) IN
       \E control \in Control(total) :
         /\ NaN \in Limited(control.signal)
         /\ shown' = Shown(total, NaN)
  /\ UNCHANGED <<thresholds, duty, feedback>>

\* The control phase in Zig: the duty cycle is set first, and when that fails
\* neither the registers nor feedback change; feedback is stored as it is
\* (finiteOrZero is not called).
DriveThenShow(adc) ==
  /\ impl = "Zig"
  /\ MoveWindow(adc)
  /\ UNCHANGED <<panicked, thresholds>>
  /\ LET total == Total(CountsAfter(adc)) IN
       \/ \E control \in Control(total) :
          \E signal \in Limited(control.signal) :
            /\ duty' \in DutyOf(signal)
            /\ shown' = Shown(total, signal)
            /\ feedback' = [delta |-> control.delta, integ |-> control.integ]
       \/ UNCHANGED outputs

\* limit of Tune: a duty cycle within [0, 1]; what is less than a step of the PWM,
\* and NaN, is 0.
TuneDutyOf(signal) ==
  IF signal = NaN \/ signal <= 0 THEN {0} ELSE IF signal = 1 THEN {0, 1} ELSE {1}

\* The range of the readings that are kept.
RangeOf(kept) ==
  LET levels == {kept[k].level : k \in DOMAIN kept}
  IN [min |-> Min(levels \cup {NoMin}), max |-> Max(levels \cup {NoMax})]

\* The control phase of Tune: the signal is shown as the client wrote it, and the
\* thresholds are those of the next bin.
TuneThenDrive(adc) ==
  /\ impl = "Tune"
  /\ MoveWindow(adc)
  /\ thresholds' = [close |-> params.close, far |-> params.far]
  /\ shown' = [frequency |-> Total(CountsAfter(adc)), signal |-> params.signal,
               range |-> RangeOf(readings')]
  /\ duty' \in TuneDutyOf(params.signal) \cup {duty}
  /\ UNCHANGED <<panicked, feedback>>

-----------------------------------------------------------------------------
(* The whole *)

\* iteration starts at 1.
Init ==
  /\ impl \in Impls
  /\ panicked = FALSE
  /\ revolutions = [k \in Bins |-> 0]
  /\ tail = 0
  /\ isClose = FALSE
  /\ thresholds = Thresholds
  /\ readings = <<>>
  /\ feedback = [delta |-> 0, integ |-> 0]
  /\ readNo = 1 % ReadsPerBin
  /\ binNo = IF ReadsPerBin = 1 THEN 1 % ControlFrequency ELSE 0
  /\ perfRead = 0
  /\ perfControl = 0
  /\ params = IF impl = "Tune" THEN DefaultTuneParams ELSE DefaultParams
  /\ shown = Shown(0, 0)
  /\ duty = 0
  /\ expirations = 0

\* The periodic timer expires; what is not read is added up by the kernel.
TimerExpires ==
  /\ ~panicked
  /\ expirations < MaxExpirations
  /\ expirations' = expirations + 1
  /\ UNCHANGED <<impl, panicked, ring, isClose, tuning, iteration, perf, params, outputs>>

\* A client writes the holding registers.
WriteParams ==
  /\ ~panicked
  /\ params' \in IF impl = "Tune" THEN TuneParams ELSE Params
  /\ UNCHANGED <<impl, panicked, ring, isClose, tuning, iteration, perf, outputs,
                 expirations>>

Next ==
  \/ \E adc \in AdcReadings :
       \/ HandleRead(adc)
       \/ ShowThenDrive(adc)
       \/ ShowThenPanic(adc)
       \/ DriveThenShow(adc)
       \/ TuneThenDrive(adc)
  \/ TimerExpires
  \/ WriteParams

Spec == Init /\ [][Next]_vars

-----------------------------------------------------------------------------
(* Properties *)

\* The variables keep their types: counts within the ring, feedback and signals
\* floats of some class.
TypeOK ==
  /\ impl \in Impls /\ panicked \in BOOLEAN
  /\ revolutions \in [Bins -> Nat]
  /\ tail \in Bins
  /\ isClose \in BOOLEAN
  /\ thresholds \in ThresholdPair
  /\ readings \in Seq([level : Levels, counted : BOOLEAN])
  /\ Len(readings) <= ReadingsCapacity
  /\ feedback \in [delta : Float, integ : Float]
  /\ readNo \in 0..(ReadsPerBin - 1) /\ binNo \in 0..(ControlFrequency - 1)
  /\ perfRead \in Nat /\ perfControl \in Nat
  /\ params \in IF impl = "Tune" THEN TuneParams \cup {DefaultTuneParams}
                ELSE Params \cup {DefaultParams}
  /\ shown \in [frequency : Nat, signal : Float,
               range : [min : Levels \cup {NoMin}, max : Levels \cup {NoMax}]]
  /\ duty \in {0, 1}
  /\ expirations \in 0..MaxExpirations

\* Counting a revolution takes a far and a close reading, so no bin ever holds
\* more than half its reads (rounded up): what bounds the frequency that can be
\* measured, and keeps the 32-bit counts and their sum from overflowing.
BinBound == \A k \in Bins : 2 * revolutions[k] <= ReadsPerBin + 1

\* The inductive strengthening of BinBound: in the current bin every revolution
\* but the one under way took two of the readings so far.
ReadsDone == IF readNo = 0 THEN ReadsPerBin - 1 ELSE readNo - 1
BinInv ==
  /\ BinBound
  /\ 2 * revolutions[tail] <= ReadsDone + (IF isClose THEN 1 ELSE 0)

\* No performance sample is dropped: the counters never fill between reports.
PerfNeverFull ==
  /\ perfRead < PerfReadCapacity
  /\ perfControl < PerfControlCapacity

\* Whatever parameters a client ever wrote, and whatever overflowed, the state that
\* feeds the next control phase is finite (in C and Rust).  It may be huge: sane
\* parameters can still make NaN of what a huge target left behind.
FeedbackFinite ==
  impl \in {"C", "Rust"} => IsFinite(feedback.delta) /\ IsFinite(feedback.integ)

\* The range that clients of Tune choose the thresholds by covers the window that
\* the frequency shown with it is counted in: every revolution counted has its
\* reading among those the range is taken over, whichever readings failed and
\* however often the thresholds changed meanwhile.
Counted == Cardinality({k \in DOMAIN readings : readings[k].counted})
RangeCoversWindow ==
  [][tail' # tail /\ impl = "Tune" => shown'.frequency <= Counted']_vars

Window == [k \in 1..TimeWindowBins |-> revolutions[(tail + k) % TimeWindowBins]]

W == INSTANCE RevolutionWindow
       WITH window <- Window, reported <- shown.frequency, mayLose <- (impl = "Zig")

\* The frequency that clients read is the number of revolutions of the last
\* TimeWindowBins bins each time the window moves on; in Zig a failure of the PWM
\* leaves the last one.
ImplementsWindow == W!Spec
=============================================================================
