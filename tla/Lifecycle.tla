----------------------------- MODULE Lifecycle -----------------------------
(***************************************************************************)
(* The life of a program: it starts step by step (Startup), any step may   *)
(* fail, runs until it is interrupted, and gives back what it holds.  The  *)
(* loops of blinky and motor are here; those of pid are in PollServer,     *)
(* PollServerZig and MotorTask, that of 0-tune in Controller; they only    *)
(* run here.  On the ESP32 ("bm") nothing ends but what fails, and then    *)
(* the chip restarts; on the Raspberry Pi ("os") SIGINT ends the program.  *)
(* What the start of pid and tune on the ESP32 waits for is in Boot.       *)
(* The signal, the peripherals and the operating systems are external.     *)
(***************************************************************************)
EXTENDS Startup, FiniteSets

CONSTANTS
  UpdatesPerReport   \* UPDATE_FREQUENCY of blinky, CONTROL_FREQUENCY of motor (20, 10)

ASSUME LifecycleAssumption == UpdatesPerReport \in Nat \ {0}

Langs == {"C", "Zig", "Rust"}
Tune == [lang |-> "Rust", does |-> "tune", on |-> "bm"]
Programs == [lang : Langs, does : {"blinky", "motor", "pid"}, on : {"os", "bm"}] \cup {Tune}

\* Blinky on the ESP32 configures a pin, in all three languages.
BlinkyBm == << Step(None, <<>>), Step("perf", <<>>) >>

StepsOf ==
  [C    |-> [blinky |-> [os |-> BlinkyC, bm |-> BlinkyBm],
             motor  |-> [os |-> MotorC, bm |-> MotorBmC],
             pid    |-> [os |-> PidC, bm |-> PidBmC]],
   Zig  |-> [blinky |-> [os |-> BlinkyZig, bm |-> BlinkyBm],
             motor  |-> [os |-> MotorZig, bm |-> MotorBmZig],
             pid    |-> [os |-> PidZig, bm |-> PidBmZig]],
   Rust |-> [blinky |-> [os |-> BlinkyRust, bm |-> BlinkyBm],
             motor  |-> [os |-> MotorRust, bm |-> MotorBmRust],
             pid    |-> [os |-> PidRust, bm |-> PidBmRust],
             tune   |-> [bm |-> TuneBmRust]]]

Steps == [p \in Programs |-> StepsOf[p.lang][p.does][p.on]]

\* What a program that was interrupted gives back.
EndOf(p) ==
  CASE p.lang = "C" -> [blinky |-> BlinkyEndC, motor |-> MotorEndC, pid |-> PidEndC][p.does]
    [] p.lang = "Zig" /\ p.does = "pid" -> PidEndZig
    [] OTHER -> Deferred(Guarded([k \in DOMAIN Steps[p] |-> Steps[p][k].gets], {"handler"}))

VARIABLES
  program,       \* which program runs; it never changes
  steps,         \* the steps of its start; they never change
  pc,            \* "starting", "top" of the main loop, in a "round" of it, "stopping", "ended"
  taken,         \* steps of the start that succeeded
  held,          \* what the program has acquired and not given back
  undo,          \* what is still to be given back, in order
  doContinue,    \* do_continue of C and Zig, more_work of Rust
  i,             \* updates since the last report
  next,          \* is_on of blinky: the level the next update sets
  shown,         \* blinky: the level of the pin, "unset" before the first update
  skipped        \* blinky: an update failed since the last that did not

starting == <<taken, held, undo>>
fixed == <<program, steps>>
looping == <<i, next, shown, skipped>>
vars == <<fixed, pc, starting, doContinue, looping>>

-----------------------------------------------------------------------------
(* Start and end *)

\* After the last step the main loop begins.
StepSucceeds ==
  /\ pc = "starting"
  /\ taken' = taken + 1
  /\ held' = held \cup ({steps[taken'].gets} \ {None})
  /\ pc' = IF taken' = Len(steps) THEN "top" ELSE "starting"
  /\ UNCHANGED <<fixed, undo, doContinue, looping>>

StepFails ==
  /\ pc = "starting"
  /\ undo' = steps[taken + 1].undo
  /\ pc' = "stopping"
  /\ UNCHANGED <<fixed, taken, held, doContinue, looping>>

GiveBack ==
  /\ pc = "stopping"
  /\ undo # <<>>
  /\ held' = held \ {Head(undo)}
  /\ undo' = Tail(undo)
  /\ UNCHANGED <<fixed, pc, taken, doContinue, looping>>

Ends ==
  /\ pc = "stopping"
  /\ undo = <<>>
  /\ pc' = "ended"
  /\ UNCHANGED <<fixed, starting, doContinue, looping>>

\* pid on the ESP32: the controller's task starts the timer, in C as soon as the
\* task exists, while main goes on; in Rust at the end of its own setup.
StartTimer ==
  /\ {"controller_task", "timer_enabled"} \subseteq held
  /\ program.lang = "C" \/ pc = "top"
  /\ "timer_running" \notin held
  /\ held' = held \cup {"timer_running"}
  /\ UNCHANGED <<fixed, pc, taken, undo, doContinue, looping>>

\* SIGINT, once its handler is installed; before, it ends the program anyhow.
Interrupt ==
  /\ "handler" \in held
  /\ pc \in {"starting", "top", "round"}
  /\ doContinue
  /\ doContinue' = FALSE
  /\ UNCHANGED <<fixed, pc, starting, looping>>

-----------------------------------------------------------------------------
(* The loops of blinky and motor *)

\* The flag is looked at before each round only.
BeginRound ==
  /\ pc = "top"
  /\ doContinue
  /\ program.does \in {"blinky", "motor"}
  /\ pc' = "round"
  /\ UNCHANGED <<fixed, starting, doContinue, looping>>

\* When blinky ends it switches the LED off, which may fail.
Stop ==
  /\ pc = "top"
  /\ ~doContinue
  /\ pc' = "stopping"
  /\ undo' = EndOf(program)
  /\ shown' \in IF program.does = "blinky" THEN {"low", shown} ELSE {shown}
  /\ UNCHANGED <<fixed, taken, held, doContinue, i, next, skipped>>

Opposite(level) == IF level = "low" THEN "high" ELSE "low"

\* Faulty variant for TypeOK: one update too many.
MoreUpdatesOneMore == i <= UpdatesPerReport

MoreUpdates == i < UpdatesPerReport

Update ==
  /\ pc = "round"
  /\ MoreUpdates
  /\ i' = i + 1
  /\ IF program.does = "blinky"
     THEN shown' = next /\ next' = Opposite(next) /\ skipped' = FALSE
     ELSE UNCHANGED <<next, shown, skipped>>
  /\ UNCHANGED <<fixed, pc, starting, doContinue>>

\* Faulty variant for Alternates: every program toggles is_on anyhow.
NextAfterFailureToggled == Opposite(next)

\* Zig on the Raspberry Pi toggles is_on even when the level could not be set.
NextAfterFailure ==
  IF program.lang = "Zig" /\ program.on = "os" THEN Opposite(next) ELSE next

\* With rppal setting a pin cannot fail.
UpdateFails ==
  /\ pc = "round"
  /\ MoreUpdates
  /\ ~(program.lang = "Rust" /\ program.does = "blinky")
  /\ i' = i + 1
  /\ IF program.does = "blinky"
     THEN next' = NextAfterFailure /\ skipped' = TRUE
     ELSE UNCHANGED <<next, skipped>>
  /\ UNCHANGED <<fixed, pc, starting, doContinue, shown>>

\* On the ESP32 a toggle that fails ends main.
ToggleEndsMain ==
  /\ pc = "round"
  /\ MoreUpdates
  /\ program = [lang |-> "Rust", does |-> "blinky", on |-> "bm"]
  /\ pc' = "stopping"
  /\ undo' = <<"perf">>
  /\ UNCHANGED <<fixed, taken, held, doContinue, looping>>

\* Faulty variant for StopsOnInterrupt: the next round begins at once.
ReportGoesOn ==
  /\ pc = "round"
  /\ i = UpdatesPerReport
  /\ i' = 0
  /\ UNCHANGED <<fixed, pc, starting, doContinue, next, shown, skipped>>

Report ==
  /\ pc = "round"
  /\ i = UpdatesPerReport
  /\ i' = 0
  /\ pc' = "top"
  /\ UNCHANGED <<fixed, starting, doContinue, next, shown, skipped>>

-----------------------------------------------------------------------------
(* The whole *)

Init ==
  /\ program \in Programs
  /\ steps = Steps[program]
  /\ pc = "starting"
  /\ taken = 0
  /\ held = {}
  /\ undo = <<>>
  /\ doContinue = TRUE
  /\ i = 0
  /\ next = "low"
  /\ shown = "unset"
  /\ skipped = FALSE

Starts ==
  /\ pc' = "starting"
  /\ taken' = 0
  /\ held' = {}
  /\ undo' = <<>>
  /\ doContinue' = TRUE
  /\ i' = 0
  /\ next' = "low"
  /\ shown' = "unset"
  /\ skipped' = FALSE

Program ==
  \/ StepSucceeds \/ StepFails
  \/ GiveBack \/ Ends
  \/ BeginRound \/ Update \/ UpdateFails \/ ToggleEndsMain \/ Report
  \/ Stop

\* On the ESP32 an error ends in abort(), in a panic of Zig, or in an error that
\* main of Rust returns, and the chip may boot again.
Restart ==
  /\ pc = "ended"
  /\ program.on = "bm"
  /\ UNCHANGED fixed
  /\ Starts

-----------------------------------------------------------------------------
(* Properties *)

\* What a program with this table can come to hold.
AcquiresOf(table) == ({table[k].gets : k \in DOMAIN table} \ {None}) \cup {"timer_running"}

Acquires == AcquiresOf(steps)

\* The variables keep their types; no report starts late: i never passes its end.
TypeOK ==
  /\ program \in Programs /\ steps = Steps[program]
  /\ pc \in {"starting", "top", "round", "stopping", "ended"}
  /\ taken \in 0..Len(steps)
  /\ held \subseteq Acquires
  /\ undo \in Seq(Acquires \cup {None})
  /\ doContinue \in BOOLEAN
  /\ i \in 0..UpdatesPerReport
  /\ next \in {"low", "high"} /\ shown \in {"low", "high", "unset"}
  /\ skipped \in BOOLEAN

\* What uses what, and must be given back before it: a line its chip, the Modbus
\* slave its network, the timer's interrupt the task it notifies; the Wi-Fi keeps
\* its settings in nvs, and it and mdns hear of each other through the event loop.
Uses ==
  {<<"line", "chip">>, <<"channel", "chip">>, <<"chip", "chip_memory">>, <<"pwm", "gpio">>,
   <<"socket", "ctx">>, <<"pwm_channel", "pwm_timer">>, <<"netif", "netif_stack">>,
   <<"driver", "netif">>, <<"driver", "nvs">>, <<"driver", "event_loop">>,
   <<"handler_wifi", "event_loop">>, <<"handler_ip", "event_loop">>,
   <<"mdns", "event_loop">>, <<"started", "driver">>, <<"slave", "netif">>,
   <<"slave_running", "slave">>, <<"server_task", "slave">>, <<"timer_enabled", "timer">>,
   <<"timer_running", "timer_enabled">>, <<"timer_running", "controller_task">>,
   <<"timer_running", "ring">>, <<"timer_running", "adc">>}

\* The pairs each program gives back in the wrong order when it fails to start: C
\* never gives back the driver nor the handlers, and in C and Rust mdns outlives the
\* event loop.  The handlers of Zig go with the event loop that they are part of.
KnownDangling(p) ==
  CASE p = [lang |-> "C", does |-> "motor", on |-> "os"] -> {<<"pwm", "gpio">>}
    [] p = [lang |-> "C", does |-> "pid", on |-> "bm"] ->
         {<<"driver", "netif">>, <<"driver", "nvs">>, <<"driver", "event_loop">>,
          <<"handler_wifi", "event_loop">>, <<"handler_ip", "event_loop">>,
          <<"mdns", "event_loop">>, <<"pwm_channel", "pwm_timer">>,
          <<"timer_running", "controller_task">>}
    [] p = [lang |-> "Zig", does |-> "pid", on |-> "bm"] ->
         {<<"handler_wifi", "event_loop">>, <<"handler_ip", "event_loop">>}
    [] p \in {[lang |-> "Rust", does |-> "pid", on |-> "bm"], Tune} ->
         {<<"slave", "netif">>, <<"mdns", "event_loop">>}
    [] OTHER -> {}

\* Whatever step fails, and however the controller's task races with main, what
\* the program's own list of calls, errdefers or drops gives back is not used by
\* anything still held, but for the pairs of KnownDangling, which do happen.
DependenciesHeld ==
  \A use \in Uses \ KnownDangling(program) :
    use[1] \in held /\ use[2] \in Acquires => use[2] \in held

\* An interrupted program ends and does not wait for anything but its round.
StopsOnInterrupt == ~doContinue ~> pc = "ended"

\* The LED changes with every update that sets it; in Zig on the Raspberry Pi
\* only if the one before it succeeded, too.
Alternates ==
  [][ /\ program.does = "blinky" /\ i' = i + 1 /\ ~skipped'
      /\ shown # "unset"
      /\ skipped => ~(program.lang = "Zig" /\ program.on = "os")
      => shown' # shown ]_vars
=============================================================================
