------------------------------ MODULE Startup ------------------------------
(***************************************************************************)
(* What the programs of the repository acquire when they start, in which   *)
(* order, and what each gives back when a step fails.  In C every failure  *)
(* has its own list of calls; in Zig defer and errdefer, and in Rust the   *)
(* drop of what goes out of scope, give back in reverse order whatever is  *)
(* guarded, while the fields of a struct of Rust are dropped in theirs.  A *)
(* step that acquires nothing configures something.                        *)
(***************************************************************************)
EXTENDS SequencesExt

None == "none"

Step(gets, undo) == [gets |-> gets, undo |-> undo]

\* The steps with a longer undo: that of the function that calls them.
Then(steps, undo) == [i \in DOMAIN steps |-> Step(steps[i].gets, steps[i].undo \o undo)]

\* Deferred calls run in reverse order.
Deferred(s) == Reverse(s)

\* Zig and Rust: what is in loose has no defer, errdefer or drop; it leaves a gap,
\* and giving back None gives back nothing.
Guarded(names, loose) == [i \in DOMAIN names |-> IF names[i] \in loose THEN None ELSE names[i]]

Scoped(names, loose) ==
  [i \in DOMAIN names |-> Step(names[i], Deferred(SubSeq(Guarded(names, loose), 1, i - 1)))]

-----------------------------------------------------------------------------
(* C *)

BlinkyC ==
  << Step("handler", <<>>),
     Step("chip", <<>>),
     Step(None, <<"chip">>),
     Step("line", <<"line", "chip">>),
     Step("perf", <<>>) >>
BlinkyEndC == <<"perf", "line", "chip">>

MotorC ==
  << Step("gpio", <<>>),
     Step("handler", <<"gpio">>),
     Step("pwm", <<"gpio">>),
     Step("i2c", <<"gpio">>),
     Step(None, <<"i2c", "gpio">>),
     Step("perf", <<"i2c", "gpio">>) >>
MotorEndC == <<"perf", "i2c", "pwm", "gpio">>

PidServerC ==
  << Step("ctx", <<>>), Step("socket", <<"ctx">>), Step("connections", <<>>) >>
PidServerEndC == <<"socket", "ctx">>

PidControllerC ==
  LET timer == <<"timer", "i2c", "ring">>
  IN << Step("ring", <<>>),
        Step("i2c", <<"ring">>),
        Step(None, <<"i2c", "ring">>),
        Step("timer", <<"i2c", "ring">>),
        Step(None, timer),
        Step("perf_read", timer),
        Step("perf_control", <<"perf_read">> \o timer) >>
PidControllerEndC == <<"perf_control", "perf_read", "timer", "i2c", "ring">>

PidC ==
  LET main == <<"registers", "gpio">>
  IN << Step("gpio", <<>>), Step("handler", <<"gpio">>), Step("registers", <<"gpio">>) >>
     \o Then(PidServerC, main)
     \o Then(PidControllerC, PidServerEndC \o main)
PidEndC == PidControllerEndC \o PidServerEndC \o <<"registers", "gpio">>

MotorBmC ==
  << Step("adc", <<>>),
     Step(None, <<"adc">>),
     Step("pwm_timer", <<"adc">>),
     Step("pwm_channel", <<"pwm_timer", "adc">>),
     Step("perf", <<"pwm_channel", "pwm_timer", "adc">>) >>

WifiC ==
  LET netif == <<"netif", "netif_stack">>
  IN << Step("event_group", <<>>),
        Step("netif_stack", <<>>),
        Step("netif", <<"netif_stack">>) >>
     \o [i \in 1..7 |->
           Step(<<"driver", "handler_wifi", "handler_ip", None, None, "started", None>>[i],
                netif)]

ServicesC ==
  << Step("nvs", <<>>), Step("event_loop", <<"nvs">>) >>
  \o Then(<< Step("mdns", <<>>), Step(None, <<"mdns">>), Step(None, <<"mdns">>) >>,
          <<"event_loop", "nvs">>)
  \o Then(WifiC, <<"mdns", "event_loop", "nvs">>)
ServicesEndC == <<"netif", "netif_stack", "event_loop", "netif_stack", "nvs", "mdns">>

ServerBmC ==
  << Step("slave", <<>>) >>
  \o [i \in 1..4 |->
        Step(<<None, None, None, "slave_running">>[i], <<"slave">>)]
ServerBmEndC == <<"slave_running", "slave">>

ControllerBmC ==
  LET pwm == <<"pwm_timer", "adc", "ring">>
  IN << Step("ring", <<>>),
        Step("adc", <<"ring">>),
        Step(None, <<"adc", "ring">>),
        Step("pwm_timer", <<"adc", "ring">>),
        Step("pwm_channel", pwm),
        Step("timer", pwm),
        Step(None, <<"timer">> \o pwm),
        Step("timer_enabled", <<"timer">> \o pwm),
        Step(None, <<"timer_enabled", "timer">> \o pwm) >>
\* Faulty variant for DependenciesHeld: the timer is deleted without being disabled.
ControllerBmEndEnabledC ==
  <<"timer_running", "timer", "pwm_channel", "pwm_timer", "adc", "ring">>

ControllerBmEndC ==
  <<"timer_running", "timer_enabled", "timer", "pwm_channel", "pwm_timer", "adc", "ring">>

PidBmC ==
  LET server == ServerBmEndC \o ServicesEndC
  IN ServicesC
     \o Then(ServerBmC, ServicesEndC)
     \o Then(ControllerBmC, server)
     \o << Step("controller_task", ControllerBmEndC \o server),
           Step("server_task", <<"controller_task">> \o ControllerBmEndC \o server) >>

-----------------------------------------------------------------------------
(* Zig *)

BlinkyZig == Scoped(<<"handler", "chip", "line", "perf">>, {"handler"})

MotorZig ==
  Scoped(<<"handler", "chip", "channel", None, None, "i2c", None, "perf">>, {"handler"})

PidServerZig == <<"ctx", "socket", "connections">>
PidControllerZig ==
  <<"ring", "i2c", None, "chip_memory", "chip", "channel", "timer", None, None, None,
    "perf_read", "perf_control">>
PidControllerEndZig == <<"ring", "timer", "channel", "chip", "chip_memory", "i2c">>

\* Within an init errdefer gives back; once it has returned, deinit does.
PidZig ==
  LET main == <<"registers">>
  IN << Step("handler", <<>>), Step("registers", <<>>) >>
     \o Then(Scoped(PidControllerZig, {}), main)
     \o Then(Scoped(PidServerZig, {}), PidControllerEndZig \o main)
PidEndZig == Deferred(PidServerZig) \o PidControllerEndZig \o <<"registers">>

MotorBmZig == Scoped(<<"adc", None, "pwm_timer", "pwm_channel", "perf">>, {})

WifiZig ==
  <<"event_group", "netif_stack", "netif", "driver", "handler_wifi", "handler_ip",
    None, None, "started", None, None>>
ServicesZig == <<"nvs", "event_loop", "mdns", None, None>> \o WifiZig
ServerBmZig == <<"slave", None, None, None, "slave_running">>
ControllerBmZig ==
  <<"ring", "adc", None, "pwm_timer", "pwm_channel", "timer", None, "timer_enabled", None>>
LooseZig == {"event_group", "handler_wifi", "handler_ip"}

PidBmZig ==
  Scoped(ServicesZig \o ServerBmZig \o ControllerBmZig \o <<"server_task", "controller_task">>,
         LooseZig)

-----------------------------------------------------------------------------
(* Rust *)

BlinkyRust == Scoped(<<"pin", "handler", "perf">>, {"handler"})

MotorRust ==
  Scoped(<<"i2c", None, "pwm", None, None, None, "handler", "perf">>, {"handler"})

PidRust ==
  Scoped(<<"registers", "i2c", None, "pwm", None, None, None, "ring", "timer", "perf_read",
           "perf_control", "socket", "handler">>, {"handler"})

MotorBmRust == Scoped(<<"adc", "adc_channel", "pwm_timer", "pwm_channel", "perf">>, {})

\* Services drops its Wi-Fi before mdns, and the Wi-Fi owns the partition and the
\* event loop that it was made with.  What EspWifi drops, in which order, is external.
ServicesEndRust == <<"started", "driver", "netif", "nvs", "event_loop", "mdns">>
ServicesRust ==
  Scoped(<<"nvs", "event_loop", "mdns", None, None>>, {})
  \o << Step("netif", <<"nvs", "mdns", "event_loop">>),
        Step("driver", <<"netif", "nvs", "mdns", "event_loop">>) >>
  \o [i \in 1..5 |-> Step(<<None, None, "started", None, None>>[i], ServicesEndRust)]
ServerBmRust == <<"slave", None, None, None, "slave_running", "server_task">>
ControllerBmRust ==
  <<"adc", "pwm_timer", "pwm_channel", "timer", None, None, None, "timer_enabled", None, "ring">>

\* The server moves into its thread, which outlives main; what fails in the
\* thread of the controller panics there.
PidBmRust ==
  ServicesRust
  \o Then(Scoped(ServerBmRust, {}), ServicesEndRust)
  \o << Step("controller_task", ServicesEndRust) >>
  \o [i \in DOMAIN ControllerBmRust |-> Step(ControllerBmRust[i], <<>>)]

\* 0-tune on the same services, server and peripherals, without counters.
TuneBmRust == PidBmRust
=============================================================================
