# Verification of mst-proj

mst-proj writes the same programs in C, Rust and Zig, for the Raspberry Pi
(Linux, "os") and for the ESP32 (FreeRTOS, "bm"), to compare the languages:
blinky, a motor driven by a knob, and a motor controlled by PID over Modbus
TCP, with a dashboard in SvelteKit; 0-tune, in Rust for the ESP32, finds the
thresholds for the last.  This directory holds TLA+ models of those
programs, the configurations TLC checks them with, and proofs for TLAPS.

    tlc -workers 2 -config MCPollServer_any.cfg MCPollServer
    tlapm PollServer_proofs.tla

## 1. Inventory

### The parts and how they interact

| Part | State | Operations | Talks to |
|---|---|---|---|
| Poll loop and Modbus server, os, C (`c/3-pid/main.c`, `server.c`) | `poll_fds`, `connection_fds`, `do_continue` | poll, scan the ready entries, accept or refuse, receive, reply, close, remove marked entries, stop | clients by sockets; the controller by a call for each expiration; the kernel |
| The same in Zig (`zig/3-pid/main.zig`, `Server.zig`) | a bounded array, a list of connections | the same; `errdefer` closes, `closeConnection` panics | the same |
| Modbus server, os, Rust (`rust/3-pid/src/main.rs`, `server.rs`, `registers.rs`) | registers behind an `UnsafeCell`; a task per connection | select! of controller, server and SIGINT on one thread; handle a request; panic | clients through tokio-modbus; the controller through the registers |
| Motor controller, os (`controller.c`, `Controller.zig`, `controller.rs`) | ring of revolutions, `is_close`, feedback, performance counters | read phase, control phase, report | ADC and PWM; registers |
| Controller of 0-tune, bm (`rust/0-tune-bm/src/controller.rs`) | the same without feedback; thresholds, the last readings | read phase, control phase | registers: a client sets signal and thresholds and reads the range of the readings |
| Motor controller, bm (`c/3-pid-bm/main/controller.c`, ...) | the same, in a task of its own on core 1 | the same, woken by the interrupt of a timer | registers shared without a lock with the Modbus stack on core 0 |
| Modbus slave, bm (`server.c`, `Server.zig`, `server.rs`) | the slave of esp-modbus | start; a loop that logs | registers |
| Wi-Fi and services, bm (`wifi.c`, `services.c`, ...) | event group, number of retries | handler of events; the wait of main | driver, access point |
| Start and end of the programs (`main`, `init`, `deinit` everywhere) | what is acquired | acquire step by step, give back on failure and at the end | everything above |
| blinky and motor, os and bm | level of the LED; the updates since the last report | update, report, stop | pins, ADC, PWM |
| Dashboard, server side (`ModbusClient.ts`, `hooks.server.ts`) | client, retries, back-off flags | read on an interval, write, reconnect | the device by jsmodbus; pages by server-sent events |
| Dashboard, page (`control/+page.svelte`) | the parameters chosen | post them on a change and on "connected" and "recovered" | the server side |

Not part of the running system: `analyze/`, build files, `docs/`, vendored Zig
bindings.

### What is hard, and what makes each part correct

* **Poll loop.** It scans an array that its own steps mark and extend, then
  removes the marked entries by swaps; descriptors are reused by the kernel as
  soon as they are closed.  Correct: the table holds exactly the open
  connections; each live one is polled, once; nothing is written past the end of
  `poll_fds`; the controller, every request and SIGINT are served, unless the loop
  is held up in a blocking send to a client that does not read.
* **The Rust server.** One thread runs everything, panics end a task or the
  program depending on the profile, and addresses are 16-bit sums.  Correct: a
  request is granted exactly when its registers exist; a client that is slow,
  silent or broken holds up nobody else; the motor is off when the program ends.
* **Controller.** Order matters in a control phase (sum, move the ring, write
  the registers, set the PWM, keep the feedback), each step can fail, and
  parameters come from clients as any 32 bits.  Correct: the frequency shown is
  that of a sliding window, hysteresis bounds the counts, feedback stays finite
  whatever overflows, no performance sample is dropped; in 0-tune the
  range shown is taken over all the readings of the window.
* **Controller task on the ESP32.** Two cores share registers without a lock.
  Correct: words read are never older than the last request completed before;
  a float of two halves does no lasting harm; what a client wrote takes effect.
* **Wi-Fi.** Retries live in a handler of events, and main waits for a bit only
  the handler sets.  Correct: no silence while retries are left; boot gets on.
* **Start and end.** Dozens of steps, each with its own list of calls when it
  fails, and on the ESP32 a task that starts its timer while main goes on.
  Correct: nothing is given back under what still uses it; SIGINT ends the program.
* **Dashboard.** Overlapping async loops share a client, two flags and a count.
  Correct: one back-off at a time; readings come back after every failure; the
  parameters the page shows are the ones in the device.

`PROJECT.json` lists the hazards, each with its line and the properties about it.

## 2. Modules

| Module | Models | Notes |
|---|---|---|
| `PollLoop` | kernel, clients, entries of `poll_fds`; shared by the two next | external parts are marked in the comments; `Environment` |
| `PollServer` | `c/3-pid/main.c` and `server.c` | one action per branch of the scan; `Stop` is `server_deinit` |
| `Connections` | abstract table of connections | `PollServer` implements it: `active` is the set of `connection_fds` |
| `PollServerZig` | `zig/3-pid/main.zig` and `Server.zig` | with `errdefer` and the panic |
| `FloatClass`, `Pid` | floats by class; the formula, `finite_or_zero`, `limit` | sets of possible classes; used by both controllers |
| `RustRegisters` | `rust/3-pid/src/registers.rs`: registers and ranges of them | sums are mod 2^16, or panic |
| `RustServer` | `rust/3-pid/src/main.rs` and `server.rs`, with the controller as `select!` sees it | `profile` chooses how it is built |
| `Controller` | os controllers of C, Zig and Rust, and that of 0-tune ("Tune") | variable `impl` chooses; actions differ where the code does |
| `RevolutionWindow` | abstract sliding window | `Controller` implements it |
| `MotorTask` | bm controllers with the timer's interrupt and the Modbus stack | words written and read one by one |
| `Startup` | tables: what each program acquires and what each failure gives back | one table per `init` or `main` |
| `Lifecycle` | the life of the nineteen programs, loops of blinky and motor, SIGINT | interprets the tables of `Startup` |
| `Wifi` | `wifi.c`, `Wifi.zig`, `services.rs` | handler, main task and driver |
| `Boot` | `Lifecycle` and `Wifi` together | the steps after `esp_wifi_start` wait for the network; a chip that failed boots again |
| `ModbusClient` | the dashboard between page and device | one action for what runs between two awaits |
| `MC*` | constants for TLC | |
| `SwapRemove` | the removal by swap that `server.c` and `main.c` share | apart from `PollLoop`, so that proofs can use it |
| `Operators_proofs` | lemmas on swaps, marks, floats by class, the PID formula and indices that wrap | used by the next four |
| `PollServer_proofs`, `PollServerZig_proofs`, `Controller_proofs`, `MotorTask_proofs` | theorems about the poll loops and the controllers | |
| `RustServer_proofs`, `ModbusClient_proofs`, `Boot_proofs` | theorems about the Rust server, the dashboard, Wi-Fi, blinky, and how every program starts and ends | |

### Correspondence

*Variables* carry the names of the code (`connectionFds`, `pollFds`,
`doContinue`, `retryNumber`, `isError`, `revolutions`, `feedback`).  `pc` says
where a sequential program is, and a step ends where something concurrent can
see or change state: at a system call of the loop, at an access to a register on
the ESP32, at an await in the dashboard.  Elsewhere a whole handler is one action.

*Poll loop.*  `Poll` records `revents` for all entries, as poll(2) does, and what
happens later is seen at the next round only, although the sockets go on
changing between any two steps.  A marked entry has a negative descriptor, as in
the code.  The kernel gives out the lowest free descriptor (`IsNextFd`), which is
what makes reuse happen.  A request is `whole`, `broken` or none; a client ends
with FIN or RST.  `modbus_reply` is a blocking `send` on the only thread
(`server.c:133`, `Server.zig:106`): it ends at once where there is room for the
answer (`ReplySucceeds`), else the loop is `"sending"` (`ReplyWaits`) until the
client reads (`ClientReads`), ends, or in C a SIGINT breaks the call
(`ReplyInterrupted`); a client need never read.

*The Rust server.*  Between two awaits one thread runs one thing, so each action is
a whole poll of a branch of `select!` or of a connection's task.  `main` ends as
"stopped" (SIGINT), "failed" (accept) or "panicked"; leaving `main` drops the
controller and with it the PWM, aborting does not.  A connection is queued,
idle, asked or replying; `part` is a frame that never becomes whole.  `Handle`
computes the result as `PidService::handle` does; the profile dev panics where a
sum leaves u16.  A control phase has any frequency of `Frequencies` and any
finite feedback, over the holding registers as they are.  That tokio polls the
controller and SIGINT again and again is taken for granted: nothing that is
modelled could occupy the thread, so no property claims to show it.

*Controllers.*  `FloatClass` keeps of a float whether it is NaN, infinite, zero
or finite with a sign; an operation yields the set of classes its IEEE 754
result can have.  `Pid` computes the formula over such sets, so TLC sees every
way in which rounding may go.  An action takes all of a tick: reading, ring,
registers, PWM, feedback and counters, in the order of the language, which is
why `ShowThenDrive` (C, Rust) and `DriveThenShow` (Zig) are two.  `TuneThenDrive`
is that of 0-tune: `thresholds` are variables there and change with the bin, and
`readings` is its ring of the last readings, of which `counted` is a note for
`RangeCoversWindow`.

*ESP32.*  The four floats of the holding registers are five words in
`MotorTask`: two for the integration time, of which the class depends on how
halves mix (infinity and NaN differ in the low half), one for each other.
A float goes high half first ("CDAB").  The stack writes the words in the order
of addresses; the compiler may read them in any order.  `MeasurePanics` is the
subtraction of two readings of the cycle counter in a build that checks for overflow.

*Start and end.*  A step of a table has the resource it acquires (or none, when it
configures) and the list of what is given back if it fails.  `Scoped` derives
the lists of Zig and Rust from defer, errdefer and drop: what the steps before
got, backwards, with a gap (`None`) for what has neither (`Guarded`); those of C
are copied from its calls, in their order, with what they forget.  `Services` of
Rust drops its fields in their order, the Wi-Fi with the partition and the event loop
it owns before mdns (`ServicesEndRust`).  `Uses` says what must not be taken away
from under what: pairs such as a line and its chip, the timer and the task it
notifies, the Wi-Fi driver with its interface, partition and event loop, the handlers
and mdns with the event loop.  `Boot` holds a step back
while it waits for the network, lets it fail only when the wait does, and runs
handler, driver and access point beside whatever main does then.

*Dashboard.*  Node.js runs one piece of code between awaits.  `FirstAwait` and
`NextClient` are `client()`; a loop or a write awaits a connection, a response,
a rejection or the back-off.  Rejections are settled before other events.

## 3. Runs

| Run | Question | Bounds |
|---|---|---|
| `MCPollServer_any` | Does the table of C stay right whatever clients do? Does it implement `Connections`? | 2 connections, 3 descriptors, a listen queue of 1 |
| `MCPollServer_orderly` | With clients that never reset: is `poll_fds` right, and is everybody served? | the same, FIN only |
| `MCPollServer_refused` (violation) | Are clients refused only when the table is in use? | the same |
| `MCPollServer_stall` (violation) | Does SIGINT end the loop when clients reset? | the same |
| `MCPollServerZig_any` | The table in Zig | the same |
| `MCPollServerZig_panic` (violation) | Does the server close only connections it knows? | the same, FIN only |
| `MCController_all` | Counts, feedback, window, counters and range in three languages and 0-tune | 2 bins, 3 reads per bin, 5 sets of parameters, 2 pairs of thresholds |
| `MCRustServer_any` | Are requests handled as asked, is nobody held up, is the motor off in the end? | 2 clients, one of which never reads; 9 requests; profiles dev and small |
| `MCMotorTask_torn` | Torn words, NaN, dropped samples, effect of a write | 2 reads per bin, 2 control phases per second, 1 request over the defaults |
| `MCBoot_all` | Failing starts, joining and losing the network, SIGINT, failing updates, restarts, all programs | 4 updates per report (10 or 20 in the code), 5 retries, as in the code |
| `MCModbusClient_faults` | Overlapping loops with faults | 2 loops, 2 writes, 1 edit, 2 faults, 2 retries |
| `MCModbusClient_lost` (violation) | Do the parameters of the page reach the device? | no faults at all |

**Why the bounds suffice to be of interest.**  Two connections and a third
descriptor let the table be full, a client be refused and a descriptor be reused
while its old entry is still in `poll_fds`, which is all the failures found need;
C and Zig both allow five.  Two bins make the ring wrap and three reads let a
bin count two revolutions, one more than half.  Two pairs of thresholds, one of which
overlaps, let 0-tune change its mind in the middle of a window.  Sums and products of
finite floats may overflow (`MayOverflow`), but in `MCMotorTask_torn`.  The requests of `MCRustServer` are at both ends
of both kinds of registers, with counts that are zero, odd and too great; dev
unwinds and checks for overflow, small does neither, and what release does, one
of them does too.  Two words of a request suffice
to tear a float.  One back-off and one loop that overtakes it need two loops;
two faults make a failure strike during the recovery from another.  Bounds on
counters (`MaxBacklog`, `MaxExpirations`, `MaxWrites`, `MaxEdits`, `MaxFaults`)
stop the environment, never the program.

**Faulty variants.**  Operators with a comment "Faulty variant for P" are how the
code would look with a likely bug; no run uses them.  Each property of a passing
run is broken by the one it names, so none of them holds by the shape of the
model.

### What the runs show

* `MCPollServer_any`: whatever clients do, `connection_fds` holds exactly the
  open descriptors, each live client is polled and the end closes all of them.
* `MCPollServer_orderly`: as long as no client resets, each connection is polled
  once, and the loop serves its timer, requests and SIGINT unless it comes to a
  send that waits for good (`HeldUp`).  A client that asks and never reads can bring that
  about, and then nothing else is served.
* `MCPollServer_stall`: with resets this fails.  A reply that fails leaves its
  entry unmarked (`server.c:134`); the descriptor is closed, reused, polled
  twice, and the second `modbus_receive` waits without a timeout, although every send
  has come to its end.
* `MCPollServer_refused`: `ECONNRESET` (which libmodbus also reports for an
  orderly end) takes an entry out of `poll_fds` and not out of the table
  (`server.c:119`), so the table fills up with connections nobody serves.
* `MCPollServerZig_panic`: a failing request closes its connection by `errdefer`
  and leaves the entry; reuse makes `closeConnection` panic (`Server.zig:129`).
* `MCController_all`: in C and Rust feedback is always finite, whatever parameters
  clients wrote and whatever overflowed; Zig stores what it computed (its
  `finiteOrZero` is never called and inverted), so there is no claim about it.
  Finite is all: a target near the greatest float stays in `feedback.delta`, and a
  phase with ordinary parameters may next make an infinity minus an infinity of it,
  that is NaN, which Rust panics on (`controller.rs:238`).  In all languages counts keep their bound, counters have
  room, and the frequency shown is that of the window.  0-tune counts with
  thresholds that are zero until a client writes them, and blind to the motor;
  the range it shows covers each revolution it shows.
* `MCRustServer_any`: a request is granted exactly when its floats exist, whole
  ones (an empty range is granted at any address but 0).  In the profile dev the
  request for no floats at address 0 panics in its task and costs its client the
  connection (`registers.rs:82`); nobody else notices.  A client that reads gets
  its answers, or its connection or the program ends, whatever the other does.  A failing `accept`
  and a NaN that reaches `mul_f32` (`controller.rs:238`) end the program; the
  motor is off then, except after an abort in the profile small.
* `MCMotorTask_torn`: without locks, words are regular registers: mixed, but never
  older than the last complete request; a NaN made of two halves lasts until
  the next whole reading (C and Rust, as long as finite arithmetic does not
  overflow), and each write takes effect unless a
  panic comes first.
* `MCBoot_all`: nothing is given back under its user except in the pairs of
  `KnownDangling`, each of which is a place in the code: `gpioTerminate` before
  the PWM is stopped (C motor); the PWM channel after a failing gptimer, a deleted
  task that the interrupt still notifies, the Wi-Fi driver and its handlers, which
  nobody gives back, over a destroyed interface, a closed partition and a deleted
  event loop, and mdns freed after that loop (C pid, ESP32: `services.c:82`,
  `services.c:92`); the handlers that Zig leaves to the event loop it deletes (ESP32;
  they go with it); the server thread that outlives Wi-Fi, and mdns dropped after the
  event loop (Rust pid and 0-tune, ESP32).  Each of these pairs does happen; the
  property is about all the others.  A station that is not connected either tries, or will hear of it,
  or has given up visibly; every start comes to its main loop or to its failure, and the chip
  boots again.  After boot the FAIL bit is
  read by nobody and nothing reconnects.
* `MCModbusClient_faults`: at most one back-off, and readings come back.
* `MCModbusClient_lost`: they do, but parameters may not: the loop that runs while
  the first connection is being made fails (`#client` is set before it is
  connected), and the post that answers "connected" falls into its back-off and
  is dropped; "recovered", which would repeat it, is never sent
  (`ModbusClient.ts:133`).

### Fairness

* Loop and timer (`PollServer`): the process is scheduled and the timer is
  periodic.  Nothing is assumed of clients, so a receive or a send that waits may wait
  for ever.  The liveness properties of the loop except a send that does (`HeldUp`), and
  only that: a receive that waits for good is what `MCPollServer_stall` shows.  Nor is
  it assumed that SIGINT breaks a send: it may, if libmodbus hands on EINTR.
* `MotorTask`: the task has the highest priority on its core, the timer reloads
  itself, and esp-modbus finishes a request it began.
* `RustServer`: tokio polls each task of a connection that can go on; main gets no
  fairness, since no property needs any.  The task of a client that does not read its answers gets no
  fairness, as its send may wait for ever; clients get none.
* `Boot`: calls return, the report is finite, events are handled, an attempt to
  join ends, and a station gets an address or loses the link.  A DHCP server that
  stays silent is excluded: C and Zig would wait for it for ever.  `refused`
  covers an `esp_wifi_connect` that returns an error, after which they would
  wait, too.  SIGINT is never required.
* `ModbusClient`: Node's timers fire, requests are answered or rejected, the
  device comes back; posts and connections succeed if they are tried again and
  again (strong fairness), as the HTTP server and an answering device make them.

## 4. Proofs

Every safety property a run checks, invariant, action property or refinement, is a
theorem for all values of the constants.

| Module | Theorem | States | Run on an instance |
|---|---|---|---|
| `PollServer_proofs` | `TypeCorrect` | `[]TypeOK` | `MCPollServer_any` |
| | `TableCorrect` | `[]TableMatchesKernel` | |
| | `LivePolled` | `[]LiveConnectionsPolled` | |
| | `StoppedClosed` | `[]StoppedMeansClosed` | |
| | `TableImplements` | `ImplementsConnections`, a refinement | |
| | `OrderlyClientsFit` | clients that never reset: `[]OrderlyInv` | `MCPollServer_orderly` |
| `PollServerZig_proofs` | `TypeCorrect`, `TableCorrect`, `LivePolled`, `StoppedClosed` | `[]` of `TypeOK`, `TableMatchesSockets`, `LiveConnectionsPolled`, `StoppedMeansClosed` | `MCPollServerZig_any` |
| `Controller_proofs` | `TypeCorrect` | `[]TypeOK` | `MCController_all` |
| | `CountsBounded` | `[]BinInv` | |
| | `SamplesKept` | `[]PerfNeverFull` | |
| | `FeedbackStaysFinite` | `[]FeedbackFinite` | |
| | `WindowImplemented` | `ImplementsWindow`, a refinement | |
| | `RangeCovers` | `RangeCoversWindow` | |
| `MotorTask_proofs` | `TypeCorrect` | `[]TypeOK` | `MCMotorTask_torn` |
| | `SamplesKept` | `[]NoSampleDropped` | |
| | `RegistersRegular` | `[]UsesFreshParams` | |
| | `RecoversFromTorn` | without overflow: `RecoversFromTornParams` | |
| `RustServer_proofs` | `TypeCorrect` | `[]TypeOK` | `MCRustServer_any` |
| | `MotorOff` | `[]MotorOffAtEnd` | |
| | `RequestsHandledAsAsked` | `HandledAsAsked` | |
| `ModbusClient_proofs` | `TypeCorrect` | `[]TypeOK` | `MCModbusClient_faults` |
| | `OneLoopBacksOff` | `[]OneBackoff` | |
| `Boot_proofs` | `WifiTypeCorrect` | `[]W!TypeOK`, the part of `BootTypeOK` about Wi-Fi | `MCBoot_all` |
| | `StationNeverIdle` | `[]NeverIdle` | |
| | `LedAlternates` | `Alternates` | |
| | `DependenciesAlwaysHeld` | `[]DependenciesHeld`, for all nineteen programs | |
| | `BootTypeCorrect` | `[]BootTypeOK` | |

They assume what is named where the constants are declared (`FdAssumption`,
`ControllerAssumption`, `MotorTaskAssumption`, ...).  Two theorems have a
hypothesis more.  `OrderlyClientsFit` needs clients that do not reset
(`"rst" \notin PeerEnds`); without it the property is false, which the runs
that find a violation show.  `RecoversFromTorn` needs that arithmetic on finite
numbers stays finite (`~MayOverflow`), as its run has it: it is about NaN made of two
halves, not about parameters near the greatest float, which give an infinity even
when they are read whole.

### Arguments

*The table.*  `TableMatchesKernel` is inductive with `TypeOK` and the absence of
duplicates.  The heart is `server_close_fd`: removing by swapping with the last
(`RemoveAtRange`) takes out exactly one descriptor of a sequence without
repetitions, and the descriptor `accept` returns is closed, hence not in it.
The refinement follows step by step: `active` grows in `ScanAccept` only, where
there is room, and loses one descriptor in each step that closes one; the bound
is `SeqRangeBound`.

*Live connections.*  Where the loop waits is too late to begin with: inductive is
`Live`, the same at every point of the loop.  A mark costs nothing, because what is
marked was closed or its client is gone, and the removal by swap keeps every
entry but one that is marked.

*`poll_fds`.*  That it has room is not inductive: a stale entry would let it
overflow.  `OrderlyInv` adds that unmarked entries stand for distinct connections
of the table, that marks belong to the present pass, and that no hangup is
reported without a reset.  Then, as `poll_fds` has room for the table and two
more and accepting needs room in the table, there is room (`EntriesBounded`,
a count of an injection).

*The counts.*  `BinBound` says that a bin counts at most half its reads, rounded
up.  Inductive is `BinInv`: in the current bin each revolution but the one under
way took two readings.  The proof follows a tick: what a reading does to
`is_close` and the count (`ReadingCounts`), to the bound (`ReadingBound`), then the
tick that stays in its bin and the one that moves on.

*The counters.*  `PerfNeverFull` is strengthened to `CountersInv`, and
`NoSampleDropped` to `CountsInv`: the samples are as many as the phases since the
last report, a product of the numbers of the iterations.

*Feedback.*  The lemmas of `Operators_proofs` follow the classes of floats through
the formula (`RawControlFinite`), and `SanitisedFinite` what `finite_or_zero` makes
of any result.

*The window.*  The window is the ring read from the place behind `tail`
(`WindowOf`), and pushing a bin shifts it (`WindowShifts`); `SameTotal` says that
the sum does not depend on the order in which it is taken.  That sum is a fold over
a set, so what it is for every number of bins needs an induction: `SumsRecursion`
and `SumsAdditive` take the least counterexample instead, by well-foundedness of
`<` on the numbers.

*The range of 0-tune.*  The bins of the window, last first, hold no more
revolutions than are counted among the readings those bins can have had, for each
number of bins (`Covered`); with all of them this is the property.  Failed readings
make the ring of readings reach further back than the window, never less far.

*Registers.*  `Fresh` says how far the request under way has got, word by word in
the order of its addresses; a control phase then reads no word older than the last
request that was complete when it began.

*Requests.*  `RangeIsLegal` is the arithmetic on `u16`: for each address and count
there is a range exactly when the floats asked for exist, address 0 with count 0
being the sum that panics or wraps.

*The dashboard.*  `OneBackoff` holds only with what the flag says of the others
(`Inv`): while there is no client nobody waits for a socket.  `retryNumber` passes
its limit only to close the client.

*Wi-Fi and the LED.*  `EventsInv` says which events can wait by what the driver has
come to; a station is idle only with an event still to be handled, a refusal or the
FAIL bit (`QuietInv`).  `LedInv` says that the next level is the other one, until
the loop ends or a failure in Zig.

*Start and end.*  `StartInv` is the invariant.  While a program starts or runs, it
holds what its steps got and perhaps the timer that the controller's task started;
once it stops, `Unwinds` relates what is held to what is still to be given back:
everything held has what it uses, everything in the list that is used comes after
its user, and the timer is not stopped before its task is gone.  `May` is what the
race adds: in C the task may start the timer at any time, so what is held must be
in order with the timer, too.  `GivingBackUnwinds` is the step: the first of the
list is given back, and what is left still unwinds.  This holds of any table that
is `WellFormed`, and needs no table to be looked at.

*The nineteen tables* are well formed (`AllStart`), not by enumeration of their
states but by how they are built.  Every program acquires users after what they
use (`UsersLast`); therefore a scope of Zig or Rust, which gives back in reverse,
gives back users first (`ReverseUndoes`, `ScopedUndoes`), whatever it leaves out as
long as that uses nothing it gives back (`KeepsUsed`).  The lists of C
are looked at one by one, per `init` function (`ServicesCPart`, `ControllerBmCPart`,
...).  Then parts are put behind each other (`PartsJoined`) and what the caller gives
back behind what the callee does (`ThenPart`), as `main` and its returns do.  The one
step that fails while the timer may run, the second task of `c/3-pid-bm`, is apart
(`RaceSound`): it deletes the first task before anything else.  `KnownDangling` is no
hypothesis but part of `DependenciesHeld`: the pairs for which the code is wrong, or
leaves to the restart of the chip.  The run `MCBoot_all` gives TLC the same programs;
its mutant, `controller_deinit` without `gptimer_disable`, shows the property can fail.

### Only model-checked

* Liveness and whatever rests on fairness: `ControllerKeepsRunning`, `RequestsTaken`,
  `GracefulStop`, `RequestsAnswered`, `KeepsReading`, `ParamsTakeEffect`,
  `StopsOnInterrupt`, `BootEnds`.  TLAPS proves neither fairness nor `ENABLED`.
* Recursive definitions can be proved about where the argument is a number or a
  finite set (the least counterexample, as above); the induction theorems of the
  library, which take a predicate, cannot be used.

## 5. Not modelled

* Bytes and texts: the contents of Modbus frames, of logs and reports, JSON.
* Time: intervals and time-outs are steps that may happen; late ticks are ticks.
* tokio-modbus, libmodbus, esp-modbus, jsmodbus, FreeRTOS, ESP-IDF, Linux: only
  what the code uses of them, marked external.
* libmodbus's orders of halves differ between C (`badc`) and Zig/Rust (`abcd`) on
  the Raspberry Pi; which one a client needs is not a question of this code alone.
* The count of the heap (`memory.*`).  Two defects were seen while reading: in the
  profile dev of Rust (and a safe build of Zig) a `realloc` that shrinks
  underflows the unsigned count (`memory.rs:80`), and `CountingAllocator.resize`
  of Zig counts a resize that the allocator refused (`memory.zig:78`).
* The command byte of the ADC: `DEFAULT_READ_COMMAND & (channel << 4)`
  (`rust/3-pid/src/controller.rs:304`) is 0 for channel 0 and looks like an OR.
* The log of Modbus requests on the ESP32, whose loop changes nothing.
* Charts and pages but the control page, the event stream itself, `analyze/`.

## 6. Plan

1. Done: poll loop and table, controller, 0-tune, Rust server, dashboard,
   controller task, start and end composed with Wi-Fi.
2. To extend: reads of the input registers on the ESP32 while they are written;
   the event stream of the dashboard with pages that come and go; the poll loop
   composed with the controller, so that a late tick and a slow client meet.
3. Proved: every safety property that a run checks.  To prove: what the extensions
   above add.
