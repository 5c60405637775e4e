----------------------------- MODULE Boot_proofs -----------------------------
(***************************************************************************)
(* What holds of the programs with their Wi-Fi whatever MaximumRetry and   *)
(* UpdatesPerReport are: the queue of events stays short and the retries   *)
(* are counted, no station gives up in silence, the LED alternates, and    *)
(* every program gives back users before what they use, but for the pairs  *)
(* that Lifecycle names for it in KnownDangling.  Which events can         *)
(* wait depends on what the driver has come to: it posts one when it gets  *)
(* an address and one when it loses the link, and only a handled event     *)
(* makes it try again.  What is given back depends on the table of the     *)
(* program: each of the nineteen is shown to be well formed.               *)
(***************************************************************************)
EXTENDS Boot, TLAPS

-----------------------------------------------------------------------------
(* The Wi-Fi *)

Kinds == {"start", "disconnected", "got_ip"}

\* What can wait to be handled, by what the driver has come to.
EventsInv ==
  /\ events \in Seq(Kinds)
  /\ station \in {"trying", "associated"} => Len(events) = 0
  /\ station = "addressed" => Len(events) <= 1 /\ (Len(events) = 1 => events[1] = "got_ip")
  /\ station = "idle" =>
       /\ Len(events) <= 2
       /\ Len(events) = 2 => events[1] = "got_ip" /\ events[2] = "disconnected"
       /\ Len(events) = 1 => events[1] \in {"start", "disconnected"}

WifiTypes ==
  /\ main \in {"waiting", "connecting", "serving", "failed"}
  /\ station \in {"idle", "trying", "associated", "addressed"}
  /\ retries \in 0..MaximumRetry
  /\ bits \subseteq {"connected", "failed"}
  /\ refused \in BOOLEAN

\* An idle station with nothing in its queue was refused or has used up its retries.
QuietInv ==
  station = "idle" /\ program.lang # "Rust" =>
    refused \/ "failed" \in bits \/ Len(events) > 0

WifiInv == EventsInv /\ WifiTypes /\ QuietInv

\* One event is posted behind those that wait (Append), and one is taken from
\* their front (Tail), in the handler of events of the Wi-Fi.
LEMMA Queues ==
  ASSUME NEW q \in Seq(Kinds), NEW e \in Kinds
  PROVE  /\ Append(q, e) \in Seq(Kinds)
         /\ Len(Append(q, e)) = Len(q) + 1
         /\ \A j \in 1..Len(q) : Append(q, e)[j] = q[j]
         /\ Append(q, e)[Len(q) + 1] = e
         /\ q # <<>> => /\ Len(q) > 0 /\ Head(q) = q[1]
                        /\ Tail(q) \in Seq(Kinds)
                        /\ Len(Tail(q)) = Len(q) - 1
                        /\ \A j \in 1..(Len(q) - 1) : Tail(q)[j] = q[j + 1]
  <1>1. q # <<>> => Tail(q) \in Seq(Kinds) /\ Len(q) > 0 /\ Len(Tail(q)) = Len(q) - 1
    OBVIOUS
  <1> QED BY <1>1

\* Handling one event leaves what may wait, whatever it starts (wifi.c:37-57).
LEMMA HandlerKeeps ==
  ASSUME WifiInv, W!Handler
  PROVE  WifiInv'
  <1>1. /\ Len(events) \in Nat /\ Len(events) > 0 /\ Head(events) = events[1]
        /\ events' \in Seq(Kinds) /\ Len(events') = Len(events) - 1
        /\ \A j \in 1..(Len(events) - 1) : events'[j] = events[j + 1]
        /\ program.lang' = program.lang
    <2>1. events \in Seq(Kinds) /\ events # <<>> /\ events' = Tail(events)
      BY DEF WifiInv, EventsInv, W!TakeEvent, W!Handler, W!HandleStart,
             W!HandleDisconnected, W!HandleGotIp
    <2>2. program.lang' = program.lang
      BY DEF W!Handler, W!HandleStart, W!HandleDisconnected, W!HandleGotIp
    <2>3. "start" \in Kinds
      BY DEF Kinds
    <2> QED BY <2>1, <2>2, <2>3, Queues
  <1>2. station \in {"idle", "trying", "associated", "addressed"} /\ Len(events') \in Nat
    BY <1>1 DEF WifiInv, WifiTypes
  <1>3. CASE Head(events) \in {"start", "disconnected"}
    <2>1. station = "idle" /\ Len(events') = 0
      BY <1>1, <1>2, <1>3 DEF WifiInv, EventsInv
    <2>2. station' \in {"idle", "trying"}
      BY <2>1, <1>3 DEF W!Handler, W!HandleStart, W!HandleDisconnected, W!HandleGotIp,
                        W!Retry, W!Taken, W!Refused
    <2>3. EventsInv'
      <3>1. Len(events') # 1 /\ Len(events') # 2 /\ Len(events') <= 2
        BY <2>1
      <3> QED BY <1>1, <2>1, <2>2, <3>1 DEF EventsInv
    <2>4. CASE W!HandleStart
      <3>1. /\ UNCHANGED <<main, retries, bits>>
            /\ \/ UNCHANGED <<station, refused>> /\ program.lang = "Rust"
               \/ station' = "trying" /\ UNCHANGED refused
               \/ refused' = TRUE /\ UNCHANGED station
        BY <2>4 DEF W!HandleStart, W!Taken, W!Refused
      <3>2. WifiTypes'
        BY <2>2, <3>1 DEF WifiInv, WifiTypes
      <3>3. QuietInv'
        BY <1>1, <3>1 DEF QuietInv
      <3> QED BY <2>3, <3>2, <3>3 DEF WifiInv
    <2>5. CASE W!HandleDisconnected
      <3>1. WifiTypes'
        <4>1. /\ main' = main
              /\ retries' = retries \/ (retries < MaximumRetry /\ retries' = retries + 1)
              /\ bits' = bits \/ bits' = bits \cup {"failed"}
              /\ refused' = refused \/ refused' = TRUE
          BY <2>5 DEF W!HandleDisconnected, W!Retry, W!MayRetry, W!Taken, W!Refused
        <4>2. retries' \in 0..MaximumRetry
          BY <4>1, BootAssumption DEF WifiInv, WifiTypes
        <4>3. bits' \subseteq {"connected", "failed"}
          BY <4>1 DEF WifiInv, WifiTypes
        <4> QED BY <2>2, <4>1, <4>2, <4>3 DEF WifiInv, WifiTypes
      <3>2. QuietInv'
        BY <1>1, <2>5 DEF QuietInv, W!HandleDisconnected, W!Retry, W!Taken, W!Refused
      <3> QED BY <2>3, <3>1, <3>2 DEF WifiInv
    <2> QED BY <1>3, <2>4, <2>5 DEF W!Handler, W!HandleGotIp
  <1>4. CASE Head(events) = "got_ip"
    <2>1. /\ W!HandleGotIp
          /\ UNCHANGED <<main, station, refused>>
          /\ retries' = retries \/ retries' = 0
          /\ bits' = bits \/ bits' = bits \cup {"connected"}
      BY <1>4 DEF W!Handler, W!HandleStart, W!HandleDisconnected, W!HandleGotIp
    <2>2. \/ station = "addressed" /\ Len(events') = 0
          \/ station = "idle" /\ Len(events') = 1 /\ events'[1] = "disconnected"
      BY <1>1, <1>2, <1>4 DEF WifiInv, EventsInv
    <2>3. EventsInv'
      BY <1>1, <2>1, <2>2 DEF EventsInv
    <2>4. WifiTypes'
      <3>1. retries' \in 0..MaximumRetry
        BY <2>1, BootAssumption DEF WifiInv, WifiTypes
      <3>2. bits' \subseteq {"connected", "failed"}
        BY <2>1 DEF WifiInv, WifiTypes
      <3> QED BY <2>1, <3>1, <3>2 DEF WifiInv, WifiTypes
    <2>5. QuietInv'
      BY <2>1, <2>2 DEF QuietInv
    <2> QED BY <2>3, <2>4, <2>5 DEF WifiInv
  <1>5. Head(events) \in {"start", "disconnected", "got_ip"}
    BY DEF W!Handler, W!HandleStart, W!HandleDisconnected, W!HandleGotIp
  <1> QED BY <1>3, <1>4, <1>5

\* The main task takes no event, and it asks the driver to try only when none
\* waits (services.rs:60, connect).
LEMMA MainTaskKeeps ==
  ASSUME WifiInv, W!MainTask
  PROVE  WifiInv'
  <1> USE DEF WifiInv, EventsInv, WifiTypes, QuietInv
  <1>1. CASE W!WaitEnds
    BY <1>1 DEF W!WaitEnds
  <1>2. CASE W!RustConnects
    <2>1. Len(events) = 0 /\ events' = events /\ program.lang = "Rust"
      BY <1>2 DEF W!RustConnects
    <2>2. EventsInv'
      BY <2>1, <1>2 DEF W!RustConnects, W!Taken, W!Refused
    <2>3. WifiTypes'
      BY <2>1, <1>2 DEF W!RustConnects, W!Taken, W!Refused
    <2> QED BY <2>1, <2>2, <2>3, <1>2 DEF W!RustConnects
  <1>3. CASE W!RustIsUp
    BY <1>3 DEF W!RustIsUp
  <1>4. CASE W!RustTimesOut
    BY <1>4 DEF W!RustTimesOut
  <1> QED BY <1>1, <1>2, <1>3, <1>4 DEF W!MainTask

\* The driver posts its events in the order in which an attempt proceeds.
LEMMA DriverKeeps ==
  ASSUME WifiInv, W!Driver
  PROVE  WifiInv'
  <1> USE DEF WifiInv, EventsInv, WifiTypes, QuietInv
  <1>1. CASE W!Joins
    BY <1>1 DEF W!Joins
  <1>2. CASE W!GetsAddress
    BY <1>2, Queues DEF W!GetsAddress, Kinds
  <1>3. CASE W!Disconnects
    <2>1. /\ events' \in Seq(Kinds) /\ Len(events) \in Nat
          /\ Len(events') = Len(events) + 1
          /\ \A j \in 1..Len(events) : events'[j] = events[j]
          /\ events'[Len(events) + 1] = "disconnected"
      BY <1>3, Queues DEF W!Disconnects, Kinds
    <2>2. Len(events) <= 1 /\ (Len(events) = 1 => events[1] = "got_ip")
      BY <1>3 DEF W!Disconnects
    <2>3. station' = "idle" /\ UNCHANGED <<main, retries, bits, refused>>
      BY <1>3 DEF W!Disconnects
    <2>4. EventsInv'
      <3>1. CASE Len(events) = 0
        BY <3>1, <2>1, <2>3
      <3>2. CASE Len(events) = 1
        BY <3>2, <2>1, <2>2, <2>3
      <3> QED
        <4>1. Len(events) = 0 \/ Len(events) = 1
          <5>1. Len(events) \in Nat /\ Len(events) <= 1
            BY <2>1, <2>2
          <5>2. \A n \in Nat : n <= 1 => n = 0 \/ n = 1
            OBVIOUS
          <5> QED BY ONLY <5>1, <5>2
        <4> QED BY <4>1, <3>1, <3>2
    <2>5. WifiTypes' /\ QuietInv'
      BY <2>1, <2>3
    <2> QED BY <2>4, <2>5
  <1> QED BY <1>1, <1>2, <1>3 DEF W!Driver

\* A program begins with its driver idle and the event "start" in the queue.
LEMMA BeginningFits ==
  ASSUME station = "idle", main = "waiting", events = <<"start">>, retries = 0, bits = {},
         refused = FALSE
  PROVE  WifiInv
  <1>1. events \in Seq(Kinds) /\ Len(events) = 1 /\ events[1] = "start"
    BY DEF Kinds
  <1>2. EventsInv
    BY <1>1 DEF EventsInv
  <1>3. WifiTypes
    <2>1. retries \in 0..MaximumRetry
      BY BootAssumption
    <2>2. bits \subseteq {"connected", "failed"}
      OBVIOUS
    <2> QED BY <2>1, <2>2 DEF WifiTypes
  <1>4. QuietInv
    BY <1>1 DEF QuietInv
  <1> QED BY <1>2, <1>3, <1>4 DEF WifiInv

\* No step of the program itself touches the Wi-Fi, and what begins again begins
\* with it anew (app_main of each program).
LEMMA WifiInductive ==
  ASSUME WifiInv, [BootNext]_bootVars
  PROVE  WifiInv'
  <1>1. CASE UNCHANGED wifi /\ UNCHANGED program
    BY <1>1 DEF WifiInv, EventsInv, WifiTypes, QuietInv, wifi
  <1>2. CASE WifiHandler
    BY <1>2, HandlerKeeps DEF WifiHandler
  <1>3. CASE WifiMainTask
    BY <1>3, MainTaskKeeps DEF WifiMainTask
  <1>4. CASE WifiDriver
    BY <1>4, DriverKeeps DEF WifiDriver
  <1>5. CASE Reboots
    <2>1. events' \in Seq(Kinds) /\ Len(events') = 1 /\ events'[1] = "start"
      BY <1>5 DEF Reboots, W!Restart, Kinds
    <2>2. EventsInv'
      BY <1>5, <2>1 DEF Reboots, W!Restart, EventsInv
    <2>3. WifiTypes'
      <3>1. retries' \in 0..MaximumRetry
        BY <1>5, BootAssumption DEF Reboots, W!Restart
      <3>2. bits' \subseteq {"connected", "failed"}
        BY <1>5 DEF Reboots, W!Restart
      <3> QED BY <1>5, <3>1, <3>2 DEF Reboots, W!Restart, WifiTypes
    <2>4. QuietInv'
      BY <2>1 DEF QuietInv
    <2> QED BY <2>2, <2>3, <2>4 DEF WifiInv
  <1>6. Runs \/ Beside \/ UNCHANGED bootVars => UNCHANGED wifi /\ UNCHANGED program
    BY DEF Runs, Beside, bootVars, vars, fixed, Program, StepSucceeds, StepFails, GiveBack,
           Ends, BeginRound, Update, UpdateFails, ToggleEndsMain, Report, Stop, StartTimer,
           Interrupt
  <1> QED BY <1>1, <1>2, <1>3, <1>4, <1>5, <1>6 DEF BootNext

\* Two events at most wait, and the retries stay within their limit (wifi.c:44,
\* Wifi.zig: retry_count), after any number of losses of the link.
THEOREM WifiTypeCorrect == BootSpec => []W!TypeOK
  <1>1. BootInit => WifiInv
    BY BeginningFits DEF BootInit, W!Init
  <1>2. WifiInv /\ [BootNext]_bootVars => WifiInv'
    BY WifiInductive
  <1>3. WifiInv => W!TypeOK
    BY DEF WifiInv, EventsInv, WifiTypes, W!TypeOK, Kinds
  <1> QED BY <1>1, <1>2, <1>3, PTL DEF BootSpec

\* Whatever the access point does and whenever the handler gets to run, a station
\* that is not connected tries to be or is about to, as long as retries are left.
THEOREM StationNeverIdle == BootSpec => []NeverIdle
  <1>1. BootInit => WifiInv
    BY BeginningFits DEF BootInit, W!Init
  <1>2. WifiInv /\ [BootNext]_bootVars => WifiInv'
    BY WifiInductive
  <1>3. ASSUME WifiInv PROVE NeverIdle
    <2>1. SUFFICES ASSUME station = "idle", program.lang # "Rust", Len(events) > 0
                   PROVE  \E j \in DOMAIN events : events[j] # "got_ip"
      BY <1>3 DEF NeverIdle, W!NeverIdle, WifiInv, QuietInv
    <2>2. events \in Seq(Kinds) /\ Len(events) <= 2
      BY <1>3, <2>1 DEF WifiInv, EventsInv
    <2>3. Len(events) \in Nat /\ DOMAIN events = 1..Len(events)
      BY <2>2
    <2>4. CASE Len(events) = 1
      BY <1>3, <2>1, <2>3, <2>4 DEF WifiInv, EventsInv
    <2>5. CASE Len(events) = 2
      <3>1. events[2] = "disconnected" /\ 2 \in DOMAIN events
        BY <1>3, <2>1, <2>3, <2>5 DEF WifiInv, EventsInv
      <3> QED BY <3>1
    <2>6. Len(events) = 1 \/ Len(events) = 2
      BY <2>1, <2>2, <2>3
    <2> QED BY <2>4, <2>5, <2>6
  <1> QED BY <1>1, <1>2, <1>3, PTL DEF BootSpec

-----------------------------------------------------------------------------
(* The LED of blinky *)

\* The next level differs from the one shown while the loop runs, but in Zig on
\* the Raspberry Pi after a failure.
LedInv ==
  /\ i \in Nat
  /\ next \in {"low", "high"}
  /\ shown \in {"low", "high", "unset"}
  /\ /\ program.does = "blinky"
     /\ pc \in {"starting", "top", "round"}
     /\ shown # "unset"
     /\ skipped => ~(program.lang = "Zig" /\ program.on = "os")
     => next # shown

\* Updates that succeed and fail, reports, the end and a restart of the chip
\* (1-blinky/main.zig:46-58).
LEMMA LedInductive ==
  ASSUME LedInv, [BootNext]_bootVars
  PROVE  LedInv'
  <1> USE DEF LedInv, fixed, looping, starting
  <1>1. CASE UNCHANGED vars
    BY <1>1 DEF vars
  <1>2. CASE StepSucceeds \/ StepFails \/ GiveBack \/ Ends \/ BeginRound \/ ToggleEndsMain
    BY <1>2 DEF StepSucceeds, StepFails, GiveBack, Ends, BeginRound, ToggleEndsMain
  <1>3. CASE Update
    BY <1>3 DEF Update, Opposite
  <1>4. CASE UpdateFails
    BY <1>4 DEF UpdateFails, NextAfterFailure, Opposite
  <1>5. CASE Report
    BY <1>5 DEF Report
  <1>6. CASE Stop
    BY <1>6 DEF Stop
  <1>7. CASE StartTimer \/ Interrupt
    BY <1>7 DEF StartTimer, Interrupt
  <1>8. CASE Restart
    BY <1>8 DEF Restart, Starts
  <1> QED BY <1>1, <1>2, <1>3, <1>4, <1>5, <1>6, <1>7, <1>8
             DEF BootNext, bootVars, Runs, Program, WifiHandler, WifiMainTask, WifiDriver,
                 WifiRuns, Beside, Reboots

\* An update that counts and does not fail is one that sets the level (main.zig:54).
LEMMA UpdateAlternates ==
  ASSUME LedInv, [BootNext]_bootVars, program.does = "blinky", i' = i + 1, ~skipped',
         shown # "unset", skipped => ~(program.lang = "Zig" /\ program.on = "os")
  PROVE  shown' # shown
  <1>1. i' # i
    BY DEF LedInv
  <1>2. Update \/ UpdateFails \/ Report \/ Restart
    BY <1>1 DEF BootNext, bootVars, vars, looping, fixed, starting, Runs, Program, WifiHandler,
                WifiMainTask, WifiDriver, WifiRuns, Beside, Reboots, StepSucceeds, StepFails,
                GiveBack, Ends, BeginRound, ToggleEndsMain, Stop, StartTimer, Interrupt
  <1>3. ~Report /\ ~Restart
    BY DEF LedInv, Report, Restart, Starts
  <1>4. ~UpdateFails
    BY DEF UpdateFails
  <1>5. Update
    BY <1>2, <1>3, <1>4
  <1> QED BY <1>5 DEF Update, LedInv

\* The LED changes with every update that sets it, however failures, reports and
\* restarts come between, for any number of updates to a report.
THEOREM LedAlternates == BootSpec => Alternates
  <1>1. BootInit => LedInv
    BY DEF BootInit, Init, LedInv
  <1>2. LedInv /\ [BootNext]_bootVars => LedInv'
    BY LedInductive
  <1>3. LedInv /\ [BootNext]_bootVars =>
          [ /\ program.does = "blinky" /\ i' = i + 1 /\ ~skipped'
            /\ shown # "unset"
            /\ skipped => ~(program.lang = "Zig" /\ program.on = "os")
            => shown' # shown ]_vars
    BY UpdateAlternates
  <1> QED BY <1>1, <1>2, <1>3, PTL DEF BootSpec, Alternates

-----------------------------------------------------------------------------
(* Giving back, users first *)

\* What the task of the controller has when it starts the timer (StartTimer).
Starters == {"controller_task", "timer_enabled"}

\* What a program that holds H may come to hold: in C the task starts the timer while
\* main still gets more, or gives back already.
May(p, H) ==
  IF p.lang = "C" /\ Starters \subseteq H THEN H \cup {"timer_running"} ELSE H

\* Whoever is in H has what it uses.
Complete(p, H) ==
  \A use \in Uses \ KnownDangling(p) :
    use[1] \in H /\ use[2] \in AcquiresOf(Steps[p]) => use[2] \in H

\* Nothing that something in H uses is given back by u before its user.
UsersFirst(p, H, u) ==
  \A use \in Uses \ KnownDangling(p) : use[1] \in H =>
    \A j \in 1..Len(u) : u[j] = use[2] => \E l \in 1..(j - 1) : u[l] = use[1]

\* The timer that runs is not stopped before its task, or what the task needs, is gone:
\* stopped any earlier, it could be started again.
StopsTimer(H, u) ==
  Starters \subseteq H =>
    \A j \in 1..Len(u) : u[j] = "timer_running" => \E l \in 1..(j - 1) : u[l] \in Starters

\* What u gives back is given back in a good order, whenever the timer starts.
Unwinds(p, H, u) ==
  /\ Complete(p, May(p, H))
  /\ UsersFirst(p, May(p, H), u)
  /\ StopsTimer(H, u)

\* What the pairs of Uses have in common: the timer that runs is used by nobody.
LEMMA UsesAre ==
  ASSUME NEW use \in Uses
  PROVE  use[2] # "timer_running" /\ use[1] # use[2] /\ use[2] \notin {None}
  BY DEF Uses, None

\* The timer is all that may be added, and the less is held the less may be added
\* (controller.c:397 of c/3-pid-bm).
LEMMA MayIs ==
  ASSUME NEW p, NEW H
  PROVE  /\ H \subseteq May(p, H)
         /\ May(p, H) \subseteq H \cup {"timer_running"}
         /\ "timer_running" \in May(p, H) =>
              "timer_running" \in H \/ (p.lang = "C" /\ Starters \subseteq H)
         /\ p.lang = "C" /\ Starters \subseteq H => "timer_running" \in May(p, H)
         /\ \A G \in SUBSET H : May(p, G) \subseteq May(p, H)
  BY DEF May

\* The rest of a sequence, and the first that is taken from it (GiveBack).
LEMMA SequenceTail ==
  ASSUME NEW S, NEW u \in Seq(S), u # <<>>
  PROVE  /\ Len(u) \in Nat /\ Len(u) > 0 /\ Head(u) = u[1] /\ u[1] \in S
         /\ Tail(u) \in Seq(S) /\ Len(Tail(u)) = Len(u) - 1
         /\ \A j \in 1..(Len(u) - 1) : Tail(u)[j] = u[j + 1]
  OBVIOUS

\* One thing is given back: what is left is still given back in a good order.  If it was
\* the task, nobody can start the timer any more; if it was the timer, the task is gone.
LEMMA GivingBackUnwinds ==
  ASSUME NEW p, NEW H, NEW S, NEW u \in Seq(S), u # <<>>, Unwinds(p, H, u)
  PROVE  Unwinds(p, H \ {Head(u)}, Tail(u))
  <1> DEFINE G == H \ {Head(u)}
             v == Tail(u)
  <1>1. /\ Len(u) \in Nat /\ Len(u) > 0 /\ Head(u) = u[1]
        /\ Len(v) = Len(u) - 1 /\ \A j \in 1..Len(v) : v[j] = u[j + 1]
    BY SequenceTail
  <1>2. /\ G \subseteq H /\ May(p, G) \subseteq May(p, H) /\ u[1] \notin G
        /\ u[1] \in May(p, G) => u[1] = "timer_running" /\ Starters \subseteq G
    <2>1. G \subseteq H /\ u[1] \notin G
      BY <1>1
    <2> QED BY <2>1, MayIs
  <1> HIDE DEF G, v
  <1>3. u[1] \notin May(p, G)
    <2>1. SUFFICES ASSUME u[1] = "timer_running", Starters \subseteq G PROVE FALSE
      BY <1>2
    <2>2. Starters \subseteq H
      BY <2>1, <1>2
    <2>3. 1 \in 1..Len(u) /\ ~\E l \in 1..(1 - 1) : u[l] \in Starters
      BY <1>1
    <2> QED BY <2>1, <2>2, <2>3 DEF Unwinds, StopsTimer
  <1>4. Complete(p, May(p, G))
    <2>1. SUFFICES ASSUME NEW use \in Uses \ KnownDangling(p), use[1] \in May(p, G),
                          use[2] \in AcquiresOf(Steps[p])
                   PROVE  use[2] \in May(p, G)
      BY DEF Complete
    <2>2. use[1] \in May(p, H)
      BY <1>2, <2>1
    <2>3. use[2] \in H
      <3>1. use[2] \in May(p, H)
        BY <2>1, <2>2 DEF Unwinds, Complete
      <3> QED BY <3>1, MayIs, UsesAre
    <2>4. u[1] # use[2]
      <3>1. ~\E l \in 1..(1 - 1) : u[l] = use[1]
        OBVIOUS
      <3>2. 1 \in 1..Len(u)
        BY <1>1
      <3> QED BY <2>1, <2>2, <3>1, <3>2 DEF Unwinds, UsersFirst
    <2>5. use[2] \in G
      BY <2>3, <2>4, <1>1 DEF G
    <2> QED BY <2>5, MayIs
  <1>5. UsersFirst(p, May(p, G), v)
    <2>1. SUFFICES ASSUME NEW use \in Uses \ KnownDangling(p), use[1] \in May(p, G),
                          NEW j \in 1..Len(v), v[j] = use[2]
                   PROVE  \E l \in 1..(j - 1) : v[l] = use[1]
      BY DEF UsersFirst
    <2>2. j \in Nat /\ j + 1 \in 1..Len(u) /\ u[j + 1] = use[2]
      BY <2>1, <1>1
    <2>3. PICK l \in 1..j : u[l] = use[1]
      <3>1. \E l \in 1..((j + 1) - 1) : u[l] = use[1]
        BY <2>1, <2>2, <1>2 DEF Unwinds, UsersFirst
      <3> QED BY <3>1, <2>2
    <2>4. l # 1
      BY <2>1, <2>3, <1>3
    <2>5. l - 1 \in 1..(j - 1) /\ l - 1 \in 1..Len(v) /\ (l - 1) + 1 = l
      BY <2>2, <2>3, <2>4, <1>1
    <2>6. v[l - 1] = u[l]
      BY ONLY <1>1, <2>5
    <2> QED BY <2>3, <2>5, <2>6
  <1>6. StopsTimer(G, v)
    <2>1. SUFFICES ASSUME Starters \subseteq G, NEW j \in 1..Len(v), v[j] = "timer_running"
                   PROVE  \E l \in 1..(j - 1) : v[l] \in Starters
      BY DEF StopsTimer
    <2>2. j \in Nat /\ j + 1 \in 1..Len(u) /\ u[j + 1] = "timer_running"
      BY <2>1, <1>1
    <2>3. PICK l \in 1..j : u[l] \in Starters
      <3>1. \E l \in 1..((j + 1) - 1) : u[l] \in Starters
        BY <2>1, <2>2, <1>2 DEF Unwinds, StopsTimer
      <3> QED BY <3>1, <2>2
    <2>4. l # 1
      BY <2>1, <2>3, <1>2
    <2>5. l - 1 \in 1..(j - 1) /\ l - 1 \in 1..Len(v) /\ (l - 1) + 1 = l
      BY <2>2, <2>3, <2>4, <1>1
    <2>6. v[l - 1] = u[l]
      BY ONLY <1>1, <2>5
    <2> QED BY <2>3, <2>5, <2>6
  <1> QED BY <1>4, <1>5, <1>6 DEF Unwinds, G, v

\* In C the timer may start at any time without harm to the order (app_main of 3-pid-bm).
LEMMA StartingUnwinds ==
  ASSUME NEW p, NEW H, NEW u, p.lang = "C", Starters \subseteq H, Unwinds(p, H, u)
  PROVE  Unwinds(p, H \cup {"timer_running"}, u)
  <1>1. May(p, H \cup {"timer_running"}) = May(p, H)
    BY DEF May
  <1>2. Starters \subseteq H \cup {"timer_running"} => Starters \subseteq H
    OBVIOUS
  <1> QED BY <1>1, <1>2 DEF Unwinds, StopsTimer

-----------------------------------------------------------------------------
(* From the start of a program to its end *)

\* What the first k steps of a table get.
Got(s, k) == {s[j].gets : j \in 1..k} \ {None}

\* Giving back u is right for a program that holds H.
Sound(p, H, u) ==
  Unwinds(p, H, u) /\ u \in Seq(AcquiresOf(Steps[p]) \cup {None})

\* The one program whose loop may end in a panic (ToggleEndsMain).
BlinkyBmRust == [lang |-> "Rust", does |-> "blinky", on |-> "bm"]

\* What is asked of the table of a program, and is shown below for each of them: whatever
\* step fails, and when the program is interrupted, everything comes back in a good order.
WellFormed(p) ==
  LET s == Steps[p]
      n == Len(s)
  IN /\ n \in Nat \ {0} /\ DOMAIN s = 1..n
     /\ \A k \in 1..n : s[k].gets # "timer_running" /\ Sound(p, Got(s, k - 1), s[k].undo)
     /\ Complete(p, Got(s, n))
     /\ Starters \subseteq Got(s, n) => Complete(p, Got(s, n) \cup {"timer_running"})
     /\ "handler" \in Got(s, n) =>
          ~(Starters \subseteq Got(s, n)) /\ Sound(p, Got(s, n), EndOf(p))
     /\ p = BlinkyBmRust =>
          ~(Starters \subseteq Got(s, n)) /\ Sound(p, Got(s, n), <<"perf">>)

\* Until the program fails or is interrupted, it holds what its steps got, and the timer
\* runs only if its task is there.
RunningInv ==
  /\ undo = <<>>
  /\ Got(steps, taken) \subseteq held
  /\ held \subseteq Got(steps, taken) \cup {"timer_running"}
  /\ "timer_running" \in held =>
       Starters \subseteq held /\ (program.lang = "C" \/ taken = Len(steps))
  /\ pc = "starting" => taken < Len(steps)
  /\ pc # "starting" => taken = Len(steps)

\* The invariant: before its end a program can still give back everything, and from then
\* on what is left to give back fits what is held.
StartInv ==
  /\ program \in Programs /\ steps = Steps[program]
  /\ pc \in {"starting", "top", "round", "stopping", "ended"}
  /\ taken \in 0..Len(steps)
  /\ held \subseteq Acquires
  /\ undo \in Seq(Acquires \cup {None})
  /\ pc \in {"starting", "top", "round"} => RunningInv
  /\ pc \in {"starting", "top", "round"} /\ ~doContinue => "handler" \in held
  /\ pc \in {"stopping", "ended"} => Unwinds(program, held, undo)

\* A step that succeeds gets what its row of the table names.
LEMMA GotOneMore ==
  ASSUME NEW s, NEW k \in Nat
  PROVE  /\ Got(s, 0) = {}
         /\ Got(s, k + 1) = Got(s, k) \cup ({s[k + 1].gets} \ {None})
  BY DEF Got

\* No program gets what its table does not name.
LEMMA GotIsAcquired ==
  ASSUME NEW s, NEW k \in 0..Len(s), DOMAIN s = 1..Len(s), Len(s) \in Nat
  PROVE  Got(s, k) \subseteq AcquiresOf(s)
  BY DEF Got, AcquiresOf

\* A step that fails leaves the right things to give back, also when the task of C has
\* started the timer meanwhile (main.c:95-106 of c/3-pid-bm).
LEMMA StepFailsKeeps ==
  ASSUME NEW p \in Programs, WellFormed(p), NEW k \in 1..Len(Steps[p]), NEW H,
         Got(Steps[p], k - 1) \subseteq H, H \subseteq Got(Steps[p], k - 1) \cup {"timer_running"},
         "timer_running" \in H => Starters \subseteq H /\ p.lang = "C"
  PROVE  Sound(p, H, Steps[p][k].undo)
  <1> DEFINE G == Got(Steps[p], k - 1)
             u == Steps[p][k].undo
  <1>1. Unwinds(p, G, u) /\ u \in Seq(AcquiresOf(Steps[p]) \cup {None})
    BY DEF WellFormed, Sound
  <1>2. H = G \/ (H = G \cup {"timer_running"} /\ p.lang = "C" /\ Starters \subseteq G)
    BY DEF Starters
  <1> HIDE DEF G, u
  <1>3. Unwinds(p, H, u)
    BY <1>1, <1>2, StartingUnwinds
  <1> QED BY <1>1, <1>3 DEF Sound, u

\* Steps that succeed and fail, what is given back one by one, signals, the race with the
\* task, ends and boots: none of them leaves the invariant.
LEMMA StartInductive ==
  ASSUME \A p \in Programs : WellFormed(p), StartInv, [BootNext]_bootVars
  PROVE  StartInv'
  <1> USE DEF fixed, starting, looping
  <1>1. /\ WellFormed(program) /\ Len(steps) \in Nat \ {0} /\ DOMAIN steps = 1..Len(steps)
        /\ program \in Programs /\ steps = Steps[program] /\ taken \in 0..Len(steps)
        /\ \A k \in 1..Len(steps) : steps[k].gets # "timer_running"
    BY DEF StartInv, WellFormed
  <1>2. CASE UNCHANGED <<program, steps, pc, taken, held, undo, doContinue>>
    BY <1>2 DEF StartInv, RunningInv, Acquires
  <1>3. CASE StepSucceeds
    <2>1. /\ UNCHANGED <<program, steps, undo, doContinue>> /\ pc = "starting"
          /\ taken < Len(steps) /\ taken \in Nat
          /\ taken' = taken + 1 /\ taken' \in 1..Len(steps)
          /\ pc' \in {"starting", "top"}
          /\ pc' = "starting" => taken' < Len(steps)
          /\ pc' # "starting" => taken' = Len(steps)
          /\ held' = held \cup ({steps[taken'].gets} \ {None})
      BY <1>1, <1>3 DEF StepSucceeds, StartInv, RunningInv
    <2>2. Got(steps', taken') = Got(steps, taken) \cup ({steps[taken'].gets} \ {None})
      BY <2>1, GotOneMore
    <2>3. RunningInv'
      BY <1>1, <2>1, <2>2 DEF StartInv, RunningInv
    <2>4. held' \subseteq Acquires'
      <3>1. Got(steps', taken') \subseteq AcquiresOf(steps)
        BY <1>1, <2>1, GotIsAcquired
      <3>2. "timer_running" \in AcquiresOf(steps)
        BY DEF AcquiresOf
      <3> QED BY <2>1, <2>3, <3>1, <3>2 DEF RunningInv, Acquires
    <2>5. undo' \in Seq(Acquires \cup {None})' /\ taken' \in 0..Len(steps')
      BY <2>1, <1>1 DEF StartInv, Acquires
    <2> QED BY <1>1, <2>1, <2>3, <2>4, <2>5 DEF StartInv
  <1>4. CASE StepFails
    <2>1. /\ UNCHANGED <<program, steps, taken, held, doContinue>> /\ pc = "starting"
          /\ taken + 1 \in 1..Len(steps)
          /\ pc' = "stopping" /\ undo' = steps[taken + 1].undo /\ taken = (taken + 1) - 1
      BY <1>1, <1>4 DEF StepFails, StartInv, RunningInv
    <2>2. Sound(program, held, steps[taken + 1].undo)
      <3> DEFINE k == taken + 1
      <3>1. k \in 1..Len(steps) /\ k - 1 = taken /\ k - 1 < Len(steps)
        BY <2>1, <1>1
      <3>2. /\ Got(steps, k - 1) \subseteq held
            /\ held \subseteq Got(steps, k - 1) \cup {"timer_running"}
            /\ "timer_running" \in held => Starters \subseteq held /\ program.lang = "C"
        BY <1>1, <2>1, <3>1 DEF StartInv, RunningInv
      <3> HIDE DEF k
      <3>3. Sound(program, held, steps[k].undo)
        BY <1>1, <3>1, <3>2, StepFailsKeeps
      <3> QED BY <3>3 DEF k
    <2> QED BY <1>1, <2>1, <2>2 DEF StartInv, Sound, Acquires
  <1>5. CASE GiveBack
    <2>1. /\ UNCHANGED <<program, steps, pc, taken, doContinue>> /\ pc = "stopping"
          /\ undo # <<>> /\ held' = held \ {Head(undo)} /\ undo' = Tail(undo)
      BY <1>5 DEF GiveBack
    <2>2. Unwinds(program, held', undo') /\ undo' \in Seq(Acquires \cup {None})
      BY <2>1, GivingBackUnwinds, SequenceTail DEF StartInv
    <2> QED BY <1>1, <2>1, <2>2 DEF StartInv, Acquires
  <1>6. CASE Ends
    BY <1>6 DEF Ends, StartInv, Acquires
  <1>7. CASE BeginRound \/ Report
    BY <1>7 DEF BeginRound, Report, StartInv, RunningInv, Acquires
  <1>8. CASE Update \/ UpdateFails
    BY <1>8, <1>2 DEF Update, UpdateFails
  <1>9. CASE ToggleEndsMain
    <2>1. /\ UNCHANGED <<program, steps, taken, held, doContinue>> /\ pc = "round"
          /\ pc' = "stopping" /\ undo' = <<"perf">> /\ program = BlinkyBmRust
          /\ program.lang = "Rust"
      BY <1>9 DEF ToggleEndsMain, BlinkyBmRust
    <2>2. taken = Len(steps) /\ RunningInv
      BY <2>1 DEF StartInv, RunningInv
    <2>3. /\ ~(Starters \subseteq Got(steps, taken))
          /\ Sound(program, Got(steps, taken), <<"perf">>)
      BY <1>1, <2>1, <2>2 DEF WellFormed
    <2>4. held = Got(steps, taken)
      BY <2>2, <2>3 DEF RunningInv, Starters
    <2>5. undo' \in Seq(Acquires \cup {None}) /\ Unwinds(program, held, undo')
      BY <1>1, <2>1, <2>3, <2>4 DEF Sound, Acquires
    <2> QED BY <2>1, <2>5 DEF StartInv, Acquires
  <1>10. CASE Stop
    <2>1. /\ UNCHANGED <<program, steps, taken, held, doContinue>> /\ pc = "top"
          /\ ~doContinue /\ pc' = "stopping" /\ undo' = EndOf(program)
      BY <1>10 DEF Stop
    <2>2. RunningInv /\ taken = Len(steps) /\ "handler" \in held
      BY <2>1 DEF StartInv, RunningInv
    <2>3. "handler" \in Got(steps, taken)
      BY <2>2 DEF RunningInv
    <2>4. /\ ~(Starters \subseteq Got(steps, taken))
          /\ Sound(program, Got(steps, taken), EndOf(program))
      BY <1>1, <2>2, <2>3 DEF WellFormed
    <2>5. held = Got(steps, taken)
      BY <2>2, <2>4 DEF RunningInv, Starters
    <2>6. undo' \in Seq(Acquires \cup {None}) /\ Unwinds(program, held, undo')
      BY <1>1, <2>1, <2>4, <2>5 DEF Sound, Acquires
    <2> QED BY <2>1, <2>6 DEF StartInv, Acquires
  <1>11. CASE StartTimer
    <2>1. /\ UNCHANGED <<program, steps, pc, taken, undo, doContinue>>
          /\ Starters \subseteq held
          /\ program.lang = "C" \/ pc = "top"
          /\ held' = held \cup {"timer_running"}
      BY <1>11 DEF StartTimer, Starters
    <2>2. held' \subseteq Acquires
      BY <2>1 DEF StartInv, Acquires, AcquiresOf
    <2>3. CASE pc \in {"starting", "top", "round"}
      BY <2>1, <2>2, <2>3 DEF StartInv, RunningInv, Acquires
    <2>4. CASE pc \in {"stopping", "ended"}
      <3>1. Unwinds(program, held', undo)
        BY <2>1, <2>4, StartingUnwinds DEF StartInv
      <3> QED BY <2>1, <2>2, <2>4, <3>1 DEF StartInv, Acquires
    <2> QED BY <2>3, <2>4 DEF StartInv
  <1>12. CASE Interrupt
    <2>1. UNCHANGED <<program, steps, pc, taken, held, undo>> /\ "handler" \in held
      BY <1>12 DEF Interrupt
    <2> QED BY <2>1 DEF StartInv, RunningInv, Acquires
  <1>13. CASE Restart
    <2>1. /\ UNCHANGED <<program, steps>> /\ pc' = "starting" /\ taken' = 0 /\ held' = {}
          /\ undo' = <<>> /\ doContinue' = TRUE
      BY <1>13 DEF Restart, Starts
    <2>2. Got(steps, 0) = {}
      BY GotOneMore
    <2> QED BY <1>1, <2>1, <2>2 DEF StartInv, RunningInv, Acquires
  <1> QED BY <1>2, <1>3, <1>4, <1>5, <1>6, <1>7, <1>8, <1>9, <1>10, <1>11, <1>12, <1>13
             DEF BootNext, bootVars, vars, Runs, Program, WifiHandler, WifiMainTask, WifiDriver,
                 WifiRuns, Beside, Reboots

\* Who has all it uses with a timer that may start has it without.
LEMMA WithoutTimer ==
  ASSUME NEW p, NEW H, Complete(p, May(p, H))
  PROVE  Complete(p, H)
  BY MayIs, UsesAre DEF Complete

\* The invariant is what it takes: nothing held lacks what it uses.
LEMMA StartHolds ==
  ASSUME \A p \in Programs : WellFormed(p), StartInv
  PROVE DependenciesHeld
  <1>1. /\ WellFormed(program) /\ Len(steps) \in Nat \ {0} /\ taken \in 0..Len(steps)
        /\ program \in Programs /\ steps = Steps[program]
    BY DEF StartInv, WellFormed
  <1>2. SUFFICES Complete(program, held)
    BY <1>1 DEF Complete, DependenciesHeld, Acquires
  <1>3. CASE pc = "starting"
    <2>1. taken + 1 \in 1..Len(steps) /\ RunningInv /\ taken + 1 - 1 = taken
      BY <1>1, <1>3 DEF StartInv, RunningInv
    <2>2. Unwinds(program, Got(steps, taken), steps[taken + 1].undo)
      BY <1>1, <2>1 DEF WellFormed, Sound
    <2>3. Complete(program, May(program, Got(steps, taken)))
      BY <2>2 DEF Unwinds
    <2>4. /\ Got(steps, taken) \subseteq held
          /\ held \subseteq Got(steps, taken) \cup {"timer_running"}
          /\ "timer_running" \in held =>
               program.lang = "C" /\ Starters \subseteq Got(steps, taken)
      <3>1. taken # Len(steps) /\ "timer_running" \notin Starters
        BY <1>1, <1>3, <2>1 DEF RunningInv, Starters
      <3> QED BY <2>1, <3>1 DEF RunningInv
    <2>5. held = Got(steps, taken) \/ held = May(program, Got(steps, taken))
      BY <2>4 DEF May
    <2> QED BY <2>3, <2>5, WithoutTimer
  <1>4. CASE pc \in {"top", "round"}
    <2>1. taken = Len(steps) /\ RunningInv
      BY <1>4 DEF StartInv, RunningInv
    <2>2. \/ held = Got(steps, taken)
          \/ /\ held = Got(steps, taken) \cup {"timer_running"}
             /\ Starters \subseteq Got(steps, taken)
      BY <2>1 DEF RunningInv, Starters
    <2> QED BY <1>1, <2>1, <2>2 DEF WellFormed
  <1>5. CASE pc \in {"stopping", "ended"}
    <2>1. Complete(program, May(program, held))
      BY <1>5 DEF StartInv, Unwinds
    <2> QED BY <2>1, WithoutTimer
  <1> QED BY <1>3, <1>4, <1>5 DEF StartInv

-----------------------------------------------------------------------------
(* Tables whose names come in a good order *)

\* The names of what a program gets or gives back.
NamesIn(N) == {N[k] : k \in 1..Len(N)} \cup {None, "timer_running"}

\* Users are acquired after what they use.
UsersLast(U, N) ==
  \A use \in U : \A j, k \in 1..Len(N) : N[j] = use[2] /\ N[k] = use[1] => j < k

\* When the first m names are held, u gives back each user before what it uses.
Undoes(U, N, m, u) ==
  \A use \in U : \A k \in 1..m : \A j \in 1..Len(u) :
    N[k] = use[1] /\ u[j] = use[2] => \E l \in 1..(j - 1) : u[l] = use[1]

\* Who is not given back uses only what is not given back either.
KeepsUsed(U, loose) ==
  \A use \in U : use[2] # None /\ (use[1] \in loose => use[2] \in loose)

\* The tables whose names are in A.
Table(A) == Seq([gets : A, undo : Seq(A)])

\* A sequence behind another (\o).
LEMMA SequenceJoined ==
  ASSUME NEW S, NEW s \in Seq(S), NEW t \in Seq(S)
  PROVE  /\ s \o t \in Seq(S) /\ Len(s \o t) = Len(s) + Len(t)
         /\ \A k \in 1..Len(s) : (s \o t)[k] = s[k]
         /\ \A k \in 1..Len(t) : (s \o t)[Len(s) + k] = t[k]
  OBVIOUS

\* A function over 1..n is a sequence.
LEMMA SequenceMade ==
  ASSUME NEW n \in Nat, NEW S, NEW f \in [1..n -> S]
  PROVE  f \in Seq(S) /\ Len(f) = n
  OBVIOUS

\* The two parts of a row.
LEMMA StepIs ==
  ASSUME NEW gets, NEW u
  PROVE  Step(gets, u).gets = gets /\ Step(gets, u).undo = u
  BY DEF Step

\* Then appends to every undo of a table and leaves the names (the goto labels of C that
\* fall through into those of the caller).
LEMMA ThenIs ==
  ASSUME NEW A, NEW s \in Table(A), NEW v \in Seq(A)
  PROVE  /\ Then(s, v) \in Table(A) /\ Len(Then(s, v)) = Len(s)
         /\ \A k \in 1..Len(s) : /\ Then(s, v)[k].gets = s[k].gets
                                 /\ Then(s, v)[k].undo = s[k].undo \o v
  <1> DEFINE R == [gets : A, undo : Seq(A)]
  <1>1. s \in Seq(R) /\ Len(s) \in Nat /\ DOMAIN s = 1..Len(s)
    BY DEF Table
  <1>2. \A k \in 1..Len(s) : s[k].gets \in A /\ s[k].undo \in Seq(A)
    <2>1. TAKE k \in 1..Len(s)
    <2>2. s[k] \in R
      <3> HIDE DEF R
      <3> QED BY <1>1
    <2> QED BY <2>2
  <1>3. \A k \in 1..Len(s) : Step(s[k].gets, s[k].undo \o v) \in R
    <2>1. TAKE k \in 1..Len(s)
    <2>2. s[k].undo \o v \in Seq(A)
      BY <1>2, SequenceJoined
    <2> QED BY <1>2, <2>2 DEF Step
  <1>4. Then(s, v) \in [1..Len(s) -> R]
    BY <1>1, <1>3 DEF Then
  <1>5. Then(s, v) \in Seq(R) /\ Len(Then(s, v)) = Len(s)
    <2> HIDE DEF R
    <2> QED BY <1>1, <1>4, SequenceMade
  <1>6. ASSUME NEW k \in 1..Len(s)
        PROVE  Then(s, v)[k] = Step(s[k].gets, s[k].undo \o v)
    BY <1>1 DEF Then
  <1>7. ASSUME NEW k \in 1..Len(s)
        PROVE  Then(s, v)[k].gets = s[k].gets /\ Then(s, v)[k].undo = s[k].undo \o v
    <2>1. Then(s, v)[k] = Step(s[k].gets, s[k].undo \o v)
      BY <1>6
    <2>2. Then(s, v)[k].gets = s[k].gets
      BY <2>1, StepIs
    <2>3. Then(s, v)[k].undo = s[k].undo \o v
      <3> DEFINE longer == s[k].undo \o v
      <3>1. Then(s, v)[k] = Step(s[k].gets, longer)
        BY <2>1
      <3> HIDE DEF longer
      <3>2. Then(s, v)[k].undo = longer
        BY <3>1, StepIs
      <3> QED BY <3>2 DEF longer
    <2> QED BY <2>2, <2>3
  <1> QED BY <1>5, <1>7 DEF Table

\* Deferred calls come in reverse order (defer, errdefer and drop).
LEMMA DeferredIs ==
  ASSUME NEW R, NEW g \in Seq(R)
  PROVE  /\ Deferred(g) \in Seq(R) /\ Len(Deferred(g)) = Len(g)
         /\ \A j \in 1..Len(g) : Deferred(g)[j] = g[Len(g) - j + 1]
  <1> DEFINE m == Len(g)
             u == Deferred(g)
  <1>1. m \in Nat /\ \A j \in 1..m : m - j + 1 \in 1..m /\ g[m - j + 1] \in R
    OBVIOUS
  <1>2. u \in [1..m -> R] /\ \A j \in 1..m : u[j] = g[m - j + 1]
    BY <1>1 DEF Deferred, Reverse
  <1> HIDE DEF u
  <1>3. u \in Seq(R) /\ Len(u) = m
    BY <1>1, <1>2, SequenceMade
  <1> QED BY <1>2, <1>3 DEF u

\* What was acquired with its users last is given back backwards with its users first, some
\* of it perhaps not at all.  This is why defer and drop are safe.
LEMMA ReverseUndoes ==
  ASSUME NEW U, NEW N, Len(N) \in Nat, UsersLast(U, N), NEW loose,
         KeepsUsed(U, loose), NEW m \in 0..Len(N), NEW R, NEW g \in Seq(R), Len(g) = m,
         \A k \in 1..m : g[k] = IF N[k] \in loose THEN None ELSE N[k]
  PROVE  Undoes(U, N, m, Deferred(g))
  <1> DEFINE u == Deferred(g)
  <1>1. /\ u \in Seq(R) /\ Len(u) = m
        /\ \A j \in 1..m : u[j] = g[m - j + 1]
    BY DeferredIs
  <1> HIDE DEF u
  <1>2. Undoes(U, N, m, u)
    <2>1. SUFFICES ASSUME NEW use \in U, NEW k \in 1..m, NEW j \in 1..m,
                          N[k] = use[1], u[j] = use[2]
                   PROVE  \E l \in 1..(j - 1) : u[l] = use[1]
      BY <1>1 DEF Undoes
    <2>2. use[2] # None
      BY DEF KeepsUsed
    <2>3. m - j + 1 \in 1..m /\ g[m - j + 1] = use[2]
      BY <1>1, <2>1
    <2>4. use[2] \notin loose /\ N[m - j + 1] = use[2]
      BY <2>2, <2>3
    <2>5. m - j + 1 < k
      BY <2>1, <2>3, <2>4 DEF UsersLast
    <2>6. g[k] = use[1]
      BY <2>1, <2>4 DEF KeepsUsed
    <2>7. m - k + 1 \in 1..(j - 1) /\ m - k + 1 \in 1..m /\ m - (m - k + 1) + 1 = k
      BY <2>5
    <2>8. u[m - k + 1] = use[1]
      BY <1>1, <2>6, <2>7
    <2> QED BY <2>7, <2>8
  <1> QED BY <1>1, <1>2 DEF u

\* What has no defer and no drop is left out, everything else stays in its place.
LEMMA GuardedIs ==
  ASSUME NEW A, None \in A, NEW N \in Seq(A), NEW loose
  PROVE  /\ Guarded(N, loose) \in Seq(A) /\ Len(Guarded(N, loose)) = Len(N)
         /\ \A k \in 1..Len(N) :
              Guarded(N, loose)[k] = IF N[k] \in loose THEN None ELSE N[k]
  <1> DEFINE g == Guarded(N, loose)
  <1>1. Len(N) \in Nat /\ DOMAIN N = 1..Len(N) /\ \A k \in 1..Len(N) : N[k] \in A
    OBVIOUS
  <1>2. g \in [1..Len(N) -> A] /\ \A k \in 1..Len(N) : g[k] = IF N[k] \in loose THEN None ELSE N[k]
    BY <1>1 DEF Guarded
  <1> HIDE DEF g
  <1>3. g \in Seq(A) /\ Len(g) = Len(N)
    BY <1>1, <1>2, SequenceMade
  <1> QED BY <1>2, <1>3 DEF g

\* What is guarded when step k fails.
Before(N, loose, k) == SubSeq(Guarded(N, loose), 1, k - 1)

\* It is what the steps before k got.
LEMMA BeforeIs ==
  ASSUME NEW A, None \in A, NEW N \in Seq(A), NEW loose, NEW k \in 1..Len(N)
  PROVE  /\ Before(N, loose, k) \in Seq(A) /\ Len(Before(N, loose, k)) = k - 1
         /\ \A j \in 1..(k - 1) :
              Before(N, loose, k)[j] = IF N[j] \in loose THEN None ELSE N[j]
  <1> DEFINE g == Guarded(N, loose)
             before == SubSeq(g, 1, k - 1)
  <1>1. k \in Nat /\ Len(N) \in Nat /\ k - 1 \in 0..Len(N)
    OBVIOUS
  <1>2. /\ g \in Seq(A) /\ Len(g) = Len(N)
        /\ \A j \in 1..Len(N) : g[j] = IF N[j] \in loose THEN None ELSE N[j]
    BY GuardedIs
  <1> HIDE DEF g
  <1>3. /\ before \in Seq(A) /\ Len(before) = k - 1
        /\ \A j \in 1..(k - 1) : before[j] = g[j]
    BY <1>1, <1>2
  <1> HIDE DEF before
  <1>4. \A j \in 1..(k - 1) : before[j] = IF N[j] \in loose THEN None ELSE N[j]
    BY <1>1, <1>2, <1>3
  <1> QED BY <1>3, <1>4 DEF before, g, Before

\* The rows of a table of Zig or Rust.
LEMMA ScopedIs ==
  ASSUME NEW A, None \in A, NEW N \in Seq(A), NEW loose, NEW k \in 1..Len(N)
  PROVE  /\ Scoped(N, loose)[k] = Step(N[k], Deferred(Before(N, loose, k)))
         /\ Scoped(N, loose)[k].gets = N[k]
         /\ Scoped(N, loose)[k].undo = Deferred(Before(N, loose, k))
         /\ Deferred(Before(N, loose, k)) \in Seq(A)
         /\ Len(Deferred(Before(N, loose, k))) = k - 1
  <1>1. Scoped(N, loose)[k] = Step(N[k], Deferred(Before(N, loose, k)))
    BY DEF Scoped, Before
  <1>2. /\ Deferred(Before(N, loose, k)) \in Seq(A)
        /\ Len(Deferred(Before(N, loose, k))) = k - 1
    BY BeforeIs, DeferredIs
  <1> QED BY <1>1, <1>2, StepIs

\* Entry j of what step k gives back is what step k - j got, or nothing.
LEMMA ScopedReverses ==
  ASSUME NEW A, None \in A, NEW N \in Seq(A), NEW loose, NEW k \in 1..Len(N),
         NEW j \in 1..(k - 1)
  PROVE  Scoped(N, loose)[k].undo[j] \in {N[k - j], None}
  <1> DEFINE before == Before(N, loose, k)
             u == Deferred(before)
  <1>1. PICK l \in 1..(k - 1) : l = k - j /\ l = (k - 1) - j + 1
    <2>1. k - j \in 1..(k - 1) /\ k - j = (k - 1) - j + 1
      OBVIOUS
    <2> QED BY <2>1
  <1>2. before \in Seq(A) /\ Len(before) = k - 1 /\ before[l] \in {N[l], None}
    BY BeforeIs
  <1> HIDE DEF before
  <1>3. u[j] = before[l]
    BY <1>1, <1>2, DeferredIs
  <1>4. u[j] \in {N[k - j], None}
    BY ONLY <1>1, <1>2, <1>3
  <1> QED BY <1>4, ScopedIs DEF before

\* A scope gives back users first, whatever step fails.
LEMMA ScopedUndoes ==
  ASSUME NEW U, NEW A, None \in A, NEW N \in Seq(A), UsersLast(U, N),
         NEW loose, KeepsUsed(U, loose)
  PROVE  /\ Scoped(N, loose) \in Table(A) /\ Len(Scoped(N, loose)) = Len(N)
         /\ \A k \in 1..Len(N) : Scoped(N, loose)[k].gets = N[k]
         /\ \A k \in 1..Len(N) : Undoes(U, N, k - 1, Scoped(N, loose)[k].undo)
  <1> DEFINE s == Scoped(N, loose)
             R == [gets : A, undo : Seq(A)]
  <1>1. Len(N) \in Nat /\ DOMAIN N = 1..Len(N) /\ \A k \in 1..Len(N) : N[k] \in A
    OBVIOUS
  <1>2. ASSUME NEW k \in 1..Len(N)
        PROVE  s[k].gets = N[k] /\ Undoes(U, N, k - 1, s[k].undo)
    <2> DEFINE h == Before(N, loose, k)
    <2>1. s[k].gets = N[k] /\ s[k].undo = Deferred(h)
      BY ScopedIs
    <2>2. /\ h \in Seq(A) /\ Len(h) = k - 1
          /\ \A j \in 1..(k - 1) : h[j] = IF N[j] \in loose THEN None ELSE N[j]
      BY BeforeIs
    <2>3. k - 1 \in 0..Len(N)
      BY <1>1
    <2> HIDE DEF h
    <2>4. Undoes(U, N, k - 1, Deferred(h))
      BY <1>1, <2>2, <2>3, ReverseUndoes
    <2> QED BY <2>1, <2>4
  <1>3. s \in [1..Len(N) -> R]
    <2>1. s = [k \in 1..Len(N) |-> Step(N[k], Deferred(Before(N, loose, k)))]
      BY <1>1 DEF Scoped, Before
    <2>2. ASSUME NEW k \in 1..Len(N)
          PROVE  Step(N[k], Deferred(Before(N, loose, k))) \in R
      <3>1. Deferred(Before(N, loose, k)) \in Seq(A)
        BY ScopedIs
      <3> QED BY <1>1, <3>1 DEF Step
    <2> HIDE DEF R
    <2> QED BY <2>1, <2>2
  <1> HIDE DEF s, R
  <1>4. s \in Seq(R) /\ Len(s) = Len(N)
    BY <1>1, <1>3, SequenceMade
  <1> QED BY <1>2, <1>4 DEF s, R, Table

\* Two lists that give back users first do so one after the other.
LEMMA UndoesJoined ==
  ASSUME NEW U, NEW N, NEW m \in Nat, NEW S, NEW u \in Seq(S), NEW v \in Seq(S),
         Undoes(U, N, m, u), Undoes(U, N, m, v)
  PROVE  Undoes(U, N, m, u \o v)
  <1>1. SUFFICES ASSUME NEW use \in U, NEW k \in 1..m, NEW j \in 1..(Len(u) + Len(v)),
                        N[k] = use[1], (u \o v)[j] = use[2]
                 PROVE  \E l \in 1..(j - 1) : (u \o v)[l] = use[1]
    <2>1. 1..Len(u \o v) = 1..(Len(u) + Len(v))
      BY SequenceJoined
    <2> QED BY <2>1 DEF Undoes
  <1>2. Len(u) \in Nat /\ Len(v) \in Nat
    OBVIOUS
  <1>3. CASE j \in 1..Len(u)
    <2>1. u[j] = use[2]
      BY <1>1, <1>3, SequenceJoined
    <2>2. PICK l \in 1..(j - 1) : u[l] = use[1]
      BY <1>1, <1>3, <2>1 DEF Undoes
    <2> QED BY <1>2, <1>3, <2>2, SequenceJoined
  <1>4. CASE j \in (Len(u) + 1)..(Len(u) + Len(v))
    <2>1. j - Len(u) \in 1..Len(v) /\ Len(u) + (j - Len(u)) = j
      BY <1>2, <1>4
    <2>2. v[j - Len(u)] = use[2]
      BY <1>1, <2>1, SequenceJoined
    <2>3. PICK l \in 1..(j - Len(u) - 1) : v[l] = use[1]
      BY <1>1, <2>1, <2>2 DEF Undoes
    <2>4. Len(u) + l \in 1..(j - 1) /\ l \in 1..Len(v)
      BY <1>2, <1>4, <2>3
    <2>5. (u \o v)[Len(u) + l] = use[1]
      BY <2>3, <2>4, SequenceJoined
    <2> QED BY <2>4, <2>5
  <1>5. j \in 1..Len(u) \/ j \in (Len(u) + 1)..(Len(u) + Len(v))
    BY <1>2
  <1> QED BY <1>3, <1>4, <1>5

\* A list of names is one over its own names.
LEMMA NamesFit ==
  ASSUME NEW S, NEW N \in Seq(S)
  PROVE  N \in Seq(NamesIn(N)) /\ None \in NamesIn(N)
  <1>1. Len(N) \in Nat /\ N \in [1..Len(N) -> NamesIn(N)]
    BY DEF NamesIn
  <1>2. None \in NamesIn(N)
    BY DEF NamesIn
  <1> HIDE DEF NamesIn
  <1> QED BY <1>1, <1>2, SequenceMade

\* Of the first m names in N, those that are not among the first q in M use nothing in u.
NothingElse(U, M, q, N, m, u) ==
  \A k \in 1..m :
    \/ \E l \in 1..q : M[l] = N[k]
    \/ \A use \in U : N[k] = use[1] => \A j \in 1..Len(u) : u[j] # use[2]

\* Users of a part come first in the whole too, if nobody else uses that part.
LEMMA UndoesElsewhere ==
  ASSUME NEW U, NEW M, NEW q, NEW u, Undoes(U, M, q, u), NEW N, NEW m,
         NothingElse(U, M, q, N, m, u)
  PROVE  Undoes(U, N, m, u)
  BY DEF Undoes, NothingElse

\* The table s, whose steps get N in this order, gives back users first.
Fits(U, s, N) ==
  /\ Len(N) \in Nat \ {0} /\ Len(s) = Len(N)
  /\ s \in Table(NamesIn(N))
  /\ UsersLast(U, N)
  /\ \A k \in 1..Len(N) :
       s[k].gets = N[k] /\ N[k] # "timer_running" /\ Undoes(U, N, k - 1, s[k].undo)

\* A scope with its users last fits (the functions of Zig and Rust that return on error).
LEMMA ScopedFits ==
  ASSUME NEW U, NEW S, NEW N \in Seq(S), Len(N) # 0, UsersLast(U, N),
         "timer_running" \notin {N[k] : k \in 1..Len(N)},
         NEW loose, KeepsUsed(U, loose)
  PROVE  Fits(U, Scoped(N, loose), N)
  <1> DEFINE s == Scoped(N, loose)
             A == NamesIn(N)
  <1>1. N \in Seq(A) /\ None \in A /\ Len(N) \in Nat \ {0}
    BY NamesFit
  <1> HIDE DEF A
  <1>2. /\ s \in Table(A) /\ Len(s) = Len(N)
        /\ \A k \in 1..Len(N) : s[k].gets = N[k]
        /\ \A k \in 1..Len(N) : Undoes(U, N, k - 1, s[k].undo)
    BY <1>1, ScopedUndoes
  <1> HIDE DEF s
  <1>3. Fits(U, s, N)
    BY <1>1, <1>2 DEF Fits, A
  <1> QED BY <1>3 DEF s

\* The table s is the part m + 1..q of one that gets N, and gives back users first.
Part(U, N, A, m, q, s) ==
  /\ m \in Nat /\ q \in Nat /\ m <= q /\ q <= Len(N)
  /\ s \in Table(A) /\ Len(s) = q - m
  /\ \A k \in 1..(q - m) : s[k].gets = N[m + k]
  /\ \A k \in 1..(q - m) : Undoes(U, N, m + k - 1, s[k].undo)

\* Parts that follow one another make a part (main calls one init after the other).
LEMMA PartsJoined ==
  ASSUME NEW U, NEW N, NEW A, NEW m, NEW q, NEW r, NEW s, NEW t,
         Len(N) \in Nat, Part(U, N, A, m, q, s), Part(U, N, A, q, r, t)
  PROVE  Part(U, N, A, m, r, s \o t)
  <1> DEFINE st == s \o t
  <1>1. /\ s \in Table(A) /\ t \in Table(A) /\ Len(s) = q - m /\ Len(t) = r - q
        /\ m \in Nat /\ q \in Nat /\ r \in Nat /\ m <= q /\ q <= r /\ r <= Len(N)
    BY DEF Part
  <1>2. /\ st \in Table(A) /\ Len(st) = Len(s) + Len(t)
        /\ \A k \in 1..Len(s) : st[k] = s[k]
        /\ \A k \in 1..Len(t) : st[Len(s) + k] = t[k]
    <2> DEFINE R == [gets : A, undo : Seq(A)]
    <2>1. s \in Seq(R) /\ t \in Seq(R)
      BY <1>1 DEF Table
    <2>2. Table(A) = Seq(R)
      BY DEF Table
    <2> HIDE DEF R
    <2> QED BY <2>1, <2>2, SequenceJoined
  <1> HIDE DEF st
  <1>3. ASSUME NEW k \in 1..(r - m)
        PROVE  st[k].gets = N[m + k] /\ Undoes(U, N, m + k - 1, st[k].undo)
    <2>1. CASE k \in 1..(q - m)
      <3>1. st[k] = s[k]
        BY <1>1, <1>2, <2>1
      <3> QED BY <2>1, <3>1 DEF Part
    <2>2. CASE k \notin 1..(q - m)
      <3>1. PICK l \in 1..(r - q) : k = (q - m) + l
        <4>1. k - (q - m) \in 1..(r - q) /\ k = (q - m) + (k - (q - m))
          BY <1>1, <2>2
        <4> QED BY <4>1
      <3>2. m + k = q + l /\ m + k - 1 = q + l - 1
        BY <1>1, <3>1
      <3>3. st[k] = t[l]
        BY <1>1, <1>2, <3>1
      <3>4. t[l].gets = N[q + l] /\ Undoes(U, N, q + l - 1, t[l].undo)
        BY <3>1 DEF Part
      <3> QED BY <3>2, <3>3, <3>4
    <2> QED BY <2>1, <2>2
  <1>4. m <= r /\ Len(st) = r - m
    BY <1>1, <1>2
  <1>5. Part(U, N, A, m, r, st)
    BY <1>1, <1>2, <1>3, <1>4 DEF Part
  <1> QED BY <1>5 DEF st

\* Who has fewer users held gives back no worse.
LEMMA UndoesFewer ==
  ASSUME NEW U, NEW N, NEW m \in Int, NEW q \in Int, q <= m, NEW u, Undoes(U, N, m, u)
  PROVE  Undoes(U, N, q, u)
  BY DEF Undoes

\* A part stays one when its caller gives back its own things after it.
LEMMA ThenPart ==
  ASSUME NEW U, NEW N, NEW A, NEW m, NEW q, NEW s, NEW v \in Seq(A),
         Part(U, N, A, m, q, s), Undoes(U, N, q, v)
  PROVE  Part(U, N, A, m, q, Then(s, v))
  <1> DEFINE t == Then(s, v)
  <1>1. s \in Table(A) /\ Len(s) \in Nat /\ Len(s) = q - m /\ m \in Nat /\ q \in Nat
    BY DEF Part, Table
  <1>2. /\ t \in Table(A) /\ Len(t) = Len(s)
        /\ \A k \in 1..Len(s) : t[k].gets = s[k].gets /\ t[k].undo = s[k].undo \o v
    BY <1>1, ThenIs
  <1> HIDE DEF t
  <1>3. ASSUME NEW k \in 1..(q - m)
        PROVE  t[k].gets = N[m + k] /\ Undoes(U, N, m + k - 1, t[k].undo)
    <2> DEFINE u == s[k].undo
    <2>1. u \in Seq(A) /\ Undoes(U, N, m + k - 1, u) /\ s[k].gets = N[m + k]
      <3> DEFINE R == [gets : A, undo : Seq(A)]
      <3>1. s \in Seq(R)
        BY <1>1 DEF Table
      <3>2. s[k] \in R
        <4> HIDE DEF R
        <4> QED BY <1>1, <3>1
      <3> QED BY <3>2 DEF Part
    <2>2. Undoes(U, N, m + k - 1, v)
      <3>1. m + k - 1 \in Int /\ q \in Int /\ m + k - 1 <= q
        BY <1>1
      <3> QED BY <3>1, UndoesFewer
    <2> HIDE DEF u
    <2>3. Undoes(U, N, m + k - 1, u \o v)
      <3>1. m + k - 1 \in Nat
        BY <1>1
      <3> QED BY <2>1, <2>2, <3>1, UndoesJoined
    <2> QED BY <1>1, <1>2, <2>1, <2>3 DEF u
  <1>4. Part(U, N, A, m, q, t)
    BY <1>1, <1>2, <1>3 DEF Part
  <1> QED BY <1>4 DEF t

\* A part that is everything fits.
LEMMA WholeFits ==
  ASSUME NEW U, NEW N, NEW n, Len(N) = n, n # 0, NEW s, Part(U, N, NamesIn(N), 0, n, s),
         UsersLast(U, N), "timer_running" \notin {N[k] : k \in 1..Len(N)}
  PROVE  Fits(U, s, N)
  <1>1. \A k \in 1..Len(N) : 0 + k = k /\ 0 + k - 1 = k - 1
    OBVIOUS
  <1>2. n \in Nat \ {0} /\ n - 0 = n
    BY DEF Part
  <1> HIDE DEF NamesIn
  <1> QED BY <1>1, <1>2 DEF Part, Fits

\* A scope in the middle of a program is a part, if nothing acquired before it uses what
\* it acquires (Server.init and Controller.init of Zig).
LEMMA ScopedPart ==
  ASSUME NEW U, NEW N, Len(N) \in Nat, NEW A, None \in A, NEW M \in Seq(A), UsersLast(U, M),
         KeepsUsed(U, {}), NEW m \in Nat, NEW q \in Nat, q = m + Len(M), q <= Len(N),
         \A k \in 1..Len(M) : N[m + k] = M[k],
         \A use \in U : \A k \in 1..m : N[k] = use[1] => \A j \in 1..Len(M) : M[j] # use[2]
  PROVE  Part(U, N, A, m, q, Scoped(M, {}))
  <1> DEFINE s == Scoped(M, {})
  <1>1. /\ s \in Table(A) /\ Len(s) = Len(M)
        /\ \A k \in 1..Len(M) : s[k].gets = M[k]
        /\ \A k \in 1..Len(M) : Undoes(U, M, k - 1, s[k].undo)
    BY ScopedUndoes
  <1>2. Len(M) \in Nat /\ q - m = Len(M) /\ m <= q
    OBVIOUS
  <1>3. ASSUME NEW k \in 1..Len(M) PROVE Undoes(U, N, m + k - 1, s[k].undo)
    <2> DEFINE u == s[k].undo
    <2>1. Undoes(U, M, k - 1, u)
      BY <1>1
    <2>2. Len(u) = k - 1
      <3>1. u = Deferred(Before(M, {}, k)) /\ Len(Deferred(Before(M, {}, k))) = k - 1
        BY ScopedIs
      <3> QED BY <3>1
    <2>3. \A j \in 1..(k - 1) : u[j] \in {M[k - j], None}
      BY ScopedReverses
    <2> HIDE DEF u, s
    <2>4. SUFFICES ASSUME NEW use \in U, NEW l \in 1..(m + k - 1), NEW j \in 1..Len(u),
                          N[l] = use[1], u[j] = use[2]
                   PROVE  \E h \in 1..(j - 1) : u[h] = use[1]
      BY DEF Undoes, u
    <2>5. CASE l \in 1..m
      <3>1. k - j \in 1..Len(M) /\ j \in 1..(k - 1)
        BY <1>2, <2>2
      <3>2. u[j] # M[k - j]
        BY <2>4, <2>5, <3>1
      <3>3. u[j] # None
        BY <2>4 DEF KeepsUsed
      <3> QED BY <2>3, <3>1, <3>2, <3>3
    <2>6. CASE l \notin 1..m
      <3>1. l - m \in 1..(k - 1) /\ l - m \in 1..Len(M) /\ m + (l - m) = l
        BY <1>2, <2>6
      <3>2. M[l - m] = use[1]
        BY <2>4, <3>1
      <3> QED BY <2>1, <2>4, <3>1, <3>2 DEF Undoes
    <2> QED BY <2>5, <2>6
  <1> HIDE DEF s
  <1>4. Part(U, N, A, m, q, s)
    BY <1>1, <1>2, <1>3 DEF Part
  <1> QED BY <1>4 DEF s

\* All that was acquired, given back backwards.
LEMMA BackwardsUndoes ==
  ASSUME NEW U, NEW S, NEW M \in Seq(S), UsersLast(U, M), KeepsUsed(U, {})
  PROVE  /\ Undoes(U, M, Len(M), Deferred(M)) /\ Len(Deferred(M)) = Len(M)
         /\ \A j \in 1..Len(M) : Deferred(M)[j] \in {M[k] : k \in 1..Len(M)}
  <1>1. Len(M) \in Nat /\ Len(M) \in 0..Len(M) /\ \A k \in 1..Len(M) : Len(M) - k + 1 \in 1..Len(M)
    OBVIOUS
  <1>2. \A k \in 1..Len(M) : M[k] = IF M[k] \in {} THEN None ELSE M[k]
    OBVIOUS
  <1>3. Undoes(U, M, Len(M), Deferred(M))
    BY <1>1, <1>2, ReverseUndoes
  <1>4. /\ Len(Deferred(M)) = Len(M)
        /\ \A j \in 1..Len(M) : Deferred(M)[j] = M[Len(M) - j + 1]
    BY DeferredIs
  <1> QED BY <1>1, <1>3, <1>4

-----------------------------------------------------------------------------
(* The tables of the programs *)

\* 1-blinky-bm gives back nothing: it acquires a counter last (app_main).
LEMMA BlinkyBmFits ==
  ASSUME NEW U \in SUBSET Uses
  PROVE  Fits(U, BlinkyBm, <<None, "perf">>)
  <1> DEFINE N == <<None, "perf">>
             s == BlinkyBm
  <1>1. s \in Table(NamesIn(N)) /\ Len(s) = 2
    BY DEF BlinkyBm, Table, Step, NamesIn
  <1>2. UsersLast(U, N) /\ "timer_running" \notin {N[k] : k \in 1..Len(N)}
    BY DEF UsersLast, Uses, None
  <1>3. \A k \in 1..2 : s[k].gets = N[k]
    BY DEF BlinkyBm, Step
  <1>4. s[1].undo = <<>> /\ s[2].undo = <<>>
    BY DEF BlinkyBm, Step
  <1>5. \A m \in 0..2 : Undoes(U, N, m, <<>>)
    BY DEF Undoes
  <1>6. Len(N) = 2
    OBVIOUS
  <1> HIDE DEF N, s
  <1>7. \A k \in 1..2 : Undoes(U, N, k - 1, s[k].undo)
    BY <1>4, <1>5
  <1> QED BY <1>1, <1>2, <1>3, <1>6, <1>7 DEF Fits, s, N

\* c/1-blinky: the labels of main.c:38-73.
LEMMA BlinkyCFits ==
  ASSUME NEW U \in SUBSET Uses
  PROVE  Fits(U, BlinkyC, <<"handler", "chip", None, "line", "perf">>)
  <1> DEFINE N == <<"handler", "chip", None, "line", "perf">>
             s == BlinkyC
  <1>1. s \in Table(NamesIn(N)) /\ Len(s) = 5
    BY DEF BlinkyC, Table, Step, NamesIn
  <1>2. UsersLast(U, N) /\ "timer_running" \notin {N[k] : k \in 1..Len(N)}
    BY DEF UsersLast, Uses, None
  <1>3. \A k \in 1..5 : s[k].gets = N[k]
    BY DEF BlinkyC, Step
  <1>4. /\ s[1].undo = <<>> /\ s[2].undo = <<>> /\ s[3].undo = <<"chip">>
        /\ s[4].undo = <<"line", "chip">> /\ s[5].undo = <<>>
    BY DEF BlinkyC, Step
  <1>5. /\ \A m \in 0..5 : Undoes(U, N, m, <<>>)
        /\ Undoes(U, N, 2, <<"chip">>)
        /\ Undoes(U, N, 3, <<"line", "chip">>)
    BY DEF Undoes, Uses, None
  <1>6. Len(N) = 5
    OBVIOUS
  <1> HIDE DEF N, s
  <1>7. \A k \in 1..5 : Undoes(U, N, k - 1, s[k].undo)
    BY <1>4, <1>5
  <1> QED BY <1>1, <1>2, <1>3, <1>6, <1>7 DEF Fits, s, N

\* c/2-motor, but for the PWM that is left on when gpioTerminate is called (main.c:75-117).
LEMMA MotorCFits ==
  ASSUME NEW U, U = Uses \ {<<"pwm", "gpio">>}
  PROVE  Fits(U, MotorC, <<"gpio", "handler", "pwm", "i2c", None, "perf">>)
  <1> DEFINE N == <<"gpio", "handler", "pwm", "i2c", None, "perf">>
             s == MotorC
  <1>1. s \in Table(NamesIn(N)) /\ Len(s) = 6
    BY DEF MotorC, Table, Step, NamesIn
  <1>2. UsersLast(U, N) /\ "timer_running" \notin {N[k] : k \in 1..Len(N)}
    BY DEF UsersLast, Uses, None
  <1>3. \A k \in 1..6 : s[k].gets = N[k]
    BY DEF MotorC, Step
  <1>4. /\ s[1].undo = <<>> /\ s[2].undo = <<"gpio">> /\ s[3].undo = <<"gpio">>
        /\ s[4].undo = <<"gpio">> /\ s[5].undo = <<"i2c", "gpio">> /\ s[6].undo = <<"i2c", "gpio">>
    BY DEF MotorC, Step
  <1>5. /\ Undoes(U, N, 0, <<>>) /\ Undoes(U, N, 1, <<"gpio">>) /\ Undoes(U, N, 2, <<"gpio">>)
        /\ Undoes(U, N, 3, <<"gpio">>)
        /\ Undoes(U, N, 4, <<"i2c", "gpio">>) /\ Undoes(U, N, 5, <<"i2c", "gpio">>)
    BY DEF Undoes, Uses, None
  <1>6. Len(N) = 6
    OBVIOUS
  <1> HIDE DEF N, s
  <1>7. \A k \in 1..6 : Undoes(U, N, k - 1, s[k].undo)
    BY ONLY <1>4, <1>5
  <1>8. \A k \in 1..Len(N) : N[k] # "timer_running"
    BY ONLY <1>2
  <1>9. Fits(U, s, N)
    BY ONLY <1>1, <1>2, <1>3, <1>6, <1>7, <1>8 DEF Fits
  <1> QED BY <1>9 DEF s, N

\* c/2-motor-bm: the returns of main.c:58-101.
LEMMA MotorBmCFits ==
  ASSUME NEW U \in SUBSET Uses
  PROVE  Fits(U, MotorBmC, <<"adc", None, "pwm_timer", "pwm_channel", "perf">>)
  <1> DEFINE N == <<"adc", None, "pwm_timer", "pwm_channel", "perf">>
             s == MotorBmC
  <1>1. s \in Table(NamesIn(N)) /\ Len(s) = 5
    BY DEF MotorBmC, Table, Step, NamesIn
  <1>2. UsersLast(U, N) /\ "timer_running" \notin {N[k] : k \in 1..Len(N)}
    BY DEF UsersLast, Uses, None
  <1>3. \A k \in 1..5 : s[k].gets = N[k]
    BY DEF MotorBmC, Step
  <1>4. /\ s[1].undo = <<>> /\ s[2].undo = <<"adc">> /\ s[3].undo = <<"adc">>
        /\ s[4].undo = <<"pwm_timer", "adc">> /\ s[5].undo = <<"pwm_channel", "pwm_timer", "adc">>
    BY DEF MotorBmC, Step
  <1>5. /\ \A m \in 0..5 : Undoes(U, N, m, <<>>) /\ Undoes(U, N, m, <<"adc">>)
        /\ Undoes(U, N, 3, <<"pwm_timer", "adc">>)
        /\ Undoes(U, N, 4, <<"pwm_channel", "pwm_timer", "adc">>)
    BY DEF Undoes, Uses, None
  <1>6. Len(N) = 5
    OBVIOUS
  <1> HIDE DEF N, s
  <1>7. \A k \in 1..5 : Undoes(U, N, k - 1, s[k].undo)
    BY <1>4, <1>5
  <1> QED BY <1>1, <1>2, <1>3, <1>6, <1>7 DEF Fits, s, N

\* c/3-pid: the returns of server_init and controller_init, and those of main behind them
\* (server.c:14-51, controller.c:177-280, main.c:36-104).
LEMMA PidCFits ==
  ASSUME NEW U \in SUBSET Uses
  PROVE  Fits(U, PidC, <<"gpio", "handler", "registers", "ctx", "socket", "connections", "ring",
                         "i2c", None, "timer", None, "perf_read", "perf_control">>)
  <1> DEFINE N == <<"gpio", "handler", "registers", "ctx", "socket", "connections", "ring",
                    "i2c", None, "timer", None, "perf_read", "perf_control">>
             A == NamesIn(N)
             first == << Step("gpio", <<>>), Step("handler", <<"gpio">>),
                         Step("registers", <<"gpio">>) >>
             own == <<"registers", "gpio">>
             end == PidServerEndC \o own
             server == PidServerC
             control == PidControllerC
  <1>1. /\ Len(N) = 13 /\ UsersLast(U, N)
        /\ "timer_running" \notin {N[k] : k \in 1..Len(N)}
    BY DEF UsersLast, Uses, None
  <1>2. Part(U, N, A, 0, 3, first)
    <2>1. first \in Table(A) /\ Len(first) = 3 /\ \A k \in 1..3 : first[k].gets = N[0 + k]
      BY DEF Table, Step, NamesIn
    <2>2. first[1].undo = <<>> /\ first[2].undo = <<"gpio">> /\ first[3].undo = <<"gpio">>
      BY DEF Step
    <2>3. /\ Undoes(U, N, 0, <<>>) /\ Undoes(U, N, 1, <<"gpio">>) /\ Undoes(U, N, 2, <<"gpio">>)
      BY DEF Undoes, Uses, None
    <2> HIDE DEF N, first, A, own, server, control, end
    <2>4. \A k \in 1..3 : Undoes(U, N, 0 + k - 1, first[k].undo)
      BY <2>2, <2>3
    <2> QED BY <1>1, <2>1, <2>4 DEF Part
  <1>3. Part(U, N, A, 3, 6, server)
    <2>1. server \in Table(A) /\ Len(server) = 3 /\ \A k \in 1..3 : server[k].gets = N[3 + k]
      BY DEF Table, Step, NamesIn, PidServerC
    <2>2. server[1].undo = <<>> /\ server[2].undo = <<"ctx">> /\ server[3].undo = <<>>
      BY DEF Step, PidServerC
    <2>3. /\ Undoes(U, N, 3, <<>>) /\ Undoes(U, N, 4, <<"ctx">>) /\ Undoes(U, N, 5, <<>>)
      BY DEF Undoes, Uses, None
    <2> HIDE DEF N, first, A, own, server, control, end
    <2>4. \A k \in 1..3 : Undoes(U, N, 3 + k - 1, server[k].undo)
      BY <2>2, <2>3
    <2> QED BY <1>1, <2>1, <2>4 DEF Part
  <1>4. Part(U, N, A, 6, 13, control)
    <2>1. control \in Table(A) /\ Len(control) = 7
      BY DEF Table, Step, NamesIn, PidControllerC
    <2>2. \A k \in 1..7 : control[k].gets = N[6 + k]
      BY DEF Step, PidControllerC
    <2>3. /\ control[1].undo = <<>> /\ control[2].undo = <<"ring">>
          /\ control[3].undo = <<"i2c", "ring">>
          /\ control[4].undo = <<"i2c", "ring">> /\ control[5].undo = <<"timer", "i2c", "ring">>
          /\ control[6].undo = <<"timer", "i2c", "ring">>
          /\ control[7].undo = <<"perf_read", "timer", "i2c", "ring">>
      BY DEF Step, PidControllerC
    <2>4. /\ Undoes(U, N, 6, <<>>) /\ Undoes(U, N, 7, <<"ring">>)
          /\ Undoes(U, N, 8, <<"i2c", "ring">>)
          /\ Undoes(U, N, 9, <<"i2c", "ring">>)
          /\ Undoes(U, N, 10, <<"timer", "i2c", "ring">>)
          /\ Undoes(U, N, 11, <<"timer", "i2c", "ring">>)
          /\ Undoes(U, N, 12, <<"perf_read", "timer", "i2c", "ring">>)
      BY DEF Undoes, Uses, None
    <2> HIDE DEF N, first, A, own, server, control, end
    <2>5. /\ Undoes(U, N, 6, control[1].undo) /\ Undoes(U, N, 7, control[2].undo)
          /\ Undoes(U, N, 8, control[3].undo) /\ Undoes(U, N, 9, control[4].undo)
          /\ Undoes(U, N, 10, control[5].undo) /\ Undoes(U, N, 11, control[6].undo)
          /\ Undoes(U, N, 12, control[7].undo)
      BY <2>3, <2>4
    <2>6. \A k \in 1..7 : Undoes(U, N, 6 + k - 1, control[k].undo)
      BY <2>5
    <2> QED BY <1>1, <2>1, <2>2, <2>6 DEF Part
  <1>5. own \in Seq(A) /\ end \in Seq(A) /\ Undoes(U, N, 6, own) /\ Undoes(U, N, 13, end)
    BY DEF NamesIn, PidServerEndC, Undoes, Uses, None
  <1>6. PidC = (first \o Then(server, own)) \o Then(control, end)
    BY DEF PidC
  <1> HIDE DEF N, A, first, server, control, own, end
  <1>7. Part(U, N, A, 3, 6, Then(server, own))
    BY <1>3, <1>5, ThenPart
  <1>8. Part(U, N, A, 6, 13, Then(control, end))
    BY <1>4, <1>5, ThenPart
  <1>9. Part(U, N, A, 0, 6, first \o Then(server, own))
    BY <1>1, <1>2, <1>7, PartsJoined
  <1>10. Part(U, N, A, 0, 13, PidC)
    BY <1>1, <1>6, <1>8, <1>9, PartsJoined
  <1>11. Part(U, N, NamesIn(N), 0, 13, PidC) /\ 13 # 0
    BY <1>10 DEF A
  <1>12. Fits(U, PidC, N)
    BY <1>1, <1>11, WholeFits
  <1> QED BY <1>12 DEF N

\* What c/3-pid-bm acquires, in this order.
PidBmNamesC ==
  <<"nvs", "event_loop", "mdns", None, None, "event_group", "netif_stack", "netif", "driver",
    "handler_wifi", "handler_ip", None, None, "started", None,
    "slave", None, None, None, "slave_running",
    "ring", "adc", None, "pwm_timer", "pwm_channel", "timer", None, "timer_enabled", None,
    "controller_task", "server_task">>

\* The uses that c/3-pid-bm respects: all but eight.
PidBmUsesC ==
  Uses \ {<<"driver", "netif">>, <<"driver", "nvs">>, <<"driver", "event_loop">>,
           <<"handler_wifi", "event_loop">>, <<"handler_ip", "event_loop">>,
           <<"mdns", "event_loop">>, <<"pwm_channel", "pwm_timer">>,
           <<"timer_running", "controller_task">>}

\* It acquires users after what they use.
LEMMA PidBmNames ==
  /\ Len(PidBmNamesC) = 31 /\ UsersLast(PidBmUsesC, PidBmNamesC)
  /\ "timer_running" \notin {PidBmNamesC[k] : k \in 1..Len(PidBmNamesC)}
  BY DEF PidBmNamesC, PidBmUsesC, UsersLast, Uses, None

\* The services of c/3-pid-bm (services.c:14-88) with their Wi-Fi (wifi.c:60-181).
LEMMA ServicesCPart ==
  ASSUME NEW U, U = PidBmUsesC, NEW N, N = PidBmNamesC, NEW A, A = NamesIn(N)
  PROVE  Part(U, N, A, 0, 15, ServicesC)
  <1> DEFINE first == << Step("nvs", <<>>), Step("event_loop", <<"nvs">>) >>
             second == << Step("mdns", <<>>), Step(None, <<"mdns">>), Step(None, <<"mdns">>) >>
             base == <<"event_loop", "nvs">>
             rest == <<"mdns", "event_loop", "nvs">>
             wifi3 == << Step("event_group", <<>>), Step("netif_stack", <<>>),
                         Step("netif", <<"netif_stack">>) >>
             names == <<"driver", "handler_wifi", "handler_ip", None, None, "started", None>>
             nif == <<"netif", "netif_stack">>
             wifi7 == [l \in 1..7 |-> Step(names[l], nif)]
  <1>1. Len(N) = 31
    BY PidBmNames
  <1>2. Part(U, N, A, 0, 2, first)
    <2>1. first \in Table(A) /\ Len(first) = 2 /\ \A k \in 1..2 : first[k].gets = N[0 + k]
      BY DEF Table, Step, NamesIn, PidBmNamesC
    <2>2. first[1].undo = <<>> /\ first[2].undo = <<"nvs">>
      BY DEF Step
    <2>3. /\ Undoes(U, N, 0, <<>>) /\ Undoes(U, N, 1, <<"nvs">>)
      BY DEF Undoes, PidBmUsesC, Uses, PidBmNamesC, None
    <2> HIDE DEF first
    <2>4. Undoes(U, N, 0, first[1].undo) /\ Undoes(U, N, 1, first[2].undo)
      BY <2>2, <2>3
    <2>5. \A k \in 1..2 : Undoes(U, N, 0 + k - 1, first[k].undo)
      BY <2>4
    <2> QED BY <1>1, <2>1, <2>5 DEF Part
  <1>3. Part(U, N, A, 2, 5, second)
    <2>1. second \in Table(A) /\ Len(second) = 3 /\ \A k \in 1..3 : second[k].gets = N[2 + k]
      BY DEF Table, Step, NamesIn, PidBmNamesC
    <2>2. second[1].undo = <<>> /\ second[2].undo = <<"mdns">> /\ second[3].undo = <<"mdns">>
      BY DEF Step
    <2>3. /\ Undoes(U, N, 2, <<>>) /\ Undoes(U, N, 3, <<"mdns">>) /\ Undoes(U, N, 4, <<"mdns">>)
      BY DEF Undoes, PidBmUsesC, Uses, PidBmNamesC, None
    <2> HIDE DEF second
    <2>4. /\ Undoes(U, N, 2, second[1].undo) /\ Undoes(U, N, 3, second[2].undo)
          /\ Undoes(U, N, 4, second[3].undo)
      BY <2>2, <2>3
    <2>5. \A k \in 1..3 : Undoes(U, N, 2 + k - 1, second[k].undo)
      BY <2>4
    <2> QED BY <1>1, <2>1, <2>5 DEF Part
  <1>4. Part(U, N, A, 5, 8, wifi3)
    <2>1. wifi3 \in Table(A) /\ Len(wifi3) = 3 /\ \A k \in 1..3 : wifi3[k].gets = N[5 + k]
      BY DEF Table, Step, NamesIn, PidBmNamesC
    <2>2. wifi3[1].undo = <<>> /\ wifi3[2].undo = <<>> /\ wifi3[3].undo = <<"netif_stack">>
      BY DEF Step
    <2>3. /\ Undoes(U, N, 5, <<>>) /\ Undoes(U, N, 6, <<>>) /\ Undoes(U, N, 7, <<"netif_stack">>)
      BY DEF Undoes, PidBmUsesC, Uses, PidBmNamesC, None
    <2> HIDE DEF wifi3
    <2>4. /\ Undoes(U, N, 5, wifi3[1].undo) /\ Undoes(U, N, 6, wifi3[2].undo)
          /\ Undoes(U, N, 7, wifi3[3].undo)
      BY <2>2, <2>3
    <2>5. \A k \in 1..3 : Undoes(U, N, 5 + k - 1, wifi3[k].undo)
      BY <2>4
    <2> QED BY <1>1, <2>1, <2>5 DEF Part
  <1>5. Part(U, N, A, 8, 15, wifi7)
    <2>1. \A l \in 1..7 : names[l] \in A /\ names[l] = N[8 + l]
      BY DEF NamesIn, PidBmNamesC
    <2>2. nif \in Seq(A) /\ Undoes(U, N, 14, nif)
      BY DEF NamesIn, Undoes, PidBmUsesC, Uses, PidBmNamesC, None
    <2> HIDE DEF names, nif
    <2>3. ASSUME NEW l \in 1..7
          PROVE  /\ wifi7[l] = Step(names[l], nif)
                 /\ wifi7[l].gets = names[l] /\ wifi7[l].undo = nif
                 /\ Step(names[l], nif) \in [gets : A, undo : Seq(A)]
      BY <2>1, <2>2, StepIs DEF Step
    <2>4. wifi7 \in Table(A) /\ Len(wifi7) = 7
      <3> DEFINE R == [gets : A, undo : Seq(A)]
      <3>1. wifi7 \in [1..7 -> R]
        BY <2>3
      <3>2. Table(A) = Seq(R)
        BY DEF Table
      <3> HIDE DEF R, wifi7
      <3> QED BY <3>1, <3>2, SequenceMade
    <2> HIDE DEF wifi7
    <2>5. ASSUME NEW l \in 1..7 PROVE Undoes(U, N, 8 + l - 1, wifi7[l].undo)
      <3>1. 8 + l - 1 \in Int /\ 8 + l - 1 <= 14
        OBVIOUS
      <3>2. Undoes(U, N, 14, wifi7[l].undo)
        BY <2>2, <2>3
      <3> QED BY ONLY <3>1, <3>2, UndoesFewer
    <2> QED BY <1>1, <2>1, <2>3, <2>4, <2>5 DEF Part
  <1>6. base \in Seq(A) /\ rest \in Seq(A) /\ Undoes(U, N, 5, base) /\ Undoes(U, N, 15, rest)
    BY DEF NamesIn, Undoes, PidBmUsesC, Uses, PidBmNamesC, None
  <1>7. ServicesC = (first \o Then(second, base)) \o Then(WifiC, rest) /\ WifiC = wifi3 \o wifi7
    BY DEF ServicesC, WifiC
  <1> HIDE DEF first, second, base, rest, wifi3, wifi7
  <1>8. Part(U, N, A, 5, 15, WifiC)
    BY <1>1, <1>4, <1>5, <1>7, PartsJoined
  <1>9. Part(U, N, A, 5, 15, Then(WifiC, rest)) /\ Part(U, N, A, 2, 5, Then(second, base))
    BY <1>3, <1>6, <1>8, ThenPart
  <1>10. Part(U, N, A, 0, 5, first \o Then(second, base))
    BY <1>1, <1>2, <1>9, PartsJoined
  <1> QED BY <1>1, <1>7, <1>9, <1>10, PartsJoined

\* Its server, and the services after it (server.c:21-83).
LEMMA ServerBmCPart ==
  ASSUME NEW U, U = PidBmUsesC, NEW N, N = PidBmNamesC, NEW A, A = NamesIn(N)
  PROVE  Part(U, N, A, 15, 20, Then(ServerBmC, ServicesEndC))
  <1> DEFINE none == <<>>
             last == <<"slave">>
             v == ServicesEndC
             t == Then(ServerBmC, v)
  <1>1. Len(N) = 31
    BY PidBmNames
  <1>2. ServerBmC \in Table(A) /\ Len(ServerBmC) = 5
    <2> DEFINE s1 == << Step("slave", none) >>
               names4 == <<None, None, None, "slave_running">>
               s4 == [l \in 1..4 |-> Step(names4[l], last)]
               R == [gets : A, undo : Seq(A)]
    <2>1. \A l \in 1..4 : names4[l] \in A
      BY DEF NamesIn, PidBmNamesC
    <2>2. last \in Seq(A) /\ none \in Seq(A) /\ "slave" \in A
      BY DEF NamesIn, PidBmNamesC
    <2>3. ServerBmC = s1 \o s4
      BY DEF ServerBmC
    <2> HIDE DEF names4, last, none
    <2>4. Step("slave", none) \in R /\ \A l \in 1..4 : Step(names4[l], last) \in R
      BY <2>1, <2>2 DEF Step
    <2>5. s1 \in Seq(R) /\ Len(s1) = 1
      <3> HIDE DEF R
      <3> QED BY <2>4
    <2>6. s4 \in [1..4 -> R]
      <3> HIDE DEF R
      <3> QED BY <2>4
    <2> HIDE DEF s1, s4, R, v, t
    <2>7. s4 \in Seq(R) /\ Len(s4) = 4
      BY <2>6, SequenceMade
    <2>8. s1 \o s4 \in Seq(R) /\ Len(s1 \o s4) = 5
      <3>1. s1 \in Seq(R) /\ s4 \in Seq(R)
        BY <2>5, <2>7
      <3>2. s1 \o s4 \in Seq(R) /\ Len(s1 \o s4) = Len(s1) + Len(s4)
        BY <3>1, SequenceJoined
      <3> QED BY <2>5, <2>7, <3>2
    <2> QED BY <2>3, <2>8 DEF Table, R
  <1>3. /\ ServerBmC[1].gets = "slave" /\ ServerBmC[1].undo = none
        /\ \A k \in 2..5 : ServerBmC[k].gets = N[15 + k] /\ ServerBmC[k].undo = last
    BY DEF ServerBmC, Step, PidBmNamesC
  <1>4. v \in Seq(A)
    BY DEF NamesIn, ServicesEndC, PidBmNamesC
  <1>5. "slave" = N[16]
    BY DEF PidBmNamesC
  <1>6. none \in Seq(A) /\ last \in Seq(A) /\ Undoes(U, N, 15, none)
    BY DEF NamesIn, PidBmNamesC, Undoes
  <1>7. Undoes(U, N, 15, v)
    BY DEF Undoes, PidBmUsesC, Uses, PidBmNamesC, None, ServicesEndC
  <1>8. Undoes(U, N, 19, last \o v)
    BY DEF Undoes, PidBmUsesC, Uses, PidBmNamesC, None, ServicesEndC
  <1> HIDE DEF none, last, v, t
  <1>9. /\ t \in Table(A) /\ Len(t) = 5
        /\ \A k \in 1..5 : t[k].gets = ServerBmC[k].gets /\ t[k].undo = ServerBmC[k].undo \o v
    BY <1>2, <1>4, ThenIs DEF t
  <1>10. ASSUME NEW k \in 1..5 PROVE t[k].gets = N[15 + k] /\ Undoes(U, N, 15 + k - 1, t[k].undo)
    <2>1. CASE k = 1
      <3> DEFINE u == ServerBmC[1].undo
      <3>1. 1 \in 1..5 /\ t[1].gets = ServerBmC[1].gets /\ t[1].undo = u \o v
        BY <1>9
      <3>2. u \in Seq(A) /\ Undoes(U, N, 15, u)
        BY <1>3, <1>6
      <3> HIDE DEF u
      <3>3. Undoes(U, N, 15, u \o v)
        BY <1>4, <1>7, <3>2, UndoesJoined
      <3>4. t[1].gets = N[16] /\ Undoes(U, N, 15, t[1].undo)
        BY <1>3, <1>5, <3>1, <3>3
      <3> QED BY <2>1, <3>4
    <2>2. CASE k \in 2..5
      <3>1. t[k].undo = last \o v /\ t[k].gets = N[15 + k]
        BY <1>3, <1>9, <2>2
      <3>2. 15 + k - 1 \in Int /\ 15 + k - 1 <= 19
        OBVIOUS
      <3> QED BY <1>8, <3>1, <3>2, UndoesFewer
    <2> QED BY <2>1, <2>2
  <1>11. Part(U, N, A, 15, 20, t)
    BY <1>1, <1>9, <1>10 DEF Part
  <1> QED BY <1>11 DEF t, v

\* Its controller (controller.c:112-241).
LEMMA ControllerBmCPart ==
  ASSUME NEW U, U = PidBmUsesC, NEW N, N = PidBmNamesC, NEW A, A = NamesIn(N)
  PROVE  Part(U, N, A, 20, 29, ControllerBmC)
  <1> DEFINE s == ControllerBmC
  <1>1. Len(N) = 31
    BY PidBmNames
  <1>2. s \in Table(A) /\ Len(s) = 9
    BY DEF Table, Step, NamesIn, PidBmNamesC, ControllerBmC
  <1>3. /\ s[1].gets = N[21] /\ s[2].gets = N[22] /\ s[3].gets = N[23] /\ s[4].gets = N[24]
        /\ s[5].gets = N[25] /\ s[6].gets = N[26] /\ s[7].gets = N[27] /\ s[8].gets = N[28]
        /\ s[9].gets = N[29]
    BY DEF Step, PidBmNamesC, ControllerBmC
  <1>4. /\ s[1].undo = <<>> /\ s[2].undo = <<"ring">> /\ s[3].undo = <<"adc", "ring">>
        /\ s[4].undo = <<"adc", "ring">> /\ s[5].undo = <<"pwm_timer", "adc", "ring">>
        /\ s[6].undo = <<"pwm_timer", "adc", "ring">>
    BY DEF Step, ControllerBmC
  <1>5. /\ s[7].undo = <<"timer", "pwm_timer", "adc", "ring">>
        /\ s[8].undo = <<"timer", "pwm_timer", "adc", "ring">>
        /\ s[9].undo = <<"timer_enabled", "timer", "pwm_timer", "adc", "ring">>
    BY DEF Step, ControllerBmC
  <1>6. /\ Undoes(U, N, 20, <<>>) /\ Undoes(U, N, 21, <<"ring">>)
        /\ Undoes(U, N, 22, <<"adc", "ring">>)
        /\ Undoes(U, N, 23, <<"adc", "ring">>) /\ Undoes(U, N, 24, <<"pwm_timer", "adc", "ring">>)
        /\ Undoes(U, N, 25, <<"pwm_timer", "adc", "ring">>)
    BY DEF Undoes, PidBmUsesC, Uses, PidBmNamesC, None
  <1>7. /\ Undoes(U, N, 26, <<"timer", "pwm_timer", "adc", "ring">>)
        /\ Undoes(U, N, 27, <<"timer", "pwm_timer", "adc", "ring">>)
        /\ Undoes(U, N, 28, <<"timer_enabled", "timer", "pwm_timer", "adc", "ring">>)
    BY DEF Undoes, PidBmUsesC, Uses, PidBmNamesC, None
  <1> HIDE DEF s
  <1>8. /\ Undoes(U, N, 20, s[1].undo) /\ Undoes(U, N, 21, s[2].undo) /\ Undoes(U, N, 22, s[3].undo)
        /\ Undoes(U, N, 23, s[4].undo) /\ Undoes(U, N, 24, s[5].undo) /\ Undoes(U, N, 25, s[6].undo)
    BY <1>4, <1>6
  <1>9. /\ Undoes(U, N, 26, s[7].undo) /\ Undoes(U, N, 27, s[8].undo) /\ Undoes(U, N, 28, s[9].undo)
    BY <1>5, <1>7
  <1>10. \A k \in 1..9 : Undoes(U, N, 20 + k - 1, s[k].undo)
    BY <1>8, <1>9
  <1>11. Part(U, N, A, 20, 29, s)
    BY <1>1, <1>2, <1>3, <1>10 DEF Part
  <1> QED BY <1>11 DEF s

\* What the three of them give back when they are complete (services.c:90-96,
\* server.c:85-87, controller.c:243-251).
LEMMA EndsC ==
  ASSUME NEW U, U = PidBmUsesC, NEW N, N = PidBmNamesC, NEW A, A = NamesIn(N)
  PROVE  /\ ControllerBmEndC \in Seq(A) /\ ServerBmEndC \o ServicesEndC \in Seq(A)
         /\ Undoes(U, N, 30, ControllerBmEndC)
         /\ Undoes(U, N, 30, ServerBmEndC \o ServicesEndC)
         /\ <<"controller_task">> \in Seq(A) /\ Undoes(U, N, 30, <<"controller_task">>)
  <1>1. /\ ControllerBmEndC \in Seq(A) /\ ServerBmEndC \o ServicesEndC \in Seq(A)
        /\ <<"controller_task">> \in Seq(A)
    BY DEF NamesIn, PidBmNamesC, ControllerBmEndC, ServerBmEndC, ServicesEndC
  <1>2. Undoes(U, N, 30, ControllerBmEndC)
    BY DEF Undoes, PidBmUsesC, Uses, PidBmNamesC, None, ControllerBmEndC
  <1>3. Undoes(U, N, 30, ServerBmEndC \o ServicesEndC)
    BY DEF Undoes, PidBmUsesC, Uses, PidBmNamesC, None, ServerBmEndC, ServicesEndC
  <1>4. Undoes(U, N, 30, <<"controller_task">>)
    BY DEF Undoes, PidBmUsesC, Uses, PidBmNamesC, None
  <1> QED BY <1>1, <1>2, <1>3, <1>4

\* The two tasks that main creates (main.c:83-106): the one of the controller is deleted first.
LEMMA TasksCPart ==
  ASSUME NEW U, U = PidBmUsesC, NEW N, N = PidBmNamesC, NEW A, A = NamesIn(N),
         NEW end \in Seq(A), Undoes(U, N, 30, end)
  PROVE  Part(U, N, A, 29, 31,
              << Step("controller_task", end), Step("server_task", <<"controller_task">> \o end) >>)
  <1> DEFINE both == <<"controller_task">> \o end
             s == << Step("controller_task", end), Step("server_task", both) >>
  <1>1. Len(N) = 31 /\ N[30] = "controller_task" /\ N[31] = "server_task"
    BY PidBmNames DEF PidBmNamesC
  <1>2. "controller_task" \in A /\ "server_task" \in A
    BY DEF NamesIn, PidBmNamesC
  <1>3. both \in Seq(A) /\ Undoes(U, N, 30, both)
    <2>1. 30 \in Nat
      OBVIOUS
    <2> QED BY <2>1, EndsC, UndoesJoined, SequenceJoined
  <1>6. Undoes(U, N, 29, end)
    <2>1. 30 \in Int /\ 29 \in Int /\ 29 <= 30
      OBVIOUS
    <2> QED BY <2>1, UndoesFewer
  <1> HIDE DEF both
  <1>7. s \in Table(A) /\ Len(s) = 2
    <2> DEFINE R == [gets : A, undo : Seq(A)]
    <2>1. Step("controller_task", end) \in R /\ Step("server_task", both) \in R
      BY <1>2, <1>3 DEF Step
    <2>2. Table(A) = Seq(R)
      BY DEF Table
    <2> HIDE DEF R
    <2> QED BY <2>1, <2>2
  <1>8. s[1] = Step("controller_task", end) /\ s[2] = Step("server_task", both)
    OBVIOUS
  <1> HIDE DEF s
  <1>9. \A k \in 1..2 : s[k].gets = N[29 + k] /\ Undoes(U, N, 29 + k - 1, s[k].undo)
    <2>1. s[1].gets = N[30] /\ s[1].undo = end
      BY <1>1, <1>8, StepIs
    <2>2. s[2].gets = N[31] /\ s[2].undo = both
      BY <1>1, <1>8, StepIs
    <2>3. Undoes(U, N, 29, s[1].undo) /\ Undoes(U, N, 30, s[2].undo)
      BY <1>3, <1>6, <2>1, <2>2
    <2> QED BY <2>1, <2>2, <2>3
  <1>10. Part(U, N, A, 29, 31, s)
    BY <1>1, <1>7, <1>9 DEF Part
  <1> QED BY <1>10 DEF s, both

\* All of c/3-pid-bm, and what its last step gives back, when the timer may run.
LEMMA PidBmCFits ==
  /\ Fits(PidBmUsesC, PidBmC, PidBmNamesC)
  /\ PidBmC[31].undo =
       <<"controller_task">> \o (ControllerBmEndC \o (ServerBmEndC \o ServicesEndC))
  <1> DEFINE U == PidBmUsesC
             N == PidBmNamesC
             A == NamesIn(N)
             server == ServerBmEndC \o ServicesEndC
             end == ControllerBmEndC \o server
             tasks == << Step("controller_task", end),
                         Step("server_task", <<"controller_task">> \o end) >>
             two == ServicesC \o Then(ServerBmC, ServicesEndC)
             three == two \o Then(ControllerBmC, server)
  <1>1. Len(N) = 31
    BY PidBmNames
  <1>2. server \in Seq(A) /\ Undoes(U, N, 29, server)
    <2>1. 30 \in Int /\ 29 \in Int /\ 29 <= 30
      OBVIOUS
    <2>2. server \in Seq(A) /\ Undoes(U, N, 30, server)
      BY EndsC
    <2> QED BY <2>1, <2>2, UndoesFewer
  <1>3. Part(U, N, A, 29, 31, tasks)
    <2>1. 30 \in Nat
      OBVIOUS
    <2>2. end \in Seq(A) /\ Undoes(U, N, 30, end)
      BY <2>1, EndsC, UndoesJoined, SequenceJoined
    <2> HIDE DEF end
    <2> QED BY <2>2, TasksCPart
  <1>4. PidBmC = three \o tasks
    <2>1. <<"controller_task">> \o ControllerBmEndC \o server = <<"controller_task">> \o end
      BY DEF ServerBmEndC, ServicesEndC, ControllerBmEndC
    <2> QED BY <2>1 DEF PidBmC
  <1> DEFINE both == <<"controller_task">> \o end
  <1>5. tasks[2].undo = both
    <2> HIDE DEF both, end
    <2>1. tasks[2] = Step("server_task", both)
      BY DEF both
    <2> QED BY <2>1, StepIs
  <1> HIDE DEF tasks, server
  <1>6. Part(U, N, A, 0, 15, ServicesC) /\ Part(U, N, A, 15, 20, Then(ServerBmC, ServicesEndC))
        /\ Part(U, N, A, 20, 29, ControllerBmC)
    BY ServicesCPart, ServerBmCPart, ControllerBmCPart
  <1> HIDE DEF U, N, A
  <1>7. Part(U, N, A, 20, 29, Then(ControllerBmC, server))
    BY <1>2, <1>6, ThenPart
  <1>8. Part(U, N, A, 0, 20, two)
    BY <1>1, <1>6, PartsJoined
  <1> HIDE DEF two
  <1>9. Part(U, N, A, 0, 29, three)
    BY <1>1, <1>7, <1>8, PartsJoined
  <1> HIDE DEF three, both
  <1>10. PidBmC[31].undo = both
    <2> DEFINE R == [gets : A, undo : Seq(A)]
    <2>1. three \in Seq(R) /\ tasks \in Seq(R) /\ Len(three) = 29 /\ Len(tasks) = 2
      BY <1>3, <1>9 DEF Part, Table
    <2> HIDE DEF R
    <2>2. (three \o tasks)[31] = tasks[2]
      <3>1. 2 \in 1..Len(tasks) /\ three \in Seq(R) /\ tasks \in Seq(R)
        BY <2>1
      <3>2. (three \o tasks)[Len(three) + 2] = tasks[2]
        BY ONLY <3>1, SequenceJoined
      <3>3. Len(three) + 2 = 31
        BY <2>1
      <3> QED BY <3>2, <3>3, Zenon
    <2> QED BY <1>5, <1>4, <2>2
  <1>11. Part(U, N, A, 0, 31, PidBmC)
    BY <1>1, <1>3, <1>4, <1>9, PartsJoined
  <1>12. Part(U, N, NamesIn(N), 0, 31, PidBmC) /\ 31 # 0
    BY <1>11 DEF A
  <1>13. /\ UsersLast(U, N) /\ "timer_running" \notin {N[k] : k \in 1..Len(N)}
    BY PidBmNames DEF U, N
  <1>14. Fits(U, PidBmC, N)
    BY <1>1, <1>12, <1>13, WholeFits
  <1> QED BY <1>14, <1>10 DEF U, N, both, server

\* What zig/3-pid acquires, in this order.
PidNamesZig ==
  <<"handler", "registers", "ring", "i2c", None, "chip_memory", "chip", "channel", "timer", None,
    None, None, "perf_read", "perf_control", "ctx", "socket", "connections">>

\* zig/3-pid: the errdefers of both inits, and deinit of the controller for the server
\* (Controller.zig:78-157, Server.zig:22-52, main.zig:47-81).
LEMMA PidZigFits ==
  ASSUME NEW U, U = Uses
  PROVE  Fits(U, PidZig, PidNamesZig)
  <1> DEFINE N == PidNamesZig
             A == NamesIn(N)
             first == << Step("handler", <<>>), Step("registers", <<>>) >>
             own == <<"registers">>
             end == PidControllerEndZig \o own
             control == Scoped(PidControllerZig, {})
             server == Scoped(PidServerZig, {})
  <1>1. /\ Len(N) = 17 /\ 17 # 0 /\ UsersLast(U, N)
        /\ "timer_running" \notin {N[k] : k \in 1..Len(N)}
    BY DEF UsersLast, Uses, PidNamesZig, None
  <1>2. KeepsUsed(U, {}) /\ None \in A
    BY UsesAre DEF Uses, KeepsUsed, NamesIn
  <1>3. Part(U, N, A, 0, 2, first)
    <2>1. first \in Table(A) /\ Len(first) = 2 /\ \A k \in 1..2 : first[k].gets = N[0 + k]
      BY DEF Table, Step, NamesIn, PidNamesZig
    <2>2. first[1].undo = <<>> /\ first[2].undo = <<>>
      BY DEF Step
    <2>3. Undoes(U, N, 0, <<>>) /\ Undoes(U, N, 1, <<>>)
      BY DEF Undoes
    <2> HIDE DEF N, first, A, own, end, control, server
    <2>4. Undoes(U, N, 0, first[1].undo) /\ Undoes(U, N, 1, first[2].undo)
      BY <2>2, <2>3
    <2>5. \A k \in 1..2 : Undoes(U, N, 0 + k - 1, first[k].undo)
      BY <2>4
    <2> QED BY <1>1, <2>1, <2>5 DEF Part
  <1>4. Part(U, N, A, 2, 14, control)
    <2>1. /\ PidControllerZig \in Seq(A) /\ Len(PidControllerZig) = 12
          /\ UsersLast(U, PidControllerZig)
      BY DEF NamesIn, PidNamesZig, PidControllerZig, UsersLast, Uses, None
    <2>2. \A k \in 1..12 : N[2 + k] = PidControllerZig[k]
      BY DEF PidNamesZig, PidControllerZig
    <2>3. \A use \in U : \A k \in 1..2 : N[k] # use[1]
      BY DEF PidNamesZig, Uses
    <2>4. /\ 14 = 2 + Len(PidControllerZig) /\ 14 <= Len(N)
          /\ 2 \in Nat /\ 14 \in Nat /\ Len(N) \in Nat
      BY <1>1, <2>1
    <2> HIDE DEF N, A
    <2>5. /\ \A k \in 1..Len(PidControllerZig) : N[2 + k] = PidControllerZig[k]
          /\ \A use \in U : \A k \in 1..2 : N[k] = use[1] =>
               \A j \in 1..Len(PidControllerZig) : PidControllerZig[j] # use[2]
      BY <2>1, <2>2, <2>3
    <2> QED BY <1>2, <2>1, <2>4, <2>5, ScopedPart
  <1>5. Part(U, N, A, 14, 17, server)
    <2>1. PidServerZig \in Seq(A) /\ UsersLast(U, PidServerZig) /\ Len(PidServerZig) = 3
      BY DEF NamesIn, PidNamesZig, PidServerZig, UsersLast, Uses, None
    <2>2. \A k \in 1..3 : N[14 + k] = PidServerZig[k]
      BY DEF PidNamesZig, PidServerZig
    <2>3. \A use \in U : \A k \in 1..14 :
            N[k] = use[1] => use[2] \notin {"ctx", "socket", "connections"}
      BY DEF PidNamesZig, Uses, None
    <2>4. 17 = 14 + Len(PidServerZig) /\ 17 <= Len(N) /\ 14 \in Nat /\ 17 \in Nat /\ Len(N) \in Nat
      BY <1>1, <2>1
    <2>5. \A j \in 1..3 : PidServerZig[j] \in {"ctx", "socket", "connections"}
      BY DEF PidServerZig
    <2> HIDE DEF N, A
    <2>6. /\ \A k \in 1..Len(PidServerZig) : N[14 + k] = PidServerZig[k]
          /\ \A use \in U : \A k \in 1..14 : N[k] = use[1] =>
               \A j \in 1..Len(PidServerZig) : PidServerZig[j] # use[2]
      BY <2>1, <2>2, <2>3, <2>5
    <2> QED BY <1>2, <2>1, <2>4, <2>6, ScopedPart
  <1>6. own \in Seq(A) /\ end \in Seq(A) /\ Undoes(U, N, 14, own) /\ Undoes(U, N, 17, end)
    BY DEF NamesIn, PidNamesZig, PidControllerEndZig, Undoes, Uses, None
  <1>7. PidZig = (first \o Then(control, own)) \o Then(server, end)
    BY DEF PidZig
  <1> HIDE DEF N, A, first, control, server, own, end
  <1>8. Part(U, N, A, 2, 14, Then(control, own)) /\ Part(U, N, A, 14, 17, Then(server, end))
    BY <1>4, <1>5, <1>6, ThenPart
  <1>9. Part(U, N, A, 0, 14, first \o Then(control, own))
    BY <1>1, <1>3, <1>8, PartsJoined
  <1>10. Part(U, N, A, 0, 17, PidZig)
    BY <1>1, <1>7, <1>8, <1>9, PartsJoined
  <1>11. Part(U, N, NamesIn(N), 0, 17, PidZig)
    BY <1>10 DEF A
  <1>12. Fits(U, PidZig, N)
    BY <1>1, <1>11, WholeFits
  <1> QED BY <1>12 DEF N

\* The uses that zig/3-pid-bm respects: all but those of the handlers that stay registered.
PidBmUsesZig == Uses \ {<<"handler_wifi", "event_loop">>, <<"handler_ip", "event_loop">>}

\* zig/3-pid-bm: one scope with the handlers that stay registered (app.zig:23-91).
LEMMA PidBmZigFits ==
  ASSUME NEW U, U = PidBmUsesZig
  PROVE  Fits(U, PidBmZig, ServicesZig \o ServerBmZig \o ControllerBmZig
                             \o <<"server_task", "controller_task">>)
  <1> DEFINE N == ServicesZig \o ServerBmZig \o ControllerBmZig
                  \o <<"server_task", "controller_task">>
             S == {"nvs", "event_loop", "mdns", None, "event_group", "netif_stack", "netif",
                   "driver", "handler_wifi", "handler_ip", "started", "slave", "slave_running",
                   "ring", "adc", "pwm_timer", "pwm_channel", "timer", "timer_enabled",
                   "server_task", "controller_task"}
  <1>1. N \in Seq(S)
    BY DEF ServicesZig, WifiZig, ServerBmZig, ControllerBmZig
  <1>2. Len(N) # 0 /\ "timer_running" \notin {N[k] : k \in 1..Len(N)}
    BY DEF ServicesZig, WifiZig, ServerBmZig, ControllerBmZig, None
  <1>3. UsersLast(U, N)
    <2>1. UsersLast(Uses, N)
      BY DEF UsersLast, Uses, ServicesZig, WifiZig, ServerBmZig, ControllerBmZig, None
    <2> QED BY <2>1 DEF UsersLast, PidBmUsesZig
  <1>4. KeepsUsed(U, LooseZig)
    BY UsesAre DEF Uses, KeepsUsed, LooseZig, PidBmUsesZig
  <1> HIDE DEF N, S
  <1>5. Fits(U, Scoped(N, LooseZig), N)
    BY <1>1, <1>2, <1>3, <1>4, ScopedFits
  <1> QED BY <1>5 DEF N, PidBmZig

\* What rust/3-pid-bm acquires, in this order.
PidBmNamesRust ==
  <<"nvs", "event_loop", "mdns", None, None, "netif", "driver", None, None, "started", None, None,
    "slave", None, None, None, "slave_running", "server_task", "controller_task",
    "adc", "pwm_timer", "pwm_channel", "timer", None, None, None, "timer_enabled", None, "ring">>

\* The uses that rust/3-pid-bm respects: all but the slave that outlives its network and
\* mdns that outlives the event loop.
PidBmUsesRust == Uses \ {<<"slave", "netif">>, <<"mdns", "event_loop">>}

\* The services, and what is dropped of them when the start fails later (services.rs:19-67).
LEMMA PidBmRustServices ==
  ASSUME NEW U, U = PidBmUsesRust, NEW N, N = PidBmNamesRust, NEW A, A = NamesIn(N)
  PROVE  /\ Part(U, N, A, 0, 12, ServicesRust)
         /\ ServicesEndRust \in Seq(A) /\ Undoes(U, N, 18, ServicesEndRust)
  <1> DEFINE M == <<"nvs", "event_loop", "mdns", None, None>>
             first == Scoped(M, {})
             loop == <<"nvs", "mdns", "event_loop">>
             both == <<"netif", "nvs", "mdns", "event_loop">>
             wifi2 == << Step("netif", loop), Step("driver", both) >>
             names == <<None, None, "started", None, None>>
             end == ServicesEndRust
             wifi5 == [l \in 1..5 |-> Step(names[l], end)]
  <1>1. Len(N) = 29 /\ None \in A /\ KeepsUsed(U, {})
    BY UsesAre DEF PidBmNamesRust, NamesIn, PidBmUsesRust, Uses, KeepsUsed
  <1>2. end \in Seq(A) /\ Undoes(U, N, 18, end) /\ Undoes(U, N, 11, end)
    BY DEF NamesIn, PidBmNamesRust, ServicesEndRust, Undoes, PidBmUsesRust, Uses, None
  <1>3. Part(U, N, A, 0, 5, first)
    <2>1. M \in Seq(A) /\ Len(M) = 5 /\ \A k \in 1..5 : N[0 + k] = M[k]
      BY DEF NamesIn, PidBmNamesRust
    <2>2. UsersLast(U, M)
      BY DEF UsersLast, PidBmUsesRust, Uses, None
    <2>3. 5 = 0 + Len(M) /\ 5 <= Len(N) /\ 0 \in Nat /\ 5 \in Nat /\ Len(N) \in Nat
      BY <1>1, <2>1
    <2> HIDE DEF M, end
    <2>4. /\ \A k \in 1..Len(M) : N[0 + k] = M[k]
          /\ \A use \in U : \A k \in 1..0 : N[k] = use[1] => \A j \in 1..Len(M) : M[j] # use[2]
      BY <2>1
    <2> QED BY <1>1, <2>1, <2>2, <2>3, <2>4, ScopedPart
  <1>4. Part(U, N, A, 5, 7, wifi2)
    <2>1. loop \in Seq(A) /\ both \in Seq(A) /\ Undoes(U, N, 5, loop) /\ Undoes(U, N, 6, both)
      BY DEF NamesIn, PidBmNamesRust, Undoes, PidBmUsesRust, Uses, None
    <2>2. N[6] = "netif" /\ N[7] = "driver" /\ "netif" \in A /\ "driver" \in A
      BY DEF NamesIn, PidBmNamesRust
    <2> HIDE DEF loop, both, end
    <2>3. wifi2 \in Table(A) /\ Len(wifi2) = 2
      <3> DEFINE R == [gets : A, undo : Seq(A)]
      <3>1. Step("netif", loop) \in R /\ Step("driver", both) \in R
        BY <2>1, <2>2 DEF Step
      <3>2. Table(A) = Seq(R)
        BY DEF Table
      <3> HIDE DEF R
      <3> QED BY <3>1, <3>2
    <2>4. wifi2[1] = Step("netif", loop) /\ wifi2[2] = Step("driver", both)
      OBVIOUS
    <2>5. /\ wifi2[1].gets = "netif" /\ wifi2[1].undo = loop
          /\ wifi2[2].gets = "driver" /\ wifi2[2].undo = both
      BY <2>4, StepIs
    <2> HIDE DEF wifi2
    <2>6. \A k \in 1..2 : wifi2[k].gets = N[5 + k] /\ Undoes(U, N, 5 + k - 1, wifi2[k].undo)
      <3>1. wifi2[1].gets = N[6] /\ wifi2[2].gets = N[7]
        BY <2>2, <2>5
      <3>2. Undoes(U, N, 5, wifi2[1].undo) /\ Undoes(U, N, 6, wifi2[2].undo)
        BY <2>1, <2>5
      <3> QED BY <3>1, <3>2
    <2> QED BY <1>1, <2>3, <2>6 DEF Part
  <1>5. Part(U, N, A, 7, 12, wifi5)
    <2>1. \A l \in 1..5 : names[l] \in A /\ names[l] = N[7 + l]
      BY DEF NamesIn, PidBmNamesRust
    <2> HIDE DEF names, end
    <2>2. ASSUME NEW l \in 1..5
          PROVE  /\ wifi5[l] = Step(names[l], end)
                 /\ wifi5[l].gets = names[l] /\ wifi5[l].undo = end
                 /\ Step(names[l], end) \in [gets : A, undo : Seq(A)]
      BY <1>2, <2>1, StepIs DEF Step
    <2>3. wifi5 \in Table(A) /\ Len(wifi5) = 5
      <3> DEFINE R == [gets : A, undo : Seq(A)]
      <3>1. wifi5 \in [1..5 -> R]
        BY <2>2
      <3>2. Table(A) = Seq(R)
        BY DEF Table
      <3> HIDE DEF R, wifi5
      <3> QED BY <3>1, <3>2, SequenceMade
    <2> HIDE DEF wifi5
    <2>4. ASSUME NEW l \in 1..5 PROVE Undoes(U, N, 7 + l - 1, wifi5[l].undo)
      <3>1. 11 \in Int /\ 7 + l - 1 \in Int /\ 7 + l - 1 <= 11
        OBVIOUS
      <3>2. Undoes(U, N, 11, wifi5[l].undo)
        BY <1>2, <2>2
      <3> QED BY ONLY <3>1, <3>2, UndoesFewer
    <2> QED BY <1>1, <2>1, <2>2, <2>3, <2>4 DEF Part
  <1>6. ServicesRust = (first \o wifi2) \o wifi5
    BY DEF ServicesRust
  <1> HIDE DEF M, first, wifi2, wifi5, end
  <1>7. Part(U, N, A, 0, 7, first \o wifi2)
    BY <1>1, <1>3, <1>4, PartsJoined
  <1>8. Part(U, N, A, 0, 12, ServicesRust)
    BY <1>1, <1>5, <1>6, <1>7, PartsJoined
  <1> QED BY <1>2, <1>8 DEF end

\* rust/3-pid-bm: what main drops on its way, and nothing once the controller has its own
\* thread (main.rs:39-120).
LEMMA PidBmRustFits ==
  /\ Fits(PidBmUsesRust, PidBmRust, PidBmNamesRust)
  /\ \A k \in 1..10 : PidBmRust[19 + k].undo = <<>>
  <1> DEFINE U == PidBmUsesRust
             N == PidBmNamesRust
             A == NamesIn(N)
             M == ServerBmRust
             v == ServicesEndRust
             server == Scoped(M, {})
             first == ServicesRust \o Then(server, v)
             task == << Step("controller_task", v) >>
             rest == [l \in DOMAIN ControllerBmRust |-> Step(ControllerBmRust[l], <<>>)]
  <1>1. /\ Len(N) = 29 /\ 29 # 0 /\ UsersLast(U, N)
        /\ "timer_running" \notin {N[k] : k \in 1..Len(N)}
    BY DEF UsersLast, PidBmUsesRust, Uses, PidBmNamesRust, None
  <1>2. KeepsUsed(U, {}) /\ None \in A
    BY UsesAre DEF PidBmUsesRust, Uses, KeepsUsed, NamesIn
  <1>3. v \in Seq(A) /\ Undoes(U, N, 18, v) /\ Part(U, N, A, 0, 12, ServicesRust)
    BY PidBmRustServices
  <1>4. Part(U, N, A, 0, 18, first)
    <2>1. M \in Seq(A) /\ Len(M) = 6 /\ \A k \in 1..6 : N[12 + k] = M[k]
      BY DEF NamesIn, PidBmNamesRust, ServerBmRust, None
    <2>2. UsersLast(U, M)
      BY DEF ServerBmRust, UsersLast, PidBmUsesRust, Uses, None
    <2>3. \A use \in U : \A k \in 1..12 : N[k] = use[1] => \A j \in 1..6 : M[j] # use[2]
      BY DEF PidBmNamesRust, ServerBmRust, PidBmUsesRust, Uses, None
    <2>4. 18 = 12 + Len(M) /\ 18 <= Len(N) /\ 12 \in Nat /\ 18 \in Nat /\ Len(N) \in Nat
      BY <1>1, <2>1
    <2> HIDE DEF N, A, M, v
    <2>5. /\ \A k \in 1..Len(M) : N[12 + k] = M[k]
          /\ \A use \in U : \A k \in 1..12 :
               N[k] = use[1] => \A j \in 1..Len(M) : M[j] # use[2]
      BY <2>1, <2>3
    <2> HIDE DEF U
    <2>6. Part(U, N, A, 12, 18, server)
      BY <1>2, <2>1, <2>2, <2>4, <2>5, ScopedPart
    <2> HIDE DEF server
    <2>7. Part(U, N, A, 12, 18, Then(server, v))
      BY <1>3, <2>6, ThenPart
    <2> QED BY <1>3, <2>4, <2>7, PartsJoined
  <1>5. Part(U, N, A, 18, 19, task)
    <2>1. "controller_task" \in A /\ N[19] = "controller_task"
      BY DEF NamesIn, PidBmNamesRust
    <2> HIDE DEF v, N, A
    <2>2. task \in Table(A) /\ Len(task) = 1
      <3> DEFINE R == [gets : A, undo : Seq(A)]
      <3>1. Step("controller_task", v) \in R
        BY <1>3, <2>1 DEF Step
      <3>2. Table(A) = Seq(R)
        BY DEF Table
      <3> HIDE DEF R
      <3> QED BY <3>1, <3>2
    <2>3. task[1].gets = N[19] /\ task[1].undo = v
      BY <2>1, StepIs
    <2> HIDE DEF task
    <2>4. \A k \in 1..1 : task[k].gets = N[18 + k] /\ Undoes(U, N, 18 + k - 1, task[k].undo)
      BY <1>3, <2>3
    <2> QED BY <1>1, <2>2, <2>4 DEF Part
  <1>6. Part(U, N, A, 19, 29, rest)
    <2> DEFINE none == <<>>
    <2>1. DOMAIN ControllerBmRust = 1..10 /\ \A l \in 1..10 : ControllerBmRust[l] \in A
      BY DEF NamesIn, PidBmNamesRust, ControllerBmRust
    <2>2. \A l \in 1..10 : ControllerBmRust[l] = N[19 + l]
      BY DEF PidBmNamesRust, ControllerBmRust
    <2>3. none \in Seq(A) /\ \A m \in 0..29 : Undoes(U, N, m, none)
      BY DEF Undoes
    <2>4. rest = [l \in 1..10 |-> Step(ControllerBmRust[l], none)]
      BY <2>1
    <2> HIDE DEF none, N, A, rest
    <2>5. ASSUME NEW l \in 1..10
          PROVE  /\ rest[l].gets = ControllerBmRust[l] /\ rest[l].undo = none
                 /\ Step(ControllerBmRust[l], none) \in [gets : A, undo : Seq(A)]
      BY <2>1, <2>3, <2>4, StepIs DEF Step
    <2>6. rest \in Table(A) /\ Len(rest) = 10
      <3> DEFINE R == [gets : A, undo : Seq(A)]
      <3>1. rest \in [1..10 -> R]
        BY <2>4, <2>5
      <3>2. Table(A) = Seq(R)
        BY DEF Table
      <3> HIDE DEF R
      <3> QED BY <3>1, <3>2, SequenceMade
    <2>7. ASSUME NEW l \in 1..10
          PROVE  rest[l].gets = N[19 + l] /\ Undoes(U, N, 19 + l - 1, rest[l].undo)
      <3>1. 19 + l - 1 \in 0..29
        OBVIOUS
      <3> QED BY <2>2, <2>3, <2>5, <3>1
    <2> QED BY <1>1, <2>6, <2>7 DEF Part
  <1>7. PidBmRust = (first \o task) \o rest
    BY DEF PidBmRust
  <1>8. \A l \in 1..10 : rest[l].undo = <<>>
    <2>1. DOMAIN ControllerBmRust = 1..10
      BY DEF ControllerBmRust
    <2> QED BY <2>1, StepIs
  <1> HIDE DEF U, N, A, M, server, first, task, rest, v
  <1>9. Part(U, N, A, 0, 19, first \o task)
    <2>1. Len(N) \in Nat
      BY <1>1
    <2> QED BY ONLY <2>1, <1>4, <1>5, PartsJoined
  <1>10. Part(U, N, A, 0, 29, PidBmRust)
    <2> DEFINE both == first \o task
    <2>1. Len(N) \in Nat /\ Part(U, N, A, 0, 19, both)
      BY <1>1, <1>9
    <2> HIDE DEF both
    <2>2. Part(U, N, A, 0, 29, both \o rest)
      BY <1>6, <2>1, PartsJoined
    <2> QED BY <1>7, <2>2 DEF both
  <1>11. ASSUME NEW k \in 1..10 PROVE PidBmRust[19 + k].undo = <<>>
    <2> DEFINE both == first \o task
               R == [gets : A, undo : Seq(A)]
    <2>1. Part(U, N, A, 0, 19, both)
      BY <1>9
    <2> HIDE DEF both
    <2>2. both \in Seq(R) /\ rest \in Seq(R) /\ Len(both) = 19 /\ Len(rest) = 10
      BY <1>6, <2>1 DEF Part, Table
    <2> HIDE DEF R
    <2>3. (both \o rest)[19 + k] = rest[k]
      <3>1. k \in 1..Len(rest)
        BY <2>2
      <3>2. Len(both) + k = 19 + k
        BY <2>2
      <3>3. both \in Seq(R) /\ rest \in Seq(R)
        BY <2>2
      <3>4. (both \o rest)[Len(both) + k] = rest[k]
        BY ONLY <3>1, <3>3, SequenceJoined
      <3> QED BY <3>2, <3>4, Zenon
    <2> QED BY <1>7, <1>8, <2>3 DEF both
  <1>12. Part(U, N, NamesIn(N), 0, 29, PidBmRust)
    BY <1>10 DEF A
  <1>13. Fits(U, PidBmRust, N)
    BY <1>1, <1>12, WholeFits
  <1> QED BY <1>13, <1>11 DEF U, N

-----------------------------------------------------------------------------
(* Every program gives back users first *)

\* The uses that p respects.
UsesOf(p) == Uses \ KnownDangling(p)

\* A sequence over S is one over whatever contains S.
LEMMA SequenceWider ==
  ASSUME NEW S, NEW T, S \subseteq T, NEW u \in Seq(S)
  PROVE  u \in Seq(T)
  OBVIOUS

\* A table that fits gets its names and gives back nothing else.
LEMMA FitsNames ==
  ASSUME NEW U, NEW s, NEW N, Fits(U, s, N)
  PROVE  /\ Len(N) \in Nat \ {0} /\ Len(s) = Len(N) /\ DOMAIN s = 1..Len(N)
         /\ \A k \in 1..Len(N) : s[k].gets = N[k] /\ N[k] # "timer_running"
         /\ \A k \in 1..Len(N) : s[k].undo \in Seq(NamesIn(N))
         /\ \A m \in 0..Len(N) : Got(s, m) = {N[k] : k \in 1..m} \ {None}
         /\ AcquiresOf(s) = Got(s, Len(N)) \cup {"timer_running"}
         /\ NamesIn(N) \subseteq AcquiresOf(s) \cup {None}
  <1> DEFINE R == [gets : NamesIn(N), undo : Seq(NamesIn(N))]
             n == Len(N)
  <1>1. /\ n \in Nat \ {0} /\ Len(s) = n /\ s \in Seq(R)
        /\ \A k \in 1..n : s[k].gets = N[k] /\ N[k] # "timer_running"
    BY DEF Fits, Table
  <1>2. DOMAIN s = 1..n /\ \A k \in 1..n : s[k] \in R
    <2> HIDE DEF R
    <2> QED BY <1>1
  <1>3. \A k \in 1..n : s[k].undo \in Seq(NamesIn(N))
    BY <1>2
  <1> HIDE DEF R
  <1>4. ASSUME NEW m \in 0..n PROVE Got(s, m) = {N[k] : k \in 1..m} \ {None}
    BY <1>1 DEF Got
  <1>5. AcquiresOf(s) = Got(s, n) \cup {"timer_running"}
    BY <1>2 DEF AcquiresOf, Got
  <1>6. NamesIn(N) \subseteq AcquiresOf(s) \cup {None}
    BY <1>1, <1>4, <1>5 DEF NamesIn
  <1> QED BY <1>1, <1>2, <1>3, <1>4, <1>5, <1>6

\* What it holds after m steps is what it gets from the first m names.
LEMMA FitsGot ==
  ASSUME NEW U, NEW s, NEW N, Fits(U, s, N), NEW m, m \in 0..Len(N)
  PROVE  Got(s, m) = {N[k] : k \in 1..m} \ {None}
  BY FitsNames

\* What gives back users first is sound, where the timer cannot start: nothing is given back
\* that the timer uses, since it never runs.
LEMMA FitsSound ==
  ASSUME NEW p, NEW N, Fits(UsesOf(p), Steps[p], N), NEW m \in 0..Len(N),
         NEW u \in Seq(NamesIn(N)), Undoes(UsesOf(p), N, m, u),
         Starters \subseteq Got(Steps[p], m) => p.lang # "C" /\ u = <<>>
  PROVE  Sound(p, Got(Steps[p], m), u)
  <1> DEFINE s == Steps[p]
             H == Got(s, m)
  <1>1. /\ Len(N) \in Nat
        /\ H = {N[k] : k \in 1..m} \ {None}
        /\ AcquiresOf(s) = ({N[k] : k \in 1..Len(N)} \ {None}) \cup {"timer_running"}
        /\ NamesIn(N) \subseteq AcquiresOf(s) \cup {None}
    BY FitsNames
  <1>2. May(p, H) = H
    BY DEF May
  <1> HIDE DEF s, H
  <1>3. Complete(p, H)
    <2>1. SUFFICES ASSUME NEW use \in UsesOf(p), use[1] \in H, use[2] \in AcquiresOf(s)
                   PROVE  use[2] \in H
      BY DEF Complete, UsesOf, s
    <2>2. use[2] # "timer_running" /\ use[2] # None
      BY UsesAre DEF UsesOf
    <2>3. PICK j \in 1..Len(N) : N[j] = use[2]
      BY <1>1, <2>1, <2>2
    <2>4. PICK k \in 1..m : N[k] = use[1]
      BY <1>1, <2>1
    <2>5. k \in 1..Len(N)
      BY <1>1
    <2>6. j < k
      BY <2>3, <2>4, <2>5 DEF Fits, UsersLast
    <2>7. j \in 1..m
      BY <1>1, <2>6
    <2> QED BY <1>1, <2>2, <2>3, <2>7
  <1>4. UsersFirst(p, H, u)
    <2>1. SUFFICES ASSUME NEW use \in UsesOf(p), use[1] \in H, NEW j \in 1..Len(u), u[j] = use[2]
                   PROVE  \E l \in 1..(j - 1) : u[l] = use[1]
      BY DEF UsersFirst, UsesOf
    <2>2. PICK k \in 1..m : N[k] = use[1]
      BY <1>1, <2>1
    <2> QED BY <2>1, <2>2 DEF Undoes
  <1>5. StopsTimer(H, u)
    <2>1. Starters \subseteq H => 1..Len(u) = {}
      BY DEF H, s
    <2> QED BY <2>1 DEF StopsTimer
  <1>6. u \in Seq(AcquiresOf(s) \cup {None})
    BY <1>1, SequenceWider
  <1> QED BY <1>2, <1>3, <1>4, <1>5, <1>6 DEF Sound, Unwinds, s, H

\* What is given back after a signal; no program with a signal has a task.
EndsWell(p, N) ==
  /\ EndOf(p) \in Seq(NamesIn(N)) /\ Undoes(UsesOf(p), N, Len(N), EndOf(p))
  /\ "controller_task" \notin {N[k] : k \in 1..Len(N)}

\* What is given back after a panic.
PanicsWell(p, N) ==
  /\ <<"perf">> \in Seq(NamesIn(N)) /\ Undoes(UsesOf(p), N, Len(N), <<"perf">>)
  /\ "controller_task" \notin {N[k] : k \in 1..Len(N)}

\* What is given back at step k when the timer may start meanwhile.
RacesWell(p, k) ==
  Starters \subseteq Got(Steps[p], k - 1) => Sound(p, Got(Steps[p], k - 1), Steps[p][k].undo)

\* What is left to show of a table that fits: the end, the panic and the race.
LEMMA FitsWellFormed ==
  ASSUME NEW p, NEW N, Fits(UsesOf(p), Steps[p], N),
         \A k \in 1..Len(N) : RacesWell(p, k),
         "handler" \in {N[k] : k \in 1..Len(N)} => EndsWell(p, N),
         p = BlinkyBmRust => PanicsWell(p, N)
  PROVE  WellFormed(p)
  <1> DEFINE s == Steps[p]
             n == Len(s)
  <1>1. /\ n = Len(N) /\ n \in Nat \ {0} /\ DOMAIN s = 1..n
        /\ \A k \in 1..n : s[k].gets = N[k] /\ N[k] # "timer_running"
        /\ \A k \in 1..n : s[k].undo \in Seq(NamesIn(N))
        /\ \A m \in 0..n : Got(s, m) = {N[k] : k \in 1..m} \ {None}
        /\ AcquiresOf(s) = Got(s, n) \cup {"timer_running"}
    BY FitsNames
  <1>2. ASSUME NEW k \in 1..n PROVE Sound(p, Got(s, k - 1), s[k].undo)
    <2>1. CASE Starters \subseteq Got(s, k - 1)
      BY <1>1, <2>1 DEF RacesWell
    <2>2. CASE ~(Starters \subseteq Got(s, k - 1))
      <3> DEFINE u == s[k].undo
                 m == k - 1
      <3>1. m \in 0..Len(N) /\ u \in Seq(NamesIn(N)) /\ Undoes(UsesOf(p), N, m, u)
        BY <1>1 DEF Fits
      <3>2. ~(Starters \subseteq Got(Steps[p], m))
        BY <2>2
      <3> HIDE DEF u, m
      <3>3. Sound(p, Got(Steps[p], m), u)
        BY <3>1, <3>2, FitsSound
      <3> QED BY <3>3 DEF u, m
    <2> QED BY <2>1, <2>2
  <1>3. Complete(p, Got(s, n)) /\ Complete(p, Got(s, n) \cup {"timer_running"})
    BY <1>1, UsesAre DEF Complete
  <1>4. ASSUME NEW u, u \in Seq(NamesIn(N)), Undoes(UsesOf(p), N, Len(N), u),
               "controller_task" \notin {N[k] : k \in 1..Len(N)}
        PROVE  ~(Starters \subseteq Got(s, n)) /\ Sound(p, Got(s, n), u)
    <2>1. ~(Starters \subseteq Got(s, n))
      BY <1>1, <1>4 DEF Starters
    <2>2. Len(N) \in 0..Len(N) /\ ~(Starters \subseteq Got(Steps[p], Len(N)))
      BY <1>1, <2>1
    <2>3. Sound(p, Got(Steps[p], Len(N)), u)
      BY <1>4, <2>2, FitsSound
    <2> QED BY <1>1, <2>1, <2>3
  <1>5. "handler" \in Got(s, n) => ~(Starters \subseteq Got(s, n)) /\ Sound(p, Got(s, n), EndOf(p))
    <2>1. SUFFICES ASSUME "handler" \in Got(s, n)
                   PROVE  ~(Starters \subseteq Got(s, n)) /\ Sound(p, Got(s, n), EndOf(p))
      OBVIOUS
    <2>2. EndsWell(p, N)
      BY <1>1, <2>1
    <2> QED BY <1>4, <2>2 DEF EndsWell
  <1>6. p = BlinkyBmRust => ~(Starters \subseteq Got(s, n)) /\ Sound(p, Got(s, n), <<"perf">>)
    BY <1>4 DEF PanicsWell
  <1> QED BY <1>1, <1>2, <1>3, <1>5, <1>6 DEF WellFormed

\* Without a task there is no race.
LEMMA NoRace ==
  ASSUME NEW p, NEW N, Fits(UsesOf(p), Steps[p], N),
         "controller_task" \notin {N[k] : k \in 1..Len(N)}
  PROVE  \A k \in 1..Len(N) : RacesWell(p, k)
  <1> SUFFICES ASSUME NEW k \in 1..Len(N) PROVE RacesWell(p, k)
    OBVIOUS
  <1>1. k - 1 \in 0..Len(N) /\ 1..(k - 1) \subseteq 1..Len(N)
    OBVIOUS
  <1>2. Got(Steps[p], k - 1) = {N[l] : l \in 1..(k - 1)} \ {None}
    BY <1>1, FitsNames
  <1> QED BY <1>1, <1>2 DEF RacesWell, Starters

\* Who leaves main drops everything but the handler of the signal (zig and rust but zig/3-pid).
LEMMA ReversedEnd ==
  ASSUME NEW p, NEW N, Fits(UsesOf(p), Steps[p], N), KeepsUsed(UsesOf(p), {"handler"}),
         EndOf(p) = Deferred(Guarded([k \in DOMAIN Steps[p] |-> Steps[p][k].gets], {"handler"}))
  PROVE  EndOf(p) \in Seq(NamesIn(N)) /\ Undoes(UsesOf(p), N, Len(N), EndOf(p))
  <1> DEFINE s == Steps[p]
             A == NamesIn(N)
             f == [k \in DOMAIN s |-> s[k].gets]
             g == Guarded(f, {"handler"})
  <1>1. /\ Len(N) \in Nat /\ DOMAIN s = 1..Len(N) /\ UsersLast(UsesOf(p), N)
        /\ \A k \in 1..Len(N) : s[k].gets = N[k]
    BY FitsNames DEF Fits
  <1>2. f \in [1..Len(N) -> A] /\ \A k \in 1..Len(N) : f[k] = N[k]
    BY <1>1 DEF NamesIn
  <1>3. None \in A
    BY DEF NamesIn
  <1> HIDE DEF f, A
  <1>4. f \in Seq(A) /\ Len(f) = Len(N)
    BY <1>1, <1>2, SequenceMade
  <1>5. /\ g \in Seq(A) /\ Len(g) = Len(N)
        /\ \A k \in 1..Len(N) : g[k] = IF N[k] \in {"handler"} THEN None ELSE N[k]
    BY <1>2, <1>3, <1>4, GuardedIs
  <1> HIDE DEF g
  <1>6. Deferred(g) \in Seq(A) /\ Len(N) \in 0..Len(N)
    BY <1>1, <1>5, DeferredIs
  <1>7. Undoes(UsesOf(p), N, Len(N), Deferred(g))
    BY <1>1, <1>5, <1>6, ReverseUndoes
  <1>8. EndOf(p) = Deferred(g)
    BY DEF g, f, s
  <1> QED BY <1>6, <1>7, <1>8 DEF A

\* A program by its language, what it does, and where it runs.
Prog(l, d, o) == [lang |-> l, does |-> d, on |-> o]

\* Its table is found by the three.
LEMMA ProgramIs ==
  ASSUME NEW l \in Langs, NEW d \in {"blinky", "motor", "pid"}, NEW o \in {"os", "bm"}
  PROVE  Prog(l, d, o) \in Programs /\ Steps[Prog(l, d, o)] = StepsOf[l][d][o]
  BY DEF Prog, Programs, Steps

\* There are no others but 0-tune.
LEMMA ProgramCases ==
  ASSUME NEW p \in Programs
  PROVE  \/ p = Tune
         \/ \E l \in Langs : \E d \in {"blinky", "motor", "pid"} : \E o \in {"os", "bm"} :
              p = Prog(l, d, o)
  BY DEF Programs, Prog

\* Only one is BlinkyBmRust.
LEMMA ProgramIsNot ==
  ASSUME NEW l, NEW d, NEW o, ~(l = "Rust" /\ d = "blinky" /\ o = "bm")
  PROVE  Prog(l, d, o) # BlinkyBmRust
  BY DEF Prog, BlinkyBmRust

\* Tables without the task and without a signal.
LEMMA SimplyWellFormed ==
  ASSUME NEW p, NEW N, Fits(UsesOf(p), Steps[p], N),
         "controller_task" \notin {N[k] : k \in 1..Len(N)},
         "handler" \notin {N[k] : k \in 1..Len(N)}, p # BlinkyBmRust
  PROVE  WellFormed(p)
  BY NoRace, FitsWellFormed

\* Tables without the task and with a signal.
LEMMA EndsWellFormed ==
  ASSUME NEW p, NEW N, Fits(UsesOf(p), Steps[p], N),
         "controller_task" \notin {N[k] : k \in 1..Len(N)},
         EndOf(p) \in Seq(NamesIn(N)) /\ Undoes(UsesOf(p), N, Len(N), EndOf(p)), p # BlinkyBmRust
  PROVE  WellFormed(p)
  BY NoRace, FitsWellFormed DEF EndsWell

\* The names of neither the timer nor the task that starts it.
Quiet(N) ==
  /\ "timer_running" \notin {N[k] : k \in 1..Len(N)}
  /\ "controller_task" \notin {N[k] : k \in 1..Len(N)}

\* Programs that are one scope.
LEMMA ScopedStarts ==
  ASSUME NEW p, NEW S, NEW N \in Seq(S), Len(N) # 0, UsersLast(Uses, N), Quiet(N),
         NEW loose, KeepsUsed(Uses, loose), Steps[p] = Scoped(N, loose), p # BlinkyBmRust,
         \/ "handler" \notin {N[k] : k \in 1..Len(N)}
         \/ EndOf(p) = Deferred(Guarded([k \in DOMAIN Steps[p] |-> Steps[p][k].gets], {"handler"}))
  PROVE  WellFormed(p)
  <1>1. UsersLast(UsesOf(p), N) /\ KeepsUsed(UsesOf(p), loose) /\ KeepsUsed(UsesOf(p), {"handler"})
    <2>1. UsesOf(p) \subseteq Uses
      BY DEF UsesOf
    <2>2. UsersLast(UsesOf(p), N) /\ KeepsUsed(UsesOf(p), loose)
      BY <2>1 DEF UsersLast, KeepsUsed
    <2>3. KeepsUsed(UsesOf(p), {"handler"})
      BY <2>1, UsesAre DEF Uses, KeepsUsed
    <2> QED BY <2>2, <2>3
  <1>2. Fits(UsesOf(p), Steps[p], N)
    <2>1. Fits(UsesOf(p), Scoped(N, loose), N)
      BY <1>1, ScopedFits DEF Quiet
    <2> QED BY <2>1
  <1>3. CASE "handler" \notin {N[k] : k \in 1..Len(N)}
    BY <1>2, <1>3, SimplyWellFormed DEF Quiet
  <1>4. CASE EndOf(p) = Deferred(Guarded([k \in DOMAIN Steps[p] |-> Steps[p][k].gets], {"handler"}))
    <2>1. EndOf(p) \in Seq(NamesIn(N)) /\ Undoes(UsesOf(p), N, Len(N), EndOf(p))
      BY <1>1, <1>2, <1>4, ReversedEnd
    <2> QED BY <1>2, <2>1, EndsWellFormed DEF Quiet
  <1> QED BY <1>3, <1>4

\* zig/1-blinky (main.zig:21-43).
LEMMA BlinkyZigStarts == WellFormed(Prog("Zig", "blinky", "os"))
  <1> DEFINE p == Prog("Zig", "blinky", "os")
             N == <<"handler", "chip", "line", "perf">>
  <1>1. Steps[p] = Scoped(N, {"handler"}) /\ p # BlinkyBmRust
    BY ProgramIs, ProgramIsNot DEF StepsOf, Langs, BlinkyZig
  <1>2. /\ N \in Seq({"handler", "chip", "line", "perf"})
        /\ Len(N) # 0 /\ Quiet(N)
    BY DEF Quiet, None
  <1>3. UsersLast(Uses, N) /\ KeepsUsed(Uses, {"handler"})
    BY UsesAre DEF UsersLast, KeepsUsed, Uses, None
  <1>4. EndOf(p) = Deferred(Guarded([k \in DOMAIN Steps[p] |-> Steps[p][k].gets], {"handler"}))
    BY DEF EndOf, Prog
  <1> HIDE DEF p, N
  <1>5. WellFormed(p)
    BY <1>1, <1>2, <1>3, <1>4, ScopedStarts
  <1> QED BY <1>5 DEF p

\* zig/2-motor (main.zig:28-61).
LEMMA MotorZigStarts == WellFormed(Prog("Zig", "motor", "os"))
  <1> DEFINE p == Prog("Zig", "motor", "os")
             N == <<"handler", "chip", "channel", None, None, "i2c", None, "perf">>
  <1>1. Steps[p] = Scoped(N, {"handler"}) /\ p # BlinkyBmRust
    BY ProgramIs, ProgramIsNot DEF StepsOf, Langs, MotorZig
  <1>2. /\ N \in Seq({"handler", "chip", "channel", None, "i2c", "perf"})
        /\ Len(N) # 0 /\ Quiet(N)
    BY DEF Quiet, None
  <1>3. UsersLast(Uses, N) /\ KeepsUsed(Uses, {"handler"})
    BY UsesAre DEF UsersLast, KeepsUsed, Uses, None
  <1>4. EndOf(p) = Deferred(Guarded([k \in DOMAIN Steps[p] |-> Steps[p][k].gets], {"handler"}))
    BY DEF EndOf, Prog
  <1> HIDE DEF p, N
  <1>5. WellFormed(p)
    BY <1>1, <1>2, <1>3, <1>4, ScopedStarts
  <1> QED BY <1>5 DEF p

\* zig/2-motor-bm (app.zig:50-68).
LEMMA MotorBmZigStarts == WellFormed(Prog("Zig", "motor", "bm"))
  <1> DEFINE p == Prog("Zig", "motor", "bm")
             N == <<"adc", None, "pwm_timer", "pwm_channel", "perf">>
  <1>1. Steps[p] = Scoped(N, {}) /\ p # BlinkyBmRust
    BY ProgramIs, ProgramIsNot DEF StepsOf, Langs, MotorBmZig
  <1>2. /\ N \in Seq({"adc", None, "pwm_timer", "pwm_channel", "perf"})
        /\ Len(N) # 0 /\ Quiet(N)
    BY DEF Quiet, None
  <1>3. UsersLast(Uses, N) /\ KeepsUsed(Uses, {})
    BY UsesAre DEF UsersLast, KeepsUsed, Uses, None
  <1>4. "handler" \notin {N[k] : k \in 1..Len(N)}
    BY DEF None
  <1> HIDE DEF p, N
  <1>5. WellFormed(p)
    BY <1>1, <1>2, <1>3, <1>4, ScopedStarts
  <1> QED BY <1>5 DEF p

\* rust/1-blinky (main.rs:21-36).
LEMMA BlinkyRustStarts == WellFormed(Prog("Rust", "blinky", "os"))
  <1> DEFINE p == Prog("Rust", "blinky", "os")
             N == <<"pin", "handler", "perf">>
  <1>1. Steps[p] = Scoped(N, {"handler"}) /\ p # BlinkyBmRust
    BY ProgramIs, ProgramIsNot DEF StepsOf, Langs, BlinkyRust
  <1>2. /\ N \in Seq({"pin", "handler", "perf"})
        /\ Len(N) # 0 /\ Quiet(N)
    BY DEF Quiet, None
  <1>3. UsersLast(Uses, N) /\ KeepsUsed(Uses, {"handler"})
    BY UsesAre DEF UsersLast, KeepsUsed, Uses, None
  <1>4. EndOf(p) = Deferred(Guarded([k \in DOMAIN Steps[p] |-> Steps[p][k].gets], {"handler"}))
    BY DEF EndOf, Prog
  <1> HIDE DEF p, N
  <1>5. WellFormed(p)
    BY <1>1, <1>2, <1>3, <1>4, ScopedStarts
  <1> QED BY <1>5 DEF p

\* rust/2-motor (main.rs:23-43).
LEMMA MotorRustStarts == WellFormed(Prog("Rust", "motor", "os"))
  <1> DEFINE p == Prog("Rust", "motor", "os")
             N == <<"i2c", None, "pwm", None, None, None, "handler", "perf">>
  <1>1. Steps[p] = Scoped(N, {"handler"}) /\ p # BlinkyBmRust
    BY ProgramIs, ProgramIsNot DEF StepsOf, Langs, MotorRust
  <1>2. /\ N \in Seq({"i2c", None, "pwm", "handler", "perf"})
        /\ Len(N) # 0 /\ Quiet(N)
    BY DEF Quiet, None
  <1>3. UsersLast(Uses, N) /\ KeepsUsed(Uses, {"handler"})
    BY UsesAre DEF UsersLast, KeepsUsed, Uses, None
  <1>4. EndOf(p) = Deferred(Guarded([k \in DOMAIN Steps[p] |-> Steps[p][k].gets], {"handler"}))
    BY DEF EndOf, Prog
  <1> HIDE DEF p, N
  <1>5. WellFormed(p)
    BY <1>1, <1>2, <1>3, <1>4, ScopedStarts
  <1> QED BY <1>5 DEF p

\* rust/2-motor-bm (main.rs:31-60).
LEMMA MotorBmRustStarts == WellFormed(Prog("Rust", "motor", "bm"))
  <1> DEFINE p == Prog("Rust", "motor", "bm")
             N == <<"adc", "adc_channel", "pwm_timer", "pwm_channel", "perf">>
  <1>1. Steps[p] = Scoped(N, {}) /\ p # BlinkyBmRust
    BY ProgramIs, ProgramIsNot DEF StepsOf, Langs, MotorBmRust
  <1>2. /\ N \in Seq({"adc", "adc_channel", "pwm_timer", "pwm_channel", "perf"})
        /\ Len(N) # 0 /\ Quiet(N)
    BY DEF Quiet, None
  <1>3. UsersLast(Uses, N) /\ KeepsUsed(Uses, {})
    BY UsesAre DEF UsersLast, KeepsUsed, Uses, None
  <1>4. "handler" \notin {N[k] : k \in 1..Len(N)}
    BY DEF None
  <1> HIDE DEF p, N
  <1>5. WellFormed(p)
    BY <1>1, <1>2, <1>3, <1>4, ScopedStarts
  <1> QED BY <1>5 DEF p

\* rust/3-pid (main.rs:34-74).
LEMMA PidRustStarts == WellFormed(Prog("Rust", "pid", "os"))
  <1> DEFINE p == Prog("Rust", "pid", "os")
             N == <<"registers", "i2c", None, "pwm", None, None, None, "ring", "timer", "perf_read",
          "perf_control", "socket", "handler">>
  <1>1. Steps[p] = Scoped(N, {"handler"}) /\ p # BlinkyBmRust
    BY ProgramIs, ProgramIsNot DEF StepsOf, Langs, PidRust
  <1>2. /\ N \in Seq({"registers", "i2c", None, "pwm", "ring", "timer", "perf_read",
                      "perf_control", "socket", "handler"})
        /\ Len(N) # 0 /\ Quiet(N)
    BY DEF Quiet, None
  <1>3. UsersLast(Uses, N) /\ KeepsUsed(Uses, {"handler"})
    BY UsesAre DEF UsersLast, KeepsUsed, Uses, None
  <1>4. EndOf(p) = Deferred(Guarded([k \in DOMAIN Steps[p] |-> Steps[p][k].gets], {"handler"}))
    BY DEF EndOf, Prog
  <1> HIDE DEF p, N
  <1>5. WellFormed(p)
    BY <1>1, <1>2, <1>3, <1>4, ScopedStarts
  <1> QED BY <1>5 DEF p

\* c/1-blinky, and its end (main.c:108-118).
LEMMA BlinkyCStarts == WellFormed(Prog("C", "blinky", "os"))
  <1> DEFINE p == Prog("C", "blinky", "os")
             N == <<"handler", "chip", None, "line", "perf">>
  <1>1. Steps[p] = BlinkyC /\ EndOf(p) = BlinkyEndC /\ p # BlinkyBmRust
    BY ProgramIs, ProgramIsNot DEF StepsOf, Langs, EndOf, Prog
  <1>2. UsesOf(p) = Uses
    BY DEF UsesOf, KnownDangling, Prog, Tune
  <1>3. "controller_task" \notin {N[k] : k \in 1..Len(N)} /\ Len(N) = 5
    BY DEF None
  <1>4. BlinkyEndC \in Seq(NamesIn(N)) /\ Undoes(Uses, N, 5, BlinkyEndC)
    BY DEF BlinkyEndC, NamesIn, Undoes, Uses, None
  <1>5. Fits(UsesOf(p), Steps[p], N)
    BY <1>1, <1>2, BlinkyCFits
  <1>6. EndOf(p) \in Seq(NamesIn(N)) /\ Undoes(UsesOf(p), N, Len(N), EndOf(p))
    BY <1>1, <1>2, <1>3, <1>4
  <1> HIDE DEF p, N
  <1>7. WellFormed(p)
    BY <1>1, <1>3, <1>5, <1>6, EndsWellFormed
  <1> QED BY <1>7 DEF p

\* c/2-motor, and its end (main.c:155-162): i2c and PWM before the library of both.
LEMMA MotorCStarts == WellFormed(Prog("C", "motor", "os"))
  <1> DEFINE p == Prog("C", "motor", "os")
             N == <<"gpio", "handler", "pwm", "i2c", None, "perf">>
  <1>1. Steps[p] = MotorC /\ EndOf(p) = MotorEndC /\ p # BlinkyBmRust
    BY ProgramIs, ProgramIsNot DEF StepsOf, Langs, EndOf, Prog
  <1>2. UsesOf(p) = Uses \ {<<"pwm", "gpio">>}
    BY DEF UsesOf, KnownDangling, Prog, Tune
  <1>3. "controller_task" \notin {N[k] : k \in 1..Len(N)} /\ Len(N) = 6
    BY DEF None
  <1>4. MotorEndC \in Seq(NamesIn(N)) /\ Undoes(Uses \ {<<"pwm", "gpio">>}, N, 6, MotorEndC)
    BY DEF MotorEndC, NamesIn, Undoes, Uses, None
  <1>5. Fits(UsesOf(p), Steps[p], N)
    BY <1>1, <1>2, MotorCFits
  <1>6. EndOf(p) \in Seq(NamesIn(N)) /\ Undoes(UsesOf(p), N, Len(N), EndOf(p))
    BY <1>1, <1>2, <1>3, <1>4
  <1> HIDE DEF p, N
  <1>7. WellFormed(p)
    BY <1>1, <1>3, <1>5, <1>6, EndsWellFormed
  <1> QED BY <1>7 DEF p

\* c/3-pid, and its end (main.c:165-169, controller.c:282-301, server.c:53-68).
LEMMA PidCStarts == WellFormed(Prog("C", "pid", "os"))
  <1> DEFINE p == Prog("C", "pid", "os")
             N == <<"gpio", "handler", "registers", "ctx", "socket", "connections", "ring",
                    "i2c", None, "timer", None, "perf_read", "perf_control">>
  <1>1. Steps[p] = PidC /\ EndOf(p) = PidEndC /\ p # BlinkyBmRust
    BY ProgramIs, ProgramIsNot DEF StepsOf, Langs, EndOf, Prog
  <1>2. UsesOf(p) = Uses
    BY DEF UsesOf, KnownDangling, Prog, Tune
  <1>3. "controller_task" \notin {N[k] : k \in 1..Len(N)} /\ Len(N) = 13
    BY DEF None
  <1>4. PidEndC \in Seq(NamesIn(N)) /\ Undoes(Uses, N, 13, PidEndC)
    BY DEF PidEndC, PidControllerEndC, PidServerEndC, NamesIn, Undoes, Uses, None
  <1>5. Fits(UsesOf(p), Steps[p], N)
    BY <1>1, <1>2, PidCFits
  <1>6. EndOf(p) \in Seq(NamesIn(N)) /\ Undoes(UsesOf(p), N, Len(N), EndOf(p))
    BY <1>1, <1>2, <1>3, <1>4
  <1> HIDE DEF p, N
  <1>7. WellFormed(p)
    BY <1>1, <1>3, <1>5, <1>6, EndsWellFormed
  <1> QED BY <1>7 DEF p

\* c/1-blinky-bm, which has no end.
LEMMA BlinkyBmCStarts == WellFormed(Prog("C", "blinky", "bm"))
  <1> DEFINE p == Prog("C", "blinky", "bm")
             N == <<None, "perf">>
  <1>1. Steps[p] = BlinkyBm /\ p # BlinkyBmRust
    BY ProgramIs, ProgramIsNot DEF StepsOf, Langs
  <1>2. Fits(UsesOf(p), Steps[p], N)
    BY <1>1, BlinkyBmFits DEF UsesOf
  <1>3. /\ "controller_task" \notin {N[k] : k \in 1..Len(N)}
        /\ "handler" \notin {N[k] : k \in 1..Len(N)}
    BY DEF None
  <1> HIDE DEF p, N
  <1>4. WellFormed(p)
    BY <1>1, <1>2, <1>3, SimplyWellFormed
  <1> QED BY <1>4 DEF p

\* zig/1-blinky-bm, which has no end.
LEMMA BlinkyBmZigStarts == WellFormed(Prog("Zig", "blinky", "bm"))
  <1> DEFINE p == Prog("Zig", "blinky", "bm")
             N == <<None, "perf">>
  <1>1. Steps[p] = BlinkyBm /\ p # BlinkyBmRust
    BY ProgramIs, ProgramIsNot DEF StepsOf, Langs
  <1>2. Fits(UsesOf(p), Steps[p], N)
    BY <1>1, BlinkyBmFits DEF UsesOf
  <1>3. /\ "controller_task" \notin {N[k] : k \in 1..Len(N)}
        /\ "handler" \notin {N[k] : k \in 1..Len(N)}
    BY DEF None
  <1> HIDE DEF p, N
  <1>4. WellFormed(p)
    BY <1>1, <1>2, <1>3, SimplyWellFormed
  <1> QED BY <1>4 DEF p

\* c/2-motor-bm, which has no end.
LEMMA MotorBmCStarts == WellFormed(Prog("C", "motor", "bm"))
  <1> DEFINE p == Prog("C", "motor", "bm")
             N == <<"adc", None, "pwm_timer", "pwm_channel", "perf">>
  <1>1. Steps[p] = MotorBmC /\ p # BlinkyBmRust
    BY ProgramIs, ProgramIsNot DEF StepsOf, Langs
  <1>2. Fits(UsesOf(p), Steps[p], N)
    BY <1>1, MotorBmCFits DEF UsesOf
  <1>3. /\ "controller_task" \notin {N[k] : k \in 1..Len(N)}
        /\ "handler" \notin {N[k] : k \in 1..Len(N)}
    BY DEF None
  <1> HIDE DEF p, N
  <1>4. WellFormed(p)
    BY <1>1, <1>2, <1>3, SimplyWellFormed
  <1> QED BY <1>4 DEF p

\* rust/1-blinky-bm, which a toggle that fails ends (main.rs:29-41).
LEMMA BlinkyBmRustStarts == WellFormed(Prog("Rust", "blinky", "bm"))
  <1> DEFINE p == Prog("Rust", "blinky", "bm")
             N == <<None, "perf">>
  <1>1. Steps[p] = BlinkyBm
    BY ProgramIs DEF StepsOf, Langs
  <1>2. Fits(UsesOf(p), Steps[p], N)
    BY <1>1, BlinkyBmFits DEF UsesOf
  <1>3. /\ "controller_task" \notin {N[k] : k \in 1..Len(N)}
        /\ "handler" \notin {N[k] : k \in 1..Len(N)}
    BY DEF None
  <1>4. UsesOf(p) \subseteq Uses /\ Len(N) = 2
    BY DEF UsesOf
  <1>5. <<"perf">> \in Seq(NamesIn(N)) /\ Undoes(Uses, N, 2, <<"perf">>)
    BY DEF NamesIn, Undoes, Uses, None
  <1>6. Undoes(UsesOf(p), N, Len(N), <<"perf">>)
    BY <1>4, <1>5 DEF Undoes
  <1>7. PanicsWell(p, N)
    BY <1>3, <1>5, <1>6 DEF PanicsWell
  <1> HIDE DEF p, N
  <1>8. \A k \in 1..Len(N) : RacesWell(p, k)
    BY <1>2, <1>3, NoRace
  <1>9. WellFormed(p)
    BY <1>2, <1>3, <1>7, <1>8, FitsWellFormed
  <1> QED BY <1>9 DEF p

\* The end of zig/3-pid: the server and the controller are closed, then the registers freed
\* (main.zig:63-74).
LEMMA PidZigEnd ==
  ASSUME NEW U, U = Uses, NEW N, N = PidNamesZig
  PROVE  PidEndZig \in Seq(NamesIn(N)) /\ Undoes(U, N, 17, PidEndZig)
  <1> DEFINE M == PidServerZig
             A == NamesIn(N)
             v == Deferred(M)
             rest == PidControllerEndZig
             last == <<"registers">>
  <1>1. M \in Seq(A) /\ Len(M) = 3 /\ \A j \in 1..3 : M[j] \in {"ctx", "socket", "connections"}
    BY DEF NamesIn, PidNamesZig, PidServerZig
  <1>2. UsersLast(U, M) /\ KeepsUsed(U, {})
    BY UsesAre DEF PidServerZig, UsersLast, KeepsUsed, Uses, None
  <1>3. rest \in Seq(A) /\ last \in Seq(A) /\ Undoes(U, N, 17, rest) /\ Undoes(U, N, 17, last)
    BY DEF NamesIn, PidNamesZig, PidControllerEndZig, Undoes, Uses, None
  <1>4. \A use \in U : \A k \in 1..17 :
          N[k] = use[1] => use[1] = "socket" \/ use[2] \notin {"ctx", "socket", "connections"}
    BY DEF PidNamesZig, Uses, None
  <1>5. M[2] = "socket"
    BY DEF PidServerZig
  <1> HIDE DEF M, A, rest, last
  <1>6. /\ Undoes(U, M, 3, v) /\ Len(v) = 3 /\ v \in Seq(A)
        /\ \A j \in 1..3 : v[j] \in {M[k] : k \in 1..3}
    BY <1>1, <1>2, BackwardsUndoes, DeferredIs
  <1> HIDE DEF v
  <1>7. \A j \in 1..3 : v[j] \in {"ctx", "socket", "connections"}
    BY <1>1, <1>6
  <1>8. NothingElse(U, M, 3, N, 17, v)
    <2>1. SUFFICES ASSUME NEW k \in 1..17, ~\E l \in 1..3 : M[l] = N[k]
                   PROVE  \A use \in U : N[k] = use[1] => \A j \in 1..Len(v) : v[j] # use[2]
      BY DEF NothingElse
    <2>2. N[k] # "socket"
      BY <1>5, <2>1
    <2> QED BY <1>4, <1>6, <1>7, <2>2
  <1>9. Undoes(U, N, 17, v)
    BY <1>6, <1>8, UndoesElsewhere
  <1>10. 17 \in Nat
    OBVIOUS
  <1>11. v \o rest \in Seq(A) /\ Undoes(U, N, 17, v \o rest)
    BY <1>3, <1>6, <1>9, <1>10, UndoesJoined, SequenceJoined
  <1> DEFINE both == v \o rest
  <1>12. both \in Seq(A) /\ Undoes(U, N, 17, both)
    BY <1>11
  <1> HIDE DEF both
  <1>13. both \o last \in Seq(A) /\ Undoes(U, N, 17, both \o last)
    BY <1>3, <1>10, <1>12, UndoesJoined, SequenceJoined
  <1>14. PidEndZig = both \o last
    BY DEF PidEndZig, both, v, M, rest, last
  <1> QED BY <1>13, <1>14 DEF A

\* zig/3-pid (main.zig:47-81).
LEMMA PidZigStarts == WellFormed(Prog("Zig", "pid", "os"))
  <1> DEFINE p == Prog("Zig", "pid", "os")
             N == PidNamesZig
  <1>1. Steps[p] = PidZig /\ EndOf(p) = PidEndZig /\ p # BlinkyBmRust
    BY ProgramIs, ProgramIsNot DEF StepsOf, Langs, EndOf, Prog
  <1>2. UsesOf(p) = Uses
    BY DEF UsesOf, KnownDangling, Prog, Tune
  <1>3. "controller_task" \notin {N[k] : k \in 1..Len(N)} /\ Len(N) = 17
    BY DEF None, PidNamesZig
  <1>4. Fits(UsesOf(p), Steps[p], N)
    BY <1>1, <1>2, PidZigFits
  <1>5. EndOf(p) \in Seq(NamesIn(N)) /\ Undoes(UsesOf(p), N, Len(N), EndOf(p))
    BY <1>1, <1>2, <1>3, PidZigEnd
  <1> HIDE DEF p, N
  <1>6. WellFormed(p)
    BY <1>1, <1>3, <1>4, <1>5, EndsWellFormed
  <1> QED BY <1>6 DEF p

\* zig/3-pid-bm (app.zig:23-91): main acquires the task of the controller last.
LEMMA PidBmZigStarts == WellFormed(Prog("Zig", "pid", "bm"))
  <1> DEFINE p == Prog("Zig", "pid", "bm")
             N == ServicesZig \o ServerBmZig \o ControllerBmZig
                  \o <<"server_task", "controller_task">>
  <1>1. Steps[p] = PidBmZig /\ p # BlinkyBmRust
    BY ProgramIs, ProgramIsNot DEF StepsOf, Langs
  <1>2. Fits(UsesOf(p), Steps[p], N)
    <2>1. UsesOf(p) = PidBmUsesZig
      BY DEF UsesOf, KnownDangling, Prog, Tune, PidBmUsesZig
    <2> QED BY <1>1, <2>1, PidBmZigFits
  <1>3. "handler" \notin {N[k] : k \in 1..Len(N)} /\ Len(N) = 32
    BY DEF ServicesZig, WifiZig, ServerBmZig, ControllerBmZig, None
  <1>4. \A l \in 1..31 : N[l] # "controller_task"
    BY DEF ServicesZig, WifiZig, ServerBmZig, ControllerBmZig, None
  <1> HIDE DEF p, N
  <1>5. ASSUME NEW k \in 1..Len(N) PROVE RacesWell(p, k)
    <2>1. k - 1 \in 0..Len(N) /\ 1..(k - 1) \subseteq 1..31
      BY <1>3
    <2>2. Got(Steps[p], k - 1) = {N[l] : l \in 1..(k - 1)} \ {None}
      BY <1>2, <2>1, FitsNames
    <2> QED BY <1>4, <2>1, <2>2 DEF RacesWell, Starters
  <1>6. WellFormed(p)
    BY <1>1, <1>2, <1>3, <1>5, FitsWellFormed
  <1> QED BY <1>6 DEF p

\* A program with the table of rust/3-pid-bm.
LEMMA PidBmRustStarts ==
  ASSUME NEW p, Steps[p] = PidBmRust, UsesOf(p) = PidBmUsesRust, p.lang # "C", p # BlinkyBmRust
  PROVE  WellFormed(p)
  <1> DEFINE N == PidBmNamesRust
  <1>1. Fits(UsesOf(p), Steps[p], N)
    BY PidBmRustFits
  <1>2. "handler" \notin {N[k] : k \in 1..Len(N)} /\ Len(N) = 29
    BY DEF PidBmNamesRust, None
  <1>3. \A l \in 1..26 : N[l] # "timer_enabled"
    BY DEF PidBmNamesRust, None
  <1> HIDE DEF N
  <1>4. ASSUME NEW k \in 1..Len(N), Starters \subseteq Got(Steps[p], k - 1)
        PROVE  Sound(p, Got(Steps[p], k - 1), Steps[p][k].undo)
    <2> DEFINE m == k - 1
               u == Steps[p][k].undo
    <2>1. m \in 0..Len(N)
      BY <1>2
    <2>2. Got(Steps[p], m) = {N[l] : l \in 1..m} \ {None}
      <3> HIDE DEF m
      <3> QED BY <1>1, <2>1, FitsGot
    <2>3. ~(1..m \subseteq 1..26)
      <3>1. PICK l \in 1..m : N[l] = "timer_enabled"
        BY <1>4, <2>2 DEF Starters
      <3> QED BY <1>3, <3>1
    <2>4. PICK l \in 1..10 : k = 19 + l
      <3>1. k - 19 \in 1..10 /\ k = 19 + (k - 19)
        BY <1>2, <2>3
      <3> QED BY <3>1
    <2>5. u = <<>>
      BY <2>4, PidBmRustFits
    <2>6. u \in Seq(NamesIn(N)) /\ Undoes(UsesOf(p), N, m, u)
      BY <1>1, FitsNames DEF Fits
    <2> HIDE DEF m, u
    <2>7. Sound(p, Got(Steps[p], m), u)
      BY <1>1, <2>1, <2>5, <2>6, FitsSound
    <2> QED BY <2>7 DEF m, u
  <1>5. \A k \in 1..Len(N) : RacesWell(p, k)
    BY <1>4 DEF RacesWell
  <1> QED BY <1>1, <1>2, <1>5, FitsWellFormed

\* rust/3-pid-bm and 0-tune-bm (main.rs:39-120, main.rs:43-106).
LEMMA PidBmRustBothStart == WellFormed(Prog("Rust", "pid", "bm")) /\ WellFormed(Tune)
  <1>1. ASSUME NEW p, p = Prog("Rust", "pid", "bm") PROVE WellFormed(p)
    <2>1. Steps[p] = PidBmRust /\ p # BlinkyBmRust
      BY <1>1, ProgramIs, ProgramIsNot DEF StepsOf, Langs
    <2>2. UsesOf(p) = PidBmUsesRust /\ p.lang # "C"
      BY <1>1 DEF UsesOf, KnownDangling, Prog, Tune, PidBmUsesRust
    <2> QED BY <2>1, <2>2, PidBmRustStarts
  <1>2. ASSUME NEW p, p = Tune PROVE WellFormed(p)
    <2>1. Steps[p] = PidBmRust
      BY <1>2 DEF StepsOf, Steps, Programs, Tune, TuneBmRust
    <2>2. UsesOf(p) = PidBmUsesRust /\ p.lang # "C" /\ p # BlinkyBmRust
      BY <1>2 DEF UsesOf, KnownDangling, Tune, PidBmUsesRust, BlinkyBmRust
    <2> QED BY <2>1, <2>2, PidBmRustStarts
  <1> QED BY <1>1, <1>2

\* What starts with the task and then stops the timer is sound, even if the task starts the
\* timer in between.
LEMMA RaceSound ==
  ASSUME NEW p, NEW N, Fits(UsesOf(p), Steps[p], N), NEW m \in 0..Len(N), p.lang = "C",
         NEW u \in Seq(NamesIn(N)), Undoes(UsesOf(p), N, m, u),
         Starters \subseteq Got(Steps[p], m),
         \A use \in UsesOf(p) : use[1] = "timer_running" =>
           use[2] \in Got(Steps[p], m) /\ use[2] # "controller_task",
         Len(u) >= 2, u[1] = "controller_task", u[2] = "timer_running"
  PROVE  Sound(p, Got(Steps[p], m), u)
  <1> DEFINE s == Steps[p]
             H == Got(s, m)
  <1>1. /\ Len(N) \in Nat
        /\ H = {N[k] : k \in 1..m} \ {None}
        /\ AcquiresOf(s) = ({N[k] : k \in 1..Len(N)} \ {None}) \cup {"timer_running"}
        /\ NamesIn(N) \subseteq AcquiresOf(s) \cup {None}
    BY FitsNames
  <1>2. May(p, H) = H \cup {"timer_running"}
    BY DEF May
  <1>3. \A use \in UsesOf(p) : use[1] = "timer_running" => use[2] \in H
    OBVIOUS
  <1> HIDE DEF s, H
  <1>4. Complete(p, May(p, H))
    <2>1. SUFFICES ASSUME NEW use \in UsesOf(p), use[1] \in May(p, H), use[2] \in AcquiresOf(s)
                   PROVE  use[2] \in H
      BY <1>2 DEF Complete, UsesOf, s
    <2>2. CASE use[1] = "timer_running"
      BY <1>3, <2>2
    <2>3. CASE use[1] \in H
      <3>1. use[2] # "timer_running" /\ use[2] # None
        BY UsesAre DEF UsesOf
      <3>2. PICK j \in 1..Len(N) : N[j] = use[2]
        BY <1>1, <2>1, <3>1
      <3>3. PICK k \in 1..m : N[k] = use[1]
        BY <1>1, <2>3
      <3>4. k \in 1..Len(N)
        BY <1>1
      <3>5. j < k
        BY <3>2, <3>3, <3>4 DEF Fits, UsersLast
      <3>6. j \in 1..m
        BY <1>1, <3>5
      <3> QED BY <1>1, <3>1, <3>2, <3>6
    <2> QED BY <1>2, <2>1, <2>2, <2>3
  <1>5. UsersFirst(p, May(p, H), u)
    <2>1. SUFFICES ASSUME NEW use \in UsesOf(p), use[1] \in May(p, H),
                          NEW j \in 1..Len(u), u[j] = use[2]
                   PROVE  \E l \in 1..(j - 1) : u[l] = use[1]
      BY DEF UsersFirst, UsesOf
    <2>2. CASE use[1] = "timer_running"
      <3>1. use[2] # "controller_task" /\ use[2] # "timer_running"
        BY <2>2, UsesAre DEF UsesOf
      <3>2. j # 1 /\ j # 2
        BY <2>1, <3>1
      <3>3. 2 \in 1..(j - 1)
        BY <3>2
      <3> QED BY <2>2, <3>3
    <2>3. CASE use[1] \in H
      <3>1. PICK k \in 1..m : N[k] = use[1]
        BY <1>1, <2>3
      <3> QED BY <2>1, <3>1 DEF Undoes
    <2> QED BY <1>2, <2>1, <2>2, <2>3
  <1>6. StopsTimer(H, u)
    <2>1. ASSUME NEW j \in 1..Len(u), u[j] = "timer_running"
          PROVE  \E l \in 1..(j - 1) : u[l] \in Starters
      <3>1. 1 \in 1..(j - 1)
        BY <2>1
      <3> QED BY <3>1 DEF Starters
    <2> QED BY <2>1 DEF StopsTimer
  <1>7. u \in Seq(AcquiresOf(s) \cup {None})
    BY <1>1, SequenceWider
  <1> QED BY <1>4, <1>5, <1>6, <1>7 DEF Sound, Unwinds, s, H

\* c/3-pid-bm: only the creation of the second task can fail with the first one running,
\* and then the first is deleted before the timer is stopped (main.c:95-106).
LEMMA PidBmCStarts == WellFormed(Prog("C", "pid", "bm"))
  <1> DEFINE p == Prog("C", "pid", "bm")
             N == PidBmNamesC
             U == UsesOf(p)
  <1>1. Steps[p] = PidBmC /\ p # BlinkyBmRust /\ p.lang = "C"
    BY ProgramIs, ProgramIsNot DEF StepsOf, Langs, Prog
  <1>2. U = PidBmUsesC
    BY DEF UsesOf, KnownDangling, Prog, Tune, PidBmUsesC
  <1>3. Fits(U, Steps[p], N)
    BY <1>1, <1>2, PidBmCFits
  <1>4. "handler" \notin {N[k] : k \in 1..Len(N)} /\ Len(N) = 31
    BY DEF PidBmNamesC, None
  <1>5. \A l \in 1..29 : N[l] # "controller_task"
    BY DEF PidBmNamesC, None
  <1>6. /\ N[30] = "controller_task" /\ N[28] = "timer_enabled" /\ N[21] = "ring" /\ N[22] = "adc"
    BY DEF PidBmNamesC
  <1>7. \A use \in U : use[1] = "timer_running" => use[2] \in {"timer_enabled", "ring", "adc"}
    BY <1>2 DEF PidBmUsesC, Uses
  <1>8. PidBmC[31].undo =
          <<"controller_task">> \o (ControllerBmEndC \o (ServerBmEndC \o ServicesEndC))
    BY PidBmCFits
  <1>9. /\ Len(PidBmC[31].undo) >= 2 /\ PidBmC[31].undo[1] = "controller_task"
        /\ PidBmC[31].undo[2] = "timer_running"
    BY <1>8 DEF ControllerBmEndC, ServerBmEndC, ServicesEndC
  <1> HIDE DEF p, N, U
  <1>10. ASSUME NEW k \in 1..Len(N), Starters \subseteq Got(Steps[p], k - 1)
         PROVE  Sound(p, Got(Steps[p], k - 1), Steps[p][k].undo)
    <2> DEFINE u == PidBmC[31].undo
               H == Got(Steps[p], 30)
    <2>1. k - 1 \in 0..Len(N) /\ 30 \in 0..Len(N)
      BY <1>4
    <2>2. Got(Steps[p], k - 1) = {N[l] : l \in 1..(k - 1)} \ {None}
      BY <1>3, <2>1, FitsNames DEF U
    <2>3. ~(1..(k - 1) \subseteq 1..29)
      BY <1>5, <1>10, <2>2 DEF Starters
    <2>4. k = 31 /\ k - 1 = 30
      BY <1>4, <2>3
    <2>5. H = {N[l] : l \in 1..30} \ {None}
      <3>1. \A m \in 0..Len(N) : Got(Steps[p], m) = {N[l] : l \in 1..m} \ {None}
        BY <1>3, FitsGot
      <3>2. 30 \in 0..Len(N)
        BY <1>4
      <3> QED BY ONLY <3>1, <3>2 DEF H
    <2>6. {"timer_enabled", "ring", "adc"} \subseteq H
      <3>1. 28 \in 1..30 /\ 21 \in 1..30 /\ 22 \in 1..30
        OBVIOUS
      <3> QED BY <1>6, <2>5, <3>1 DEF None
    <2>7. \A use \in U : use[1] = "timer_running" => use[2] \in H /\ use[2] # "controller_task"
      BY <1>7, <2>6
    <2>8. u \in Seq(NamesIn(N)) /\ Undoes(U, N, 30, u)
      <3>1. 31 \in 1..Len(N) /\ 31 - 1 = 30
        BY <1>4
      <3>2. \A l \in 1..Len(N) : Steps[p][l].undo \in Seq(NamesIn(N))
        BY <1>3, FitsNames
      <3>3. \A l \in 1..Len(N) : Undoes(U, N, l - 1, Steps[p][l].undo)
        BY <1>3 DEF Fits
      <3>4. Steps[p][31].undo \in Seq(NamesIn(N)) /\ Undoes(U, N, 30, Steps[p][31].undo)
        BY ONLY <3>1, <3>2, <3>3
      <3> QED BY <1>1, <3>4
    <2>9. Starters \subseteq H /\ Len(u) >= 2 /\ u[1] = "controller_task" /\ u[2] = "timer_running"
      BY <1>9, <1>10, <2>4
    <2> HIDE DEF u, H
    <2>10. Sound(p, Got(Steps[p], 30), u)
      BY <1>1, <1>3, <2>1, <2>7, <2>8, <2>9, RaceSound DEF U, H
    <2> QED BY <1>1, <2>4, <2>10 DEF u
  <1>11. \A k \in 1..Len(N) : RacesWell(p, k)
    BY <1>10 DEF RacesWell
  <1>12. WellFormed(p)
    BY <1>1, <1>3, <1>4, <1>11, FitsWellFormed DEF U
  <1> QED BY <1>12 DEF p

\* All nineteen tables are well formed.
LEMMA AllStart == \A p \in Programs : WellFormed(p)
  <1> SUFFICES ASSUME NEW p \in Programs PROVE WellFormed(p)
    OBVIOUS
  <1>1. ASSUME NEW l \in Langs, NEW d \in {"blinky", "motor", "pid"}, NEW o \in {"os", "bm"}
        PROVE  WellFormed(Prog(l, d, o))
    <2>1. CASE l = "C"
      BY <2>1, BlinkyCStarts, MotorCStarts, PidCStarts, BlinkyBmCStarts, MotorBmCStarts,
         PidBmCStarts
    <2>2. CASE l = "Zig"
      BY <2>2, BlinkyZigStarts, MotorZigStarts, PidZigStarts, BlinkyBmZigStarts, MotorBmZigStarts,
         PidBmZigStarts
    <2>3. CASE l = "Rust"
      BY <2>3, BlinkyRustStarts, MotorRustStarts, PidRustStarts, BlinkyBmRustStarts,
         MotorBmRustStarts, PidBmRustBothStart
    <2> QED BY <2>1, <2>2, <2>3 DEF Langs
  <1> QED BY <1>1, ProgramCases, PidBmRustBothStart

-----------------------------------------------------------------------------
(* Theorems about the start and the end *)

\* The invariant holds from the first step on, with any signal, failure and race.
LEMMA StartInvariant == BootSpec => []StartInv
  <1>1. ASSUME BootInit PROVE StartInv
    <2>1. Got(steps, 0) = {}
      BY GotOneMore
    <2>2. WellFormed(program) /\ Len(steps) \in Nat \ {0} /\ program \in Programs
      BY <1>1, AllStart DEF BootInit, Init, WellFormed
    <2> QED BY <1>1, <2>1, <2>2 DEF BootInit, Init, StartInv, RunningInv
  <1>2. StartInv /\ [BootNext]_bootVars => StartInv'
    BY AllStart, StartInductive
  <1> QED BY <1>1, <1>2, PTL DEF BootSpec

\* Whichever step of whichever program fails, when the signal comes and when the
\* task of the controller starts the timer: nothing is given back while something
\* that uses it is held, but for the pairs of KnownDangling, which do happen (the
\* returns of every main, the errdefers of Zig and the drops of Rust).
THEOREM DependenciesAlwaysHeld == BootSpec => []DependenciesHeld
  <1>1. StartInv => DependenciesHeld
    BY AllStart, StartHolds
  <1> QED BY <1>1, StartInvariant, PTL

\* What the loops of blinky and motor keep.
LoopTypes ==
  /\ doContinue \in BOOLEAN
  /\ i \in 0..UpdatesPerReport
  /\ next \in {"low", "high"} /\ shown \in {"low", "high", "unset"}
  /\ skipped \in BOOLEAN

\* An update comes only while there are more to do, and a report begins anew
\* (2-motor/src/main.rs:45-78).
LEMMA LoopTypesInductive ==
  ASSUME LoopTypes, [BootNext]_bootVars
  PROVE  LoopTypes'
  <1> USE DEF LoopTypes, fixed, looping, starting
  <1>1. CASE UNCHANGED vars
    BY <1>1 DEF vars
  <1>2. CASE StepSucceeds \/ StepFails \/ GiveBack \/ Ends \/ BeginRound \/ ToggleEndsMain
    BY <1>2 DEF StepSucceeds, StepFails, GiveBack, Ends, BeginRound, ToggleEndsMain
  <1>3. ASSUME Update \/ UpdateFails PROVE LoopTypes'
    <2>1. i' \in 0..UpdatesPerReport /\ UNCHANGED doContinue
      BY <1>3, LifecycleAssumption DEF LifecycleAssumption, Update, UpdateFails, MoreUpdates
    <2>2. /\ next' \in {"low", "high"} /\ shown' \in {"low", "high", "unset"}
          /\ skipped' \in BOOLEAN
      BY <1>3 DEF Update, UpdateFails, NextAfterFailure, Opposite
    <2> QED BY <2>1, <2>2
  <1>4. CASE Report
    BY <1>4, LifecycleAssumption DEF LifecycleAssumption, Report
  <1>5. CASE Stop
    BY <1>5 DEF Stop
  <1>6. CASE StartTimer \/ Interrupt
    BY <1>6 DEF StartTimer, Interrupt
  <1>7. CASE Restart
    <2>1. 0 \in 0..UpdatesPerReport
      BY LifecycleAssumption DEF LifecycleAssumption
    <2> QED BY <1>7, <2>1 DEF Restart, Starts
  <1> QED BY <1>1, <1>2, <1>3, <1>4, <1>5, <1>6, <1>7
             DEF BootNext, bootVars, Runs, Program, WifiHandler, WifiMainTask, WifiDriver,
                 WifiRuns, Beside, Reboots

\* No program holds or gives back what its table does not name, no report starts
\* late, and the queue and the retries of the Wi-Fi stay within their limits: the
\* variables of both keep their types, for any number of updates and retries.
THEOREM BootTypeCorrect == BootSpec => []BootTypeOK
  <1>1. BootInit => LoopTypes
    <2>1. 0 \in 0..UpdatesPerReport
      BY LifecycleAssumption DEF LifecycleAssumption
    <2> QED BY <2>1 DEF BootInit, Init, LoopTypes
  <1>2. LoopTypes /\ [BootNext]_bootVars => LoopTypes'
    BY LoopTypesInductive
  <1>3. StartInv /\ LoopTypes /\ W!TypeOK => BootTypeOK
    BY DEF StartInv, LoopTypes, BootTypeOK, TypeOK
  <1> QED BY <1>1, <1>2, <1>3, StartInvariant, WifiTypeCorrect, PTL DEF BootSpec
=============================================================================
