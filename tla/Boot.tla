-------------------------------- MODULE Boot --------------------------------
(***************************************************************************)
(* How the programs start, run and end (Lifecycle), together with the      *)
(* Wi-Fi (Wifi) that pid and tune on the ESP32 start and wait for: the     *)
(* step after esp_wifi_start waits for what the handler of events, the     *)
(* driver and the access point come to, and the chip boots again when it   *)
(* fails.  The other programs have no network.                             *)
(***************************************************************************)
EXTENDS Lifecycle

CONSTANTS
  MaximumRetry   \* ESP_MAXIMUM_RETRY, maximum_retries (5)

ASSUME BootAssumption == MaximumRetry \in Nat

VARIABLES
  main,      \* Wi-Fi: how far the main task is
  station,   \* the driver
  events,    \* the events posted and not yet handled
  retries,   \* retry_num, retry_count
  bits,      \* the bits set in the event group
  refused    \* a call of esp_wifi_connect returned an error

W == INSTANCE Wifi WITH impl <- program.lang

wifi == <<main, station, events, retries, bits, refused>>
bootVars == <<vars, wifi>>

-----------------------------------------------------------------------------
(* What the start waits for *)

\* Whether the next step is one of the first n after esp_wifi_start.
AfterWifiStart(n) ==
  \E k \in DOMAIN steps : steps[k].gets = "started" /\ taken \in k..(k + n - 1)

\* The steps that the wait comes before (esp_wifi_set_ps in C), or that are the
\* wait (Zig; connect and wait_netif_up in Rust).
OnNetwork == AfterWifiStart(IF program.lang = "Rust" THEN 2 ELSE 1)

MayGoOn == OnNetwork => main = "serving"

\* The wait of C does not fail, whatever it finds.
MayFail == OnNetwork => main = IF program.lang = "C" THEN "serving" ELSE "failed"

\* A step of the program itself.
Runs ==
  /\ Program
  /\ pc = "starting" /\ taken' # taken => MayGoOn
  /\ pc = "starting" /\ taken' = taken => MayFail
  /\ UNCHANGED wifi

\* The driver runs; what it does while main gives back all it has is left out.
WifiRuns ==
  /\ pc \in {"starting", "top"}
  /\ AfterWifiStart(Len(steps))
  /\ UNCHANGED vars

WifiHandler  == WifiRuns /\ W!Handler
WifiMainTask == WifiRuns /\ W!MainTask
WifiDriver   == WifiRuns /\ W!Driver

Beside == (StartTimer \/ Interrupt) /\ UNCHANGED wifi

Reboots == Restart /\ W!Restart

-----------------------------------------------------------------------------
(* The whole *)

BootInit == Init /\ W!Init

BootNext == Runs \/ WifiHandler \/ WifiMainTask \/ WifiDriver \/ Beside \/ Reboots

\* Calls return and events are handled; an attempt to join ends, and a station
\* without an address gets one or loses the link: a DHCP server that says nothing
\* is left out.
BootSpec ==
  /\ BootInit /\ [][BootNext]_bootVars
  /\ WF_bootVars(Runs)
  /\ WF_bootVars(WifiHandler)
  /\ WF_bootVars(WifiMainTask)
  /\ WF_bootVars(station \in {"trying", "associated"} /\ WifiDriver)

-----------------------------------------------------------------------------
(* Properties *)

\* The variables of both keep their types.
BootTypeOK == TypeOK /\ W!TypeOK

\* As long as retries are left a station that is not connected is trying to be,
\* or its handler has still to hear of it, at boot and ever after, unless the
\* driver refused to connect.
NeverIdle == AfterWifiStart(Len(steps)) => W!NeverIdle

\* Every start comes to its main loop or to its failure, whatever the access
\* point does, unless the driver refused to connect: each chain of failed
\* attempts sets a bit (C, Zig) or runs into the timeout (Rust).
BootEnds == pc = "starting" ~> pc # "starting" \/ refused
=============================================================================
