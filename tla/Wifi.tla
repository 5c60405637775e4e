-------------------------------- MODULE Wifi --------------------------------
(***************************************************************************)
(* How scenario 3-pid joins the Wi-Fi network on the ESP32.  In C and Zig  *)
(* the main task starts the driver and waits for a bit of an event group,  *)
(* which the handler of events, in a task of its own, sets when the        *)
(* station has an address or when the retries are used up; in Rust the     *)
(* main task waits for the station itself, with a timeout, and nothing     *)
(* reacts to a link lost later.  Boot says when all this begins, and what  *)
(* waits for it.  The driver, the access point, DHCP and esp-idf-svc's     *)
(* BlockingWifi are external.                                              *)
(***************************************************************************)
EXTENDS Naturals, Sequences

CONSTANTS
  MaximumRetry   \* ESP_MAXIMUM_RETRY, maximum_retries (5)

VARIABLES
  impl,      \* which implementation runs: "C", "Zig" or "Rust"; it never changes
  main,      \* the main task: "waiting", "connecting" (Rust), "serving", "failed"
  station,   \* the driver: "idle", "trying", "associated", "addressed"
  events,    \* the events posted and not yet handled, in order
  retries,   \* retry_num, retry_count
  bits,      \* the bits set in the event group
  refused    \* a call of esp_wifi_connect returned an error

vars == <<impl, main, station, events, retries, bits, refused>>

-----------------------------------------------------------------------------
(* The driver and the access point *)

Joins ==
  /\ station = "trying"
  /\ station' = "associated"
  /\ UNCHANGED <<impl, main, events, retries, bits, refused>>

GetsAddress ==
  /\ station = "associated"
  /\ station' = "addressed"
  /\ events' = Append(events, "got_ip")
  /\ UNCHANGED <<impl, main, retries, bits, refused>>

\* An attempt fails, or the link is lost.
Disconnects ==
  /\ station # "idle"
  /\ station' = "idle"
  /\ events' = Append(events, "disconnected")
  /\ UNCHANGED <<impl, main, retries, bits, refused>>

\* esp_wifi_connect: the driver takes the request or returns an error.
Taken == station' = "trying" /\ UNCHANGED refused
Refused == refused' = TRUE /\ UNCHANGED station

-----------------------------------------------------------------------------
(* The handler of events, C and Zig *)

TakeEvent == /\ events # <<>>
             /\ events' = Tail(events)

HandleStart ==
  /\ TakeEvent
  /\ Head(events) = "start"
  /\ IF impl = "Rust" THEN UNCHANGED <<station, refused>> ELSE Taken \/ Refused
  /\ UNCHANGED <<impl, main, retries, bits>>

\* Zig counts the retry only when the driver took it, C always.
Retry ==
  \/ Taken /\ retries' = retries + 1
  \/ Refused /\ retries' = IF impl = "Zig" THEN retries ELSE retries + 1

\* Faulty variant for TypeOK: retries are not counted.
MayRetryForever == TRUE

MayRetry == retries < MaximumRetry

\* Faulty variant for NeverIdle and BootEnds: the event of the last retry is ignored.
HandleDisconnectedSilently ==
  /\ TakeEvent
  /\ Head(events) = "disconnected"
  /\ IF impl # "Rust" /\ retries < MaximumRetry
     THEN Retry
     ELSE UNCHANGED <<station, refused, retries>>
  /\ UNCHANGED <<impl, main, bits>>

\* In Rust nothing handles a lost link.
HandleDisconnected ==
  /\ TakeEvent
  /\ Head(events) = "disconnected"
  /\ IF impl = "Rust" THEN UNCHANGED <<station, refused, retries, bits>>
     ELSE IF MayRetry
     THEN Retry /\ UNCHANGED bits
     ELSE bits' = bits \cup {"failed"} /\ UNCHANGED <<station, refused, retries>>
  /\ UNCHANGED <<impl, main>>

HandleGotIp ==
  /\ TakeEvent
  /\ Head(events) = "got_ip"
  /\ IF impl = "Rust" THEN UNCHANGED <<retries, bits>>
     ELSE retries' = 0 /\ bits' = bits \cup {"connected"}
  /\ UNCHANGED <<impl, main, station, refused>>

Handler == HandleStart \/ HandleDisconnected \/ HandleGotIp

-----------------------------------------------------------------------------
(* The main task *)

\* C logs which bit was set and goes on; Zig fails unless it is "connected".
WaitEnds ==
  /\ main = "waiting"
  /\ impl # "Rust"
  /\ bits # {}
  /\ main' = IF impl = "Zig" /\ "connected" \notin bits THEN "failed" ELSE "serving"
  /\ UNCHANGED <<impl, station, events, retries, bits, refused>>

\* Rust asks the driver to connect, once, when it has started.
RustConnects ==
  /\ main = "waiting"
  /\ impl = "Rust"
  /\ events = <<>>
  /\ \/ Taken /\ main' = "connecting"
     \/ Refused /\ main' = "failed"
  /\ UNCHANGED <<impl, events, retries, bits>>

\* wait_netif_up: the station has its address.
RustIsUp ==
  /\ main = "connecting"
  /\ station = "addressed"
  /\ main' = "serving"
  /\ UNCHANGED <<impl, station, events, retries, bits, refused>>

\* The timeout of connect or of wait_netif_up.
RustTimesOut ==
  /\ main = "connecting"
  /\ station # "addressed"
  /\ main' = "failed"
  /\ UNCHANGED <<impl, station, events, retries, bits, refused>>

MainTask == WaitEnds \/ RustConnects \/ RustIsUp \/ RustTimesOut

-----------------------------------------------------------------------------
(* The whole *)

Init ==
  /\ main = "waiting"
  /\ station = "idle"
  /\ events = <<"start">>
  /\ retries = 0
  /\ bits = {}
  /\ refused = FALSE

\* The chip starts anew.
Restart ==
  /\ UNCHANGED impl
  /\ main' = "waiting"
  /\ station' = "idle"
  /\ events' = <<"start">>
  /\ retries' = 0
  /\ bits' = {}
  /\ refused' = FALSE

\* What the driver comes to by itself.
Driver == Joins \/ GetsAddress \/ Disconnects

-----------------------------------------------------------------------------
(* Properties *)

\* The variables keep their types: retries within the limit, two events at most
\* waiting to be handled.
TypeOK ==
  /\ main \in {"waiting", "connecting", "serving", "failed"}
  /\ station \in {"idle", "trying", "associated", "addressed"}
  /\ events \in Seq({"start", "disconnected", "got_ip"}) /\ Len(events) <= 2
  /\ retries \in 0..MaximumRetry
  /\ bits \subseteq {"connected", "failed"}
  /\ refused \in BOOLEAN

\* As long as retries are left a station that is not connected is trying to be,
\* or its handler has still to hear of it, however late: it never stops for good
\* in silence, unless the driver refused to connect.
NeverIdle ==
  station = "idle" /\ impl # "Rust" =>
    refused \/ "failed" \in bits \/ \E i \in DOMAIN events : events[i] # "got_ip"
=============================================================================
