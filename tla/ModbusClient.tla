---------------------------- MODULE ModbusClient ----------------------------
(***************************************************************************)
(* The dashboard between its page and the motor controller: the page posts *)
(* the parameters it wants, ModbusClient.ts writes them to the holding     *)
(* registers and polls the input registers on an interval, and server-sent *)
(* events tell the page that it should post its parameters again.          *)
(*                                                                         *)
(* Node.js runs one piece of code between two awaits at a time; a reading  *)
(* or a write that awaits is overtaken by others, except that promises     *)
(* already rejected are dealt with before anything else (Settled).         *)
(* Sockets, jsmodbus, HTTP and the device are external and modelled from   *)
(* how the code uses them.                                                 *)
(***************************************************************************)
EXTENDS Integers, Sequences, SequencesExt, FiniteSets

CONSTANTS
  Loops,       \* invocations of loop that can be under way at once
  Retries,     \* options.retries (5)
  Values,      \* the parameters a user can choose
  Default,     \* the parameters the device starts with
  MaxWrites,   \* bound: writes under way
  MaxEdits,    \* bound: changes of the parameters by the user
  MaxFaults    \* bound: failures of the network and restarts of the device

ASSUME ModbusClientAssumption ==
  /\ IsFiniteSet(Loops) /\ Loops # {}
  /\ Retries \in Nat /\ MaxWrites \in Nat \ {0}
  /\ MaxEdits \in Nat /\ MaxFaults \in Nat
  /\ Default \notin Values

VARIABLES
  client,        \* #client: "none", or how its socket stands
  retryNumber,   \* #retryNumber
  isError,       \* #isError
  wasError,      \* #wasError
  reading,       \* the invocations of loop: what each awaits
  writes,        \* the invocations of writeRegistersFloat32 under way, in order
  deviceUp,      \* the device answers
  params,        \* the device's holding registers
  wanted,        \* the page: the parameters the user chose last
  posts,         \* HTTP: parameters posted but not handled, in no order
  events,        \* SSE: "connected" is on its way to the page
  edits, faults  \* counts for the bounds

connection == <<client, retryNumber>>
errors == <<isError, wasError>>
device == <<deviceUp, params>>
page == <<wanted, posts, events, edits>>
vars == <<connection, errors, reading, writes, device, page, faults>>

-----------------------------------------------------------------------------
(* ModbusClient.ts *)

\* client(): the socket is cached before it is connected.  `who` awaits the
\* connection if it had to be made and else goes on with what is cached; a
\* request on a socket that is not connected is rejected at once ("Offline").
NextClient == IF client = "none" THEN "connecting" ELSE client

\* Faulty variant for TypeOK: the errors of earlier connections are kept.
NextRetryNumberKept == retryNumber

NextRetryNumber == IF client = "none" THEN 0 ELSE retryNumber

FirstAwait ==
  CASE client = "none" -> "connection"
    [] client = "up"   -> "response"
    [] OTHER           -> "rejection"

\* No rejection waits to be caught, so Node.js goes on to the next event.
Settled ==
  /\ \A l \in Loops : reading[l] # "rejection"
  /\ \A k \in 1..Len(writes) : writes[k].awaits # "rejection"

\* setInterval invokes loop, which does nothing during a back-off.
StartLoop(l) ==
  /\ Settled
  /\ reading[l] = "idle"
  /\ ~isError
  /\ reading' = [reading EXCEPT ![l] = FirstAwait]
  /\ client' = NextClient
  /\ retryNumber' = NextRetryNumber
  /\ UNCHANGED <<errors, writes, device, page, faults>>

\* clearWasError: the message is logged, onRecovered is not called.
ClearWasError == wasError' = FALSE

ReadSucceeds(l) ==
  /\ Settled
  /\ reading[l] = "response"
  /\ client = "up" /\ deviceUp
  /\ reading' = [reading EXCEPT ![l] = "idle"]
  /\ ClearWasError
  /\ UNCHANGED <<connection, isError, writes, device, page, faults>>

\* The writes whose rejection is still to be caught, in order.
RejectedWrites ==
  LET kept[k \in 0..Len(writes)] ==
        IF k = 0 THEN <<>>
        ELSE IF writes[k].awaits = "rejection" THEN Append(kept[k - 1], writes[k])
        ELSE kept[k - 1]
  IN kept[Len(writes)]

\* closeClient destroys the socket: who awaits its connection waits for ever
\* and is forgotten here, and requests on it are rejected, which ends a write.
CloseClient(l) ==
  /\ client' = "none"
  /\ reading' = [k \in Loops |->
                   IF k = l THEN "sleep"
                   ELSE IF reading[k] = "connection" THEN "idle"
                   ELSE IF reading[k] = "response" THEN "rejection"
                   ELSE reading[k]]
  /\ writes' = RejectedWrites

\* Faulty variant for KeepsReading: the client stays cached when it is closed.
LoopCatchesKeepsClient(l) ==
  /\ reading[l] = "rejection"
  /\ IF isError
     THEN /\ reading' = [reading EXCEPT ![l] = "idle"]
          /\ UNCHANGED <<connection, errors>>
     ELSE /\ isError' = TRUE /\ wasError' = TRUE
          /\ retryNumber' = IF retryNumber > Retries THEN retryNumber ELSE retryNumber + 1
          /\ reading' = [reading EXCEPT ![l] = "sleep"]
          /\ client' = IF retryNumber >= Retries THEN "failed" ELSE client
  /\ UNCHANGED <<writes, device, page, faults>>

\* Faulty variant for OneBackoff: a loop that fails during a back-off starts
\* another.
LoopCatchesTwice(l) ==
  /\ reading[l] = "rejection"
  /\ isError' = TRUE /\ wasError' = TRUE
  /\ retryNumber' = IF retryNumber > Retries THEN retryNumber ELSE retryNumber + 1
  /\ reading' = [reading EXCEPT ![l] = "sleep"]
  /\ UNCHANGED <<client, writes, device, page, faults>>

\* The catch block of loop, up to its await: only one invocation backs off.
LoopCatches(l) ==
  /\ reading[l] = "rejection"
  /\ IF isError
     THEN /\ reading' = [reading EXCEPT ![l] = "idle"]
          /\ UNCHANGED <<connection, errors, writes>>
     ELSE /\ isError' = TRUE /\ wasError' = TRUE
          /\ retryNumber' = retryNumber + 1
          /\ IF retryNumber >= Retries
             THEN CloseClient(l)
             ELSE /\ reading' = [reading EXCEPT ![l] = "sleep"]
                  /\ UNCHANGED <<client, writes>>
  /\ UNCHANGED <<device, page, faults>>

\* retryMs have passed.
Wake(l) ==
  /\ Settled
  /\ reading[l] = "sleep"
  /\ reading' = [reading EXCEPT ![l] = "idle"]
  /\ isError' = FALSE
  /\ UNCHANGED <<connection, wasError, writes, device, page, faults>>

\* A post reaches modbusSend: during a back-off the parameters are dropped,
\* and the page is answered OK all the same.
PostArrives(value) ==
  /\ Settled
  /\ value \in posts
  /\ posts' = posts \ {value}
  /\ IF isError
     THEN UNCHANGED <<connection, writes>>
     ELSE /\ Len(writes) < MaxWrites
          /\ writes' = Append(writes, [value |-> value, awaits |-> FirstAwait])
          /\ client' = NextClient
          /\ retryNumber' = NextRetryNumber
  /\ UNCHANGED <<errors, reading, device, wanted, events, edits, faults>>

\* Requests of a client are sent in order.
WriteSucceeds(k) ==
  /\ Settled
  /\ writes[k].awaits = "response"
  /\ \A j \in 1..(k - 1) : writes[j].awaits # "response"
  /\ client = "up" /\ deviceUp
  /\ params' = writes[k].value
  /\ writes' = RemoveAt(writes, k)
  /\ ClearWasError
  /\ UNCHANGED <<connection, isError, reading, deviceUp, page, faults>>

\* The catch block of writeRegistersFloat32: nothing is tried again.
WriteCatches(k) ==
  /\ writes[k].awaits = "rejection"
  /\ writes' = RemoveAt(writes, k)
  /\ wasError' = TRUE
  /\ UNCHANGED <<connection, isError, reading, device, page, faults>>

-----------------------------------------------------------------------------
(* Sockets and the device *)

\* Who awaits one thing now awaits another.
Await(old, new) ==
  /\ reading' = [l \in Loops |-> IF reading[l] = old THEN new ELSE reading[l]]
  /\ writes' = [k \in 1..Len(writes) |->
                  IF writes[k].awaits = old THEN [writes[k] EXCEPT !.awaits = new]
                  ELSE writes[k]]

\* The connection is made: its maker announces it and sends its request.
Connects ==
  /\ Settled
  /\ client = "connecting" /\ deviceUp
  /\ client' = "up"
  /\ Await("connection", "response")
  /\ events' = TRUE
  /\ UNCHANGED <<retryNumber, errors, device, wanted, posts, edits, faults>>

\* A network fault is needed only while the device is up.
MayFail == IF deviceUp THEN faults < MaxFaults /\ faults' = faults + 1
           ELSE UNCHANGED faults

ConnectFails ==
  /\ Settled
  /\ client = "connecting"
  /\ MayFail
  /\ client' = "failed"
  /\ Await("connection", "rejection")
  /\ UNCHANGED <<retryNumber, errors, device, page>>

\* The requests on a connection the device has forgotten fail.
RequestsFail ==
  /\ Settled
  /\ client = "failed"
  /\ \/ \E l \in Loops : reading[l] = "response"
     \/ \E k \in 1..Len(writes) : writes[k].awaits = "response"
  /\ Await("response", "rejection")
  /\ UNCHANGED <<connection, errors, device, page, faults>>

\* A request on a working connection times out; a write may have been done.
RequestTimesOut ==
  /\ Settled
  /\ client = "up" /\ deviceUp
  /\ faults < MaxFaults /\ faults' = faults + 1
  /\ \/ \E l \in Loops :
          /\ reading[l] = "response"
          /\ reading' = [reading EXCEPT ![l] = "rejection"]
          /\ UNCHANGED <<writes, params>>
     \/ \E k \in 1..Len(writes) :
          /\ writes[k].awaits = "response"
          /\ \A j \in 1..(k - 1) : writes[j].awaits # "response"
          /\ writes' = [writes EXCEPT ![k].awaits = "rejection"]
          /\ params' \in {params, writes[k].value}
          /\ UNCHANGED reading
  /\ UNCHANGED <<connection, errors, deviceUp, page>>

\* The device stops and with it its connection; it comes back with the default
\* parameters.
DeviceStops ==
  /\ deviceUp
  /\ faults < MaxFaults /\ faults' = faults + 1
  /\ deviceUp' = FALSE
  /\ client' = IF client = "up" THEN "failed" ELSE client
  /\ UNCHANGED <<retryNumber, errors, reading, writes, params, page>>

DeviceStarts ==
  /\ ~deviceUp
  /\ deviceUp' = TRUE
  /\ params' = Default
  /\ UNCHANGED <<connection, errors, reading, writes, page, faults>>

-----------------------------------------------------------------------------
(* The page *)

\* The user changes the parameters and the page posts them.
Edit(value) ==
  /\ edits < MaxEdits
  /\ edits' = edits + 1
  /\ wanted' = value
  /\ posts' = posts \cup {value}
  /\ UNCHANGED <<connection, errors, reading, writes, device, events, faults>>

\* On "connected" the page posts its parameters again.
HearConnected ==
  /\ events
  /\ events' = FALSE
  /\ posts' = posts \cup {wanted}
  /\ UNCHANGED <<connection, errors, reading, writes, device, wanted, edits, faults>>

-----------------------------------------------------------------------------

\* The page has just been opened, which posts what it wants.
Init ==
  /\ client = "none" /\ retryNumber = 0
  /\ isError = FALSE /\ wasError = FALSE
  /\ reading = [l \in Loops |-> "idle"]
  /\ writes = << >>
  /\ deviceUp = TRUE /\ params = Default
  /\ wanted \in Values /\ posts = {wanted} /\ events = FALSE
  /\ edits = 0 /\ faults = 0

Dashboard ==
  \/ \E l \in Loops :
       StartLoop(l) \/ ReadSucceeds(l) \/ LoopCatches(l) \/ Wake(l)
  \/ \E k \in 1..Len(writes) : WriteSucceeds(k) \/ WriteCatches(k)
  \/ \E value \in Values : PostArrives(value)
  \/ HearConnected

Environment ==
  \/ Connects \/ ConnectFails \/ RequestsFail \/ RequestTimesOut
  \/ DeviceStops \/ DeviceStarts
  \/ \E value \in Values : Edit(value)

Next == Dashboard \/ Environment

Spec == Init /\ [][Next]_vars

\* The interval and the back-off timers fire; requests, posts and events are
\* answered; the device comes back.  While it stays, some attempt to connect is
\* answered before the retries of the others are used up (5 seconds at least).
FairSpec ==
  /\ Spec
  /\ \A l \in Loops :
       /\ WF_vars(StartLoop(l)) /\ WF_vars(ReadSucceeds(l))
       /\ WF_vars(LoopCatches(l)) /\ WF_vars(Wake(l))
  /\ WF_vars(\E k \in 1..Len(writes) : WriteSucceeds(k) \/ WriteCatches(k))
  /\ \A value \in Values : SF_vars(PostArrives(value))
  /\ WF_vars(HearConnected)
  /\ SF_vars(Connects) /\ WF_vars(RequestsFail) /\ WF_vars(DeviceStarts)

-----------------------------------------------------------------------------
(* Properties *)

Awaits == {"idle", "connection", "response", "rejection", "sleep"}

\* The variables keep their types; however many loops overlap, the retries counted
\* for a client stay within those allowed and the one that closes it.
TypeOK ==
  /\ client \in {"none", "connecting", "up", "failed"}
  /\ retryNumber \in 0..(Retries + 1)
  /\ isError \in BOOLEAN /\ wasError \in BOOLEAN
  /\ reading \in [Loops -> Awaits]
  /\ writes \in Seq([value : Values, awaits : Awaits \ {"idle", "sleep"}])
  /\ deviceUp \in BOOLEAN /\ params \in Values \cup {Default}
  /\ wanted \in Values /\ posts \subseteq Values /\ events \in BOOLEAN
  /\ edits \in 0..MaxEdits /\ faults \in 0..MaxFaults

\* However many loops overlap and fail, one backs off for all of them, and the
\* flag that stops the others is never left behind.
OneBackoff ==
  /\ isError <=> \E l \in Loops : reading[l] = "sleep"
  /\ \A j, l \in Loops : reading[j] = "sleep" /\ reading[l] = "sleep" => j = l

\* Readings keep coming once network and device have stopped failing, however
\* connections, retries and overlapping loops were left by the failures.
KeepsReading == []<><<\E l \in Loops : ReadSucceeds(l)>>_vars

\* The parameters the page shows end up in the device ("connected" and
\* "recovered" make it post them again).
ParamsReachDevice == <>[](params = wanted)
=============================================================================
