----------------------------- MODULE RustServer -----------------------------
(***************************************************************************)
(* Scenario 3-pid in Rust on the Raspberry Pi: main waits for whichever of *)
(* three ends first, the controller, the Modbus server and SIGINT, on the  *)
(* runtime of tokio with a single thread.  Each connection is served by a  *)
(* task of its own, so that a client that is slow, silent or broken holds  *)
(* up nobody else.  A panic ends the task it happens in, or, in main, the  *)
(* program; in the profile "small" it aborts the program wherever it is.   *)
(* How the controller counts is in Controller; here a control phase has    *)
(* any frequency and any finite feedback.                                  *)
(* tokio, tokio-modbus, rppal and the kernel are external.                 *)
(***************************************************************************)
EXTENDS RustRegisters, Pid, Sequences

CONSTANTS
  Clients,    \* the Modbus clients
  Requests,   \* what they send
  Readers,    \* the clients that take their answers
  Profiles,   \* how it is built: subset of {"dev", "release", "small"}
  Frequencies \* the frequencies that control phases find

Read(addr, count) == [kind |-> "read", addr |-> addr, count |-> count, value |-> 0]

\* A write of as many words (count), floats of the same value.
Write(addr, count, value) ==
  [kind |-> "write", addr |-> addr, count |-> count, value |-> value]

\* Another function, a frame that cannot be decoded, a frame that never ends.
Odd(kind) == [kind |-> kind, addr |-> 0, count |-> 0, value |-> 0]

RequestSet ==
  [kind : {"read", "write", "other", "broken", "part"}, addr : U16, count : U16,
   value : Float]

ASSUME RustServerAssumption ==
  /\ Requests \subseteq RequestSet
  /\ Profiles \subseteq {"dev", "release", "small"}
  /\ Readers \subseteq Clients
  /\ Frequencies \subseteq {0, 1}

None == "none"

VARIABLES
  profile,    \* how the program is built; it never changes
  main,       \* "running", or how it ended: "stopped", "failed", "panicked"
  expired,    \* the timer of the controller has expired
  sigint,     \* SIGINT has come
  duty,       \* duty cycle of the PWM: 0, or 1 for one within the limits
  input,      \* input registers
  holding,    \* holding registers
  conn,       \* each client's: None, "queued", "idle", "asked", "replying"
  gone,       \* clients that closed or reset their connection
  request,    \* what each client asked
  answer      \* what it is being answered

registers == <<input, holding>>
tasks == <<conn, gone, request, answer>>
vars == <<profile, main, expired, sigint, duty, registers, tasks>>

NoRequest == Odd(None)
NoAnswer == [result |-> None, data |-> <<>>]

\* Faulty variant for TypeOK: what was known of the connection is kept.
ClosesOnly(c) ==
  /\ conn' = [conn EXCEPT ![c] = None]
  /\ UNCHANGED <<gone, request, answer>>

\* The connection of c is closed.
Closes(c) ==
  /\ conn' = [conn EXCEPT ![c] = None]
  /\ gone' = gone \ {c}
  /\ request' = [request EXCEPT ![c] = NoRequest]
  /\ answer' = [answer EXCEPT ![c] = NoAnswer]

-----------------------------------------------------------------------------
(* The task of a connection *)

Exception(code) == [result |-> code, data |-> <<>>]
Ok(data) == [result |-> "ok", data |-> data]

ReadResult(r, range) ==
  IF r.count % 2 # 0 \/ range = NoRange THEN Exception("IllegalDataAddress")
  ELSE Ok(ReadInput(input, r.addr, range))

WriteResult(r, range) ==
  IF r.count % 2 # 0 THEN Exception("IllegalDataValue")
  ELSE IF range = NoRange THEN Exception("IllegalDataAddress")
  ELSE Ok(<<>>)

SizeFor(r) == IF r.kind = "read" THEN InputSize ELSE HoldingSize

\* Only the profile dev checks for overflow.
HandlePanics(r) ==
  /\ profile = "dev"
  /\ r.kind \in {"read", "write"}
  /\ r.count % 2 = 0
  /\ RangePanics(r.addr, r.count \div 2, SizeFor(r))

\* PidService::handle, which does not wait for anything.
Handle(c) ==
  LET r == request[c]
      range == RangeFromAddrCount(r.addr, r.count \div 2, SizeFor(r))
      result == CASE r.kind = "read"  -> ReadResult(r, range)
                  [] r.kind = "write" -> WriteResult(r, range)
                  [] OTHER            -> Exception("IllegalFunction")
  IN /\ conn[c] = "asked"
     /\ r.kind \in {"read", "write", "other"}
     /\ ~HandlePanics(r)
     /\ conn' = [conn EXCEPT ![c] = "replying"]
     /\ answer' = [answer EXCEPT ![c] = result]
     /\ holding' = IF r.kind = "write" /\ result.result = "ok"
                   THEN WriteHolding(holding, range, r.value) ELSE holding
     /\ request' = [request EXCEPT ![c] = NoRequest]
     /\ UNCHANGED <<input, gone>>

\* Faulty variant for RequestsAnswered: the task hangs.
TaskPanicsHangs(c) ==
  /\ conn[c] = "asked"
  /\ HandlePanics(request[c])
  /\ request' = [request EXCEPT ![c] = Odd("part")]
  /\ UNCHANGED <<registers, conn, gone, answer>>

\* The runtime catches the panic, and the connection is dropped with its task.
TaskPanics(c) ==
  /\ conn[c] = "asked"
  /\ HandlePanics(request[c])
  /\ Closes(c)
  /\ UNCHANGED registers

\* The answer is sent once there is room for it.
Reply(c) ==
  /\ conn[c] = "replying"
  /\ c \notin gone
  /\ conn' = [conn EXCEPT ![c] = "idle"]
  /\ answer' = [answer EXCEPT ![c] = NoAnswer]
  /\ UNCHANGED <<registers, gone, request>>

\* The end of the connection, an error of reading, decoding or sending:
\* on_process_error logs it.
TaskEnds(c) ==
  /\ \/ conn[c] = "asked" /\ request[c].kind = "broken"
     \/ conn[c] = "asked" /\ request[c].kind = "part" /\ c \in gone
     \/ conn[c] \in {"idle", "replying"} /\ c \in gone
  /\ Closes(c)
  /\ UNCHANGED registers

ConnectionTask(c) ==
  /\ main = "running"
  /\ Handle(c) \/ TaskPanics(c) \/ Reply(c) \/ TaskEnds(c)
  /\ UNCHANGED <<profile, main, expired, sigint, duty>>

-----------------------------------------------------------------------------
(* The main task *)

\* The program ends, and with it all connections.
EndsAs(how) ==
  /\ main' = how
  /\ conn' = [c \in Clients |-> None]
  /\ gone' = {}
  /\ request' = [c \in Clients |-> NoRequest]
  /\ answer' = [c \in Clients |-> NoAnswer]

\* Dropping the PWM switches it off.
DropController == duty' = 0

\* A read phase alone: it changes nothing here.
ReadPhase ==
  /\ main = "running"
  /\ expired
  /\ expired' = FALSE
  /\ UNCHANGED <<profile, main, sigint, duty, registers, tasks>>

ParamsRead ==
  [target |-> holding[0], factor |-> holding[1], ti |-> holding[2], td |-> holding[3]]

Feedback == [delta : -1..1, integ : -1..1]

\* What holding registers can hold.
Values == {r.value : r \in Requests} \cup {0, 2}
ParamSet == [target : Values, factor : Values, ti : Values, td : Values]

\* Whether a control phase with the parameters p can come to the signal.
LeadsTo(p, frequency, signal) ==
  \E fb \in Feedback : \E control \in RawControl(p, frequency, fb) :
    signal \in Limited(control.signal)

\* The parameters, frequencies and signals that can come together.
Controls ==
  {[params |-> t[1], frequency |-> t[2], signal |-> t[3]] :
     t \in {u \in ParamSet \X Frequencies \X {0, 1, NaN} : LeadsTo(u[1], u[2], u[3])}}

Control(frequency, signal) ==
  [params |-> ParamsRead, frequency |-> frequency, signal |-> signal]

\* A read phase and a control phase; when the PWM cannot be set it is left alone.
ControlPhase ==
  /\ main = "running"
  /\ expired
  /\ expired' = FALSE
  /\ \E frequency \in Frequencies, signal \in {0, 1} :
       /\ Control(frequency, signal) \in Controls
       /\ input' = [k \in Input |-> IF k = 0 THEN frequency ELSE signal]
       /\ duty' \in {signal, duty}
  /\ UNCHANGED <<profile, main, sigint, holding, tasks>>

\* Faulty variant for MotorOffAtEnd: nothing is dropped.
ControlPanicsAborting ==
  /\ main = "running"
  /\ expired
  /\ \E frequency \in Frequencies : Control(frequency, NaN) \in Controls
  /\ EndsAs("panicked")
  /\ UNCHANGED <<profile, duty, expired, sigint, registers>>

\* mul_f32 of a signal that is NaN panics: main is unwound, or aborted.
ControlPanics ==
  /\ main = "running"
  /\ expired
  /\ \E frequency \in Frequencies : Control(frequency, NaN) \in Controls
  /\ EndsAs("panicked")
  /\ IF profile = "small" THEN UNCHANGED duty ELSE DropController
  /\ UNCHANGED <<profile, expired, sigint, registers>>

\* A connection of the listen queue gets a task.
Accept(c) ==
  /\ main = "running"
  /\ conn[c] = "queued"
  /\ conn' = [conn EXCEPT ![c] = "idle"]
  /\ UNCHANGED <<profile, main, expired, sigint, duty, registers, gone, request, answer>>

\* accept fails: no file descriptor is left, or the client is gone already.  It
\* ends serve, and thereby the program.
AcceptFails(c) ==
  /\ main = "running"
  /\ conn[c] = "queued"
  /\ EndsAs("failed")
  /\ DropController
  /\ UNCHANGED <<profile, expired, sigint, registers>>

CtrlC ==
  /\ main = "running"
  /\ sigint
  /\ EndsAs("stopped")
  /\ DropController
  /\ UNCHANGED <<profile, expired, sigint, registers>>

-----------------------------------------------------------------------------
(* Timer, signal and clients *)

TimerExpires ==
  /\ main = "running"
  /\ ~expired
  /\ expired' = TRUE
  /\ UNCHANGED <<profile, main, sigint, duty, registers, tasks>>

Interrupt ==
  /\ main = "running"
  /\ ~sigint
  /\ sigint' = TRUE
  /\ UNCHANGED <<profile, main, expired, duty, registers, tasks>>

ClientConnects(c) ==
  /\ conn[c] = None
  /\ conn' = [conn EXCEPT ![c] = "queued"]
  /\ UNCHANGED <<gone, request, answer>>

ClientAsks(c) ==
  /\ conn[c] = "idle"
  /\ c \notin gone
  /\ request' \in {[request EXCEPT ![c] = r] : r \in Requests}
  /\ conn' = [conn EXCEPT ![c] = "asked"]
  /\ UNCHANGED <<gone, answer>>

ClientGoes(c) ==
  /\ conn[c] # None
  /\ c \notin gone
  /\ gone' = gone \cup {c}
  /\ UNCHANGED <<conn, request, answer>>

Client(c) ==
  /\ main = "running"
  /\ ClientConnects(c) \/ ClientAsks(c) \/ ClientGoes(c)
  /\ UNCHANGED <<profile, main, expired, sigint, duty, registers>>

-----------------------------------------------------------------------------
(* The whole *)

Init ==
  /\ profile \in Profiles
  /\ main = "running"
  /\ expired = FALSE
  /\ sigint = FALSE
  /\ duty = 0
  /\ input = InitialInput
  /\ holding = InitialHolding
  /\ conn = [c \in Clients |-> None]
  /\ gone = {}
  /\ request = [c \in Clients |-> NoRequest]
  /\ answer = [c \in Clients |-> NoAnswer]

ControllerRuns == ReadPhase \/ ControlPhase \/ ControlPanics

Next ==
  \/ ControllerRuns
  \/ \E c \in Clients : Accept(c) \/ AcceptFails(c)
  \/ CtrlC
  \/ \E c \in Clients : ConnectionTask(c)
  \/ TimerExpires
  \/ Interrupt
  \/ \E c \in Clients : Client(c)

Spec == Init /\ [][Next]_vars

\* The runtime polls every task that can go on; a client that does not read its
\* answers may block its own task for ever.
FairSpec ==
  /\ Spec
  /\ \A c \in Clients :
       WF_vars((c \in Readers \/ conn[c] # "replying") /\ ConnectionTask(c))

-----------------------------------------------------------------------------
(* Properties *)

\* The variables keep their types; who is gone has a connection.
TypeOK ==
  /\ profile \in Profiles
  /\ main \in {"running", "stopped", "failed", "panicked"}
  /\ expired \in BOOLEAN /\ sigint \in BOOLEAN
  /\ duty \in {0, 1}
  /\ input \in [Input -> Float] /\ holding \in [Holding -> Float]
  /\ conn \in [Clients -> {None, "queued", "idle", "asked", "replying"}]
  /\ gone \subseteq {c \in Clients : conn[c] # None}
  /\ request \in [Clients -> Requests \cup {NoRequest}]
  /\ \A c \in Clients :
       /\ answer[c].result \in {None, "ok", "IllegalDataAddress", "IllegalDataValue",
                                "IllegalFunction"}
       /\ answer[c].data \in Seq(Float)

\* The floats a request asks for exist, and it asks for whole ones; none at all is
\* refused at address 0 only.
Legal(r, size) ==
  /\ r.count % 2 = 0
  /\ r.addr < size /\ r.addr + r.count \div 2 \in 1..size

\* What HandledAsAsked says of one client and one step.
AsAsked(c) ==
  LET r == request[c] IN
  /\ conn[c] = "asked" /\ conn'[c] = "replying" =>
       /\ answer'[c].result = "ok" <=> r.kind \in {"read", "write"} /\ Legal(r, SizeFor(r))
       /\ r.kind = "read" /\ Legal(r, InputSize) =>
            answer'[c].data = SubSeq(<<input[0], input[1]>>, r.addr + 1,
                                     r.addr + r.count \div 2)
       /\ \A k \in Holding :
            holding'[k] = IF /\ r.kind = "write" /\ Legal(r, HoldingSize)
                             /\ k \in r.addr..(r.addr + r.count \div 2 - 1)
                          THEN r.value ELSE holding[k]
  /\ conn[c] = "asked" /\ conn'[c] = None => UNCHANGED holding

\* A request is granted exactly when the floats it asks for exist; a read gets
\* those, a write changes those and no others, and a request that is refused, and
\* one the server panics on, changes nothing.
HandledAsAsked == [][\A c \in Clients : AsAsked(c)]_vars

\* However the program ends, by SIGINT, by a failing accept or by a panic in a
\* control phase, the motor is not left running, except in the profile "small".
MotorOffAtEnd ==
  main # "running" => duty = 0 \/ (profile = "small" /\ main = "panicked")

\* Clients that send half a request, do not read, keep silent or make the server
\* panic do not hold up each other: a request is answered, if its client reads, or
\* its connection ends.
RequestsAnswered ==
  \A c \in Clients :
    conn[c] = "asked" /\ request[c].kind # "part" /\ c \in Readers
      ~> conn[c] \in {None, "idle"} \/ main # "running"
=============================================================================
