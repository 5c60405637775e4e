-------------------------- MODULE RustServer_proofs --------------------------
(***************************************************************************)
(* Proofs about RustServer, for every number of clients, every request of  *)
(* the protocol and every profile it is built with.                        *)
(***************************************************************************)
EXTENDS RustServer, FiniteSetTheorems, TLAPS

-----------------------------------------------------------------------------
(* From an address and a count to a range of floats *)

\* What u16 holds.
LEMMA U16Type ==
  ASSUME NEW x \in U16
  PROVE  x \in Nat /\ x <= 65535
BY SMTT(30) DEF U16

\* The arithmetic on u16 wraps for no address that is looked at, except for address
\* 0 with count 0: there is a range exactly when it lies within the registers, and
\* it is the one asked for.
LEMMA RangeIsLegal ==
  ASSUME NEW addr \in Nat, NEW n \in Nat, n <= 32767, NEW size \in {InputSize, HoldingSize}
  PROVE  /\ RangeFromAddrCount(addr, n, size) # NoRange <=> addr < size /\ addr + n \in 1..size
         /\ RangeFromAddrCount(addr, n, size) # NoRange =>
              RangeFromAddrCount(addr, n, size) = addr..(addr + n - 1)
<1> DEFINE last == LastOf(addr, n)
<1>1. size = 2 \/ size = 4
  BY DEF InputSize, HoldingSize
<1>2. CASE addr < size /\ addr + n > 0
  <2>1. last = addr + n - 1
    <3>1. addr + n - 1 \in Nat /\ addr + n - 1 <= 65535
      BY <1>1, <1>2
    <3>2. \A x \in Nat : x <= 65535 => x % 65536 = x
      OBVIOUS
    <3> QED
      BY <3>1, <3>2 DEF LastOf
  <2> HIDE DEF last
  <2>2. last < size <=> addr + n \in 1..size
    BY <1>1, <1>2, <2>1
  <2>3. addr..last # {-1}
    <3>1. -1 \notin addr..last
      BY <1>1
    <3> QED
      BY <3>1
  <2> QED
    BY <1>2, <2>1, <2>2, <2>3 DEF RangeFromAddrCount, NoRange, last
<1>3. CASE addr < size /\ addr + n = 0
  <2>1. last = 65535
    <3>1. addr + n - 1 \in Int /\ addr + n - 1 = -1
      BY <1>3
    <3>2. \A m \in Nat \ {0} : (-1) % m = m - 1
      OBVIOUS
    <3>3. 65536 \in Nat \ {0} /\ 65536 - 1 = 65535
      OBVIOUS
    <3> QED
      BY <3>1, <3>2, <3>3 DEF LastOf
  <2> HIDE DEF last
  <2> QED
    BY <1>1, <1>3, <2>1 DEF RangeFromAddrCount, NoRange, last
<1>4. CASE ~(addr < size)
  BY <1>4 DEF RangeFromAddrCount, NoRange
<1> QED
  BY <1>1, <1>2, <1>3, <1>4

\* A range has as many floats as were asked for.
LEMMA RangeSize ==
  ASSUME NEW addr \in Nat, NEW n \in Nat
  PROVE  Cardinality(addr..(addr + n - 1)) = n
<1> DEFINE last == addr + n - 1
<1>1. addr \in Int /\ last \in Int
  OBVIOUS
<1>2. Cardinality(addr..last) = IF addr > last THEN 0 ELSE last - addr + 1
  BY <1>1, FS_Interval, Zenon
<1> QED
  BY <1>2

\* What a read takes from the input registers.
LEMMA ReadsWhatItAsks ==
  ASSUME input \in [Input -> Float],
         NEW addr \in Nat, NEW n \in Nat, addr < InputSize, addr + n \in 1..InputSize
  PROVE  /\ ReadInput(input, addr, addr..(addr + n - 1))
              = SubSeq(<<input[0], input[1]>>, addr + 1, addr + n)
         /\ ReadInput(input, addr, addr..(addr + n - 1)) \in Seq(Float)
<1> DEFINE f == [k \in 1..n |-> input[addr + k - 1]]
<1>1. ReadInput(input, addr, addr..(addr + n - 1)) = f
  BY RangeSize DEF ReadInput
<1>2. input[0] \in Float /\ input[1] \in Float
  BY DEF Input, InputSize
<1>3. f \in Seq(Float)
  BY DEF Input, InputSize
<1>4. f = SubSeq(<<input[0], input[1]>>, addr + 1, addr + n)
  BY <1>2 DEF InputSize
<1> QED
  BY <1>1, <1>3, <1>4

-----------------------------------------------------------------------------
(* Type correctness *)

Results == {None, "ok", "IllegalDataAddress", "IllegalDataValue", "IllegalFunction"}
Answers == [result : Results, data : Seq(Float)]

\* TypeOK, and that there is an answer for each client: the inductive form.
TypeInv == TypeOK /\ answer \in [Clients -> Answers]

\* What a client may have asked.
RequestTypes == Requests \cup {NoRequest}

\* A request is one of the protocol's, or none.
LEMMA RequestParts ==
  ASSUME NEW r \in RequestTypes
  PROVE  /\ r.addr \in Nat /\ r.count \in Nat /\ r.value \in Float
         /\ r.count \div 2 \in Nat /\ r.count \div 2 <= 32767
<1>1. /\ r.addr \in Nat /\ r.count \in Nat /\ r.value \in Float
      /\ r.count <= 65535
  <2>1. CASE r \in Requests
    <3>1. r.addr \in U16 /\ r.count \in U16 /\ r.value \in Float
      BY <2>1, RustServerAssumption DEF RequestSet
    <3> QED
      BY <3>1, U16Type
  <2>2. CASE r = NoRequest
    BY <2>2 DEF NoRequest, Odd, Float, NaN
  <2> QED
    BY <2>1, <2>2 DEF RequestTypes
<1> QED
  BY <1>1

\* A request is granted exactly when it is legal.
LEMMA GrantedIfLegal ==
  ASSUME NEW r \in RequestTypes, NEW size \in {InputSize, HoldingSize}
  PROVE  LET range == RangeFromAddrCount(r.addr, r.count \div 2, size)
         IN /\ r.count % 2 = 0 /\ range # NoRange <=> Legal(r, size)
            /\ range # NoRange => range = r.addr..(r.addr + r.count \div 2 - 1)
BY RequestParts, RangeIsLegal DEF Legal

\* What a read comes to: the floats it asks for, or a refusal.
LEMMA ReadResultOf ==
  ASSUME input \in [Input -> Float], NEW r \in RequestTypes
  PROVE  LET result == ReadResult(r, RangeFromAddrCount(r.addr, r.count \div 2, InputSize))
         IN /\ result \in Answers
            /\ result.result = "ok" <=> Legal(r, InputSize)
            /\ Legal(r, InputSize) =>
                 result.data
                   = SubSeq(<<input[0], input[1]>>, r.addr + 1, r.addr + r.count \div 2)
<1> DEFINE n == r.count \div 2
           range == RangeFromAddrCount(r.addr, n, InputSize)
           result == ReadResult(r, range)
           floats == SubSeq(<<input[0], input[1]>>, r.addr + 1, r.addr + n)
<1>1. r.addr \in Nat /\ n \in Nat
  BY RequestParts
<1>2. /\ r.count % 2 = 0 /\ range # NoRange <=> Legal(r, InputSize)
      /\ range # NoRange => range = r.addr..(r.addr + n - 1)
  BY GrantedIfLegal
<1>3. Legal(r, InputSize) => r.addr < InputSize /\ r.addr + n \in 1..InputSize
  BY DEF Legal
<1>4. result = IF Legal(r, InputSize) THEN Ok(ReadInput(input, r.addr, range))
               ELSE Exception("IllegalDataAddress")
  BY <1>2, Zenon DEF ReadResult
<1> HIDE DEF n, range, result, floats
<1>5. Legal(r, InputSize) => /\ ReadInput(input, r.addr, range) = floats
                             /\ floats \in Seq(Float)
  <2> SUFFICES ASSUME Legal(r, InputSize)
               PROVE  ReadInput(input, r.addr, range) = floats /\ floats \in Seq(Float)
    OBVIOUS
  <2>1. range = r.addr..(r.addr + n - 1)
    BY <1>2
  <2> QED
    BY <1>1, <1>3, <2>1, ReadsWhatItAsks DEF floats
<1>6. CASE Legal(r, InputSize)
  <2>1. result = [result |-> "ok", data |-> floats]
    BY <1>4, <1>5, <1>6 DEF Ok
  <2>2. result \in Answers /\ result.result = "ok" /\ result.data = floats
    BY <1>5, <1>6, <2>1 DEF Answers, Results
  <2> QED
    BY <1>6, <2>2 DEF n, range, result, floats
<1>7. CASE ~Legal(r, InputSize)
  <2>1. result = [result |-> "IllegalDataAddress", data |-> <<>>]
    BY <1>4, <1>7 DEF Exception
  <2>2. result \in Answers /\ result.result # "ok"
    BY <2>1 DEF Answers, Results
  <2> QED
    BY <1>7, <2>2 DEF n, range, result
<1> QED
  BY <1>6, <1>7

\* What a write comes to.
LEMMA WriteResultOf ==
  ASSUME NEW r \in RequestTypes
  PROVE  LET range == RangeFromAddrCount(r.addr, r.count \div 2, HoldingSize)
             result == WriteResult(r, range)
         IN /\ result \in Answers
            /\ result.result = "ok" <=> Legal(r, HoldingSize)
            /\ Legal(r, HoldingSize) => range = r.addr..(r.addr + r.count \div 2 - 1)
<1> DEFINE range == RangeFromAddrCount(r.addr, r.count \div 2, HoldingSize)
           result == WriteResult(r, range)
<1>1. /\ r.count % 2 = 0 /\ range # NoRange <=> Legal(r, HoldingSize)
      /\ range # NoRange => range = r.addr..(r.addr + r.count \div 2 - 1)
  BY GrantedIfLegal
<1> HIDE DEF range
<1>2. \/ result = [result |-> "ok", data |-> <<>>] /\ r.count % 2 = 0 /\ range # NoRange
      \/ /\ result = [result |-> "IllegalDataAddress", data |-> <<>>]
         /\ ~(r.count % 2 = 0 /\ range # NoRange)
      \/ /\ result = [result |-> "IllegalDataValue", data |-> <<>>]
         /\ ~(r.count % 2 = 0 /\ range # NoRange)
  BY DEF WriteResult, Exception, Ok
<1> HIDE DEF result
<1>3. \A code \in Results :
        LET a == [result |-> code, data |-> <<>>] IN a \in Answers /\ a.result = code
  BY DEF Answers
<1>4. result \in Answers /\ (result.result = "ok" <=> r.count % 2 = 0 /\ range # NoRange)
  <2> DEFINE granted == r.count % 2 = 0 /\ range # NoRange
  <2>1. /\ "ok" \in Results /\ "IllegalDataAddress" \in Results /\ "IllegalDataValue" \in Results
        /\ "ok" # "IllegalDataAddress" /\ "ok" # "IllegalDataValue"
    BY DEF Results
  <2> QED
    BY <1>2, <1>3, <2>1, Zenon
<1> QED
  BY <1>1, <1>4 DEF range, result

\* Every handled request has an answer; a read's and a write's are what they ask for.
LEMMA HandleEffect ==
  ASSUME TypeInv, NEW c \in Clients, Handle(c)
  PROVE  LET r == request[c]
             n == r.count \div 2
         IN /\ r.kind \in {"read", "write", "other"}
            /\ \E a \in Answers :
                 /\ answer' = [answer EXCEPT ![c] = a]
                 /\ a.result = "ok" <=> r.kind \in {"read", "write"} /\ Legal(r, SizeFor(r))
                 /\ r.kind = "read" /\ Legal(r, InputSize) =>
                      a.data = SubSeq(<<input[0], input[1]>>, r.addr + 1, r.addr + n)
            /\ \/ ~(r.kind = "write" /\ Legal(r, HoldingSize)) /\ holding' = holding
               \/ /\ r.kind = "write" /\ Legal(r, HoldingSize)
                  /\ holding' = WriteHolding(holding, r.addr..(r.addr + n - 1), r.value)
<1> DEFINE r == request[c]
           n == r.count \div 2
           range == RangeFromAddrCount(r.addr, n, SizeFor(r))
           result == CASE r.kind = "read"  -> ReadResult(r, range)
                       [] r.kind = "write" -> WriteResult(r, range)
                       [] OTHER            -> Exception("IllegalFunction")
<1>1. r \in RequestTypes /\ input \in [Input -> Float]
  BY DEF TypeInv, TypeOK, RequestTypes
<1>2. /\ r.kind \in {"read", "write", "other"}
      /\ answer' = [answer EXCEPT ![c] = result]
      /\ holding' = IF r.kind = "write" /\ result.result = "ok"
                    THEN WriteHolding(holding, range, r.value) ELSE holding
  BY Zenon DEF Handle
<1> HIDE DEF r, n, result, range
<1>3. CASE r.kind = "read"
  <2>1. SizeFor(r) = InputSize
    BY <1>3 DEF SizeFor
  <2>2. result = ReadResult(r, RangeFromAddrCount(r.addr, r.count \div 2, InputSize))
    BY <1>3, <2>1 DEF result, range, n
  <2>3. /\ result \in Answers
        /\ result.result = "ok" <=> Legal(r, InputSize)
        /\ Legal(r, InputSize) =>
             result.data
               = SubSeq(<<input[0], input[1]>>, r.addr + 1, r.addr + r.count \div 2)
    BY <1>1, <2>2, ReadResultOf
  <2>4. holding' = holding /\ r.kind # "write"
    BY <1>2, <1>3
  <2> QED
    BY <1>2, <1>3, <2>1, <2>3, <2>4, Zenon DEF r, n
<1>4. CASE r.kind = "write"
  <2>1. SizeFor(r) = HoldingSize
    BY <1>4 DEF SizeFor
  <2>2. result = WriteResult(r, RangeFromAddrCount(r.addr, r.count \div 2, HoldingSize))
    BY <1>4, <2>1 DEF result, range, n
  <2>3. /\ result \in Answers
        /\ result.result = "ok" <=> Legal(r, HoldingSize)
        /\ Legal(r, HoldingSize) => range = r.addr..(r.addr + n - 1)
    BY <1>1, <2>1, <2>2, WriteResultOf DEF range, n
  <2>4. r.kind # "read"
    BY <1>4
  <2> QED
    BY <1>2, <1>4, <2>1, <2>3, <2>4, Zenon DEF r, n
<1>5. CASE r.kind = "other"
  <2>1. result = [result |-> "IllegalFunction", data |-> <<>>]
    BY <1>5 DEF Exception, result
  <2>2. result \in Answers /\ result.result # "ok"
    BY <2>1 DEF Answers, Results
  <2>3. holding' = holding /\ r.kind # "read" /\ r.kind # "write"
    BY <1>2, <1>5
  <2> QED
    BY <1>2, <2>2, <2>3, Zenon DEF r, n
<1> QED
  BY <1>2, <1>3, <1>4, <1>5

\* The parts of TypeInv: the flags, the values of the registers and of the PWM, and
\* the connections.
FlagsOK == expired \in BOOLEAN /\ sigint \in BOOLEAN
ValuesOK ==
  /\ profile \in Profiles
  /\ main \in {"running", "stopped", "failed", "panicked"}
  /\ duty \in {0, 1}
  /\ input \in [Input -> Float] /\ holding \in [Holding -> Float]
TasksOK ==
  /\ conn \in [Clients -> {None, "queued", "idle", "asked", "replying"}]
  /\ gone \subseteq {c \in Clients : conn[c] # None}
  /\ request \in [Clients -> RequestTypes]
  /\ answer \in [Clients -> Answers]

\* The three parts are all there is to the types.
LEMMA TypeParts == TypeInv <=> FlagsOK /\ ValuesOK /\ TasksOK
BY DEF TypeInv, TypeOK, FlagsOK, ValuesOK, TasksOK, RequestTypes, Answers, Results

\* What closing one connection, and all of them, leaves of the tasks.
LEMMA ClosesType ==
  ASSUME TasksOK
  PROVE  /\ \A c \in Clients : Closes(c) => TasksOK'
         /\ \A how : EndsAs(how) => TasksOK'
<1>1. NoRequest \in RequestTypes /\ NoAnswer \in Answers
  BY DEF RequestTypes, NoAnswer, Answers, Results
<1>2. ASSUME NEW c \in Clients, Closes(c)
      PROVE  TasksOK'
  BY <1>1, <1>2 DEF TasksOK, Closes
<1>3. ASSUME NEW how, EndsAs(how)
      PROVE  TasksOK'
  BY <1>1, <1>3 DEF TasksOK, EndsAs
<1> QED
  BY <1>2, <1>3

\* The inductive form is an invariant.
LEMMA TypeInvariant == Spec => []TypeInv
<1>1. Init => TypeInv
  <2> SUFFICES ASSUME Init PROVE FlagsOK /\ ValuesOK /\ TasksOK
    BY TypeParts
  <2>1. FlagsOK
    BY Zenon DEF Init, FlagsOK
  <2>2. ValuesOK
    BY DEF Init, ValuesOK, InitialInput, InitialHolding, Float, NaN
  <2>3. NoRequest \in RequestTypes /\ NoAnswer \in Answers
    BY DEF RequestTypes, NoAnswer, Answers, Results
  <2>4. TasksOK
    BY <2>3 DEF Init, TasksOK
  <2> QED
    BY <2>1, <2>2, <2>4
<1>2. TypeInv /\ [Next]_vars => TypeInv'
  <2> SUFFICES ASSUME TypeInv, [Next]_vars PROVE FlagsOK' /\ ValuesOK' /\ TasksOK'
    BY DEF TypeInv, TypeOK, FlagsOK, ValuesOK, TasksOK, RequestTypes, Answers, Results
  <2>0. FlagsOK /\ ValuesOK /\ TasksOK
    BY TypeParts
  <2>1. CASE ReadPhase
    BY <2>0, <2>1, Zenon DEF ReadPhase, FlagsOK, ValuesOK, TasksOK, registers, tasks
  <2>2. CASE ControlPhase
    <3>1. FlagsOK' /\ TasksOK'
      BY <2>0, <2>2, Zenon DEF ControlPhase, FlagsOK, TasksOK, tasks
    <3>2. PICK frequency \in {0, 1}, signal \in {0, 1} :
            /\ input' = [k \in Input |-> IF k = 0 THEN frequency ELSE signal]
            /\ duty' \in {signal, duty}
      BY <2>2, RustServerAssumption DEF ControlPhase
    <3>3. input' \in [Input -> Float] /\ duty' \in {0, 1}
      BY <2>0, <3>2 DEF ValuesOK, Float, NaN
    <3> QED
      BY <2>0, <2>2, <3>1, <3>3 DEF ControlPhase, ValuesOK
  <2>3. CASE ControlPanics
    <3>1. TasksOK'
      BY <2>0, <2>3, ClosesType DEF ControlPanics
    <3>2. FlagsOK'
      BY <2>0, <2>3, Zenon DEF ControlPanics, FlagsOK
    <3> QED
      BY <2>0, <2>3, <3>1, <3>2 DEF ControlPanics, ValuesOK, registers, EndsAs, DropController
  <2>4. ASSUME NEW c \in Clients, Accept(c)
        PROVE  FlagsOK' /\ ValuesOK' /\ TasksOK'
    <3>1. FlagsOK' /\ ValuesOK'
      BY <2>0, <2>4, Zenon DEF Accept, FlagsOK, ValuesOK, registers
    <3> QED
      BY <2>0, <2>4, <3>1 DEF Accept, TasksOK, None
  <2>5. ASSUME NEW c \in Clients, AcceptFails(c)
        PROVE  FlagsOK' /\ ValuesOK' /\ TasksOK'
    <3>1. TasksOK'
      BY <2>0, <2>5, ClosesType DEF AcceptFails
    <3>2. FlagsOK'
      BY <2>0, <2>5, Zenon DEF AcceptFails, FlagsOK
    <3> QED
      BY <2>0, <2>5, <3>1, <3>2 DEF AcceptFails, ValuesOK, registers, EndsAs, DropController
  <2>6. CASE CtrlC
    <3>1. TasksOK'
      BY <2>0, <2>6, ClosesType DEF CtrlC
    <3>2. FlagsOK'
      BY <2>0, <2>6, Zenon DEF CtrlC, FlagsOK
    <3> QED
      BY <2>0, <2>6, <3>1, <3>2 DEF CtrlC, ValuesOK, registers, EndsAs, DropController
  <2>7. ASSUME NEW c \in Clients, ConnectionTask(c)
        PROVE  FlagsOK' /\ ValuesOK' /\ TasksOK'
    <3>1. FlagsOK'
      BY <2>0, <2>7, Zenon DEF ConnectionTask, FlagsOK
    <3>2. CASE Handle(c)
      <4> DEFINE r == request[c]
      <4>1. PICK a \in Answers : answer' = [answer EXCEPT ![c] = a]
        BY <3>2, HandleEffect
      <4>2. holding' = holding
            \/ holding' = WriteHolding(holding, r.addr..(r.addr + r.count \div 2 - 1), r.value)
        BY <3>2, HandleEffect
      <4>3. r \in RequestTypes
        BY <2>0 DEF TasksOK
      <4>4. holding' \in [Holding -> Float]
        BY <2>0, <4>2, <4>3, RequestParts DEF WriteHolding, ValuesOK
      <4>5. /\ conn[c] = "asked"
            /\ conn' = [conn EXCEPT ![c] = "replying"]
            /\ request' = [request EXCEPT ![c] = NoRequest]
            /\ UNCHANGED <<input, gone>>
        BY <3>2, Zenon DEF Handle
      <4>6. TasksOK'
        BY <2>0, <4>1, <4>5 DEF TasksOK, RequestTypes, None
      <4> QED
        BY <2>0, <2>7, <3>1, <4>4, <4>5, <4>6 DEF ConnectionTask, ValuesOK
    <3>3. CASE TaskPanics(c) \/ TaskEnds(c)
      <4>1. TasksOK'
        BY <2>0, <3>3, ClosesType DEF TaskPanics, TaskEnds
      <4> QED
        BY <2>0, <2>7, <3>1, <3>3, <4>1
           DEF ConnectionTask, TaskPanics, TaskEnds, ValuesOK, registers
    <3>4. CASE Reply(c)
      <4>1. NoAnswer \in Answers
        BY DEF NoAnswer, Answers, Results
      <4>2. TasksOK'
        BY <2>0, <3>4, <4>1 DEF Reply, TasksOK, None
      <4> QED
        BY <2>0, <2>7, <3>1, <3>4, <4>2 DEF ConnectionTask, Reply, ValuesOK, registers
    <3> QED
      BY <2>7, <3>2, <3>3, <3>4 DEF ConnectionTask
  <2>8. CASE TimerExpires \/ Interrupt
    BY <2>0, <2>8, Zenon DEF TimerExpires, Interrupt, FlagsOK, ValuesOK, TasksOK, registers, tasks
  <2>9. ASSUME NEW c \in Clients, Client(c)
        PROVE  FlagsOK' /\ ValuesOK' /\ TasksOK'
    <3>1. FlagsOK' /\ ValuesOK'
      BY <2>0, <2>9, Zenon DEF Client, FlagsOK, ValuesOK, registers
    <3>2. CASE ClientConnects(c)
      BY <2>0, <3>1, <3>2 DEF ClientConnects, TasksOK, None
    <3>3. CASE ClientAsks(c)
      <4>1. PICK r \in Requests : request' = [request EXCEPT ![c] = r]
        BY <3>3 DEF ClientAsks
      <4> QED
        BY <2>0, <3>1, <3>3, <4>1 DEF ClientAsks, TasksOK, None, RequestTypes
    <3>4. CASE ClientGoes(c)
      BY <2>0, <3>1, <3>4 DEF ClientGoes, TasksOK
    <3> QED
      BY <2>9, <3>2, <3>3, <3>4 DEF Client
  <2>10. CASE UNCHANGED vars
    BY <2>0, <2>10, Zenon DEF vars, FlagsOK, ValuesOK, TasksOK, registers, tasks
  <2> QED
    BY <2>1, <2>2, <2>3, <2>4, <2>5, <2>6, <2>7, <2>8, <2>9, <2>10 DEF Next, ControllerRuns
<1> QED
  BY <1>1, <1>2, PTL DEF Spec

\* Every variable keeps its type in every behaviour.
THEOREM TypeCorrect == Spec => []TypeOK
<1>1. TypeInv => TypeOK
  BY DEF TypeInv
<1> QED
  BY <1>1, TypeInvariant, PTL

-----------------------------------------------------------------------------
(* The motor *)

\* However the program ends, the motor is not left running, except when the profile
\* "small" aborts it in a panic.
THEOREM MotorOff == Spec => []MotorOffAtEnd
<1>1. Init => MotorOffAtEnd
  BY DEF Init, MotorOffAtEnd
<1>2. MotorOffAtEnd /\ [Next]_vars => MotorOffAtEnd'
  <2> SUFFICES ASSUME MotorOffAtEnd, [Next]_vars PROVE MotorOffAtEnd'
    OBVIOUS
  <2>1. CASE ReadPhase \/ ControlPhase \/ TimerExpires \/ Interrupt
             \/ \E c \in Clients : Accept(c) \/ ConnectionTask(c) \/ Client(c)
    BY <2>1 DEF ReadPhase, ControlPhase, TimerExpires, Interrupt, Accept, ConnectionTask,
       Client, MotorOffAtEnd
  <2>2. CASE ControlPanics
    BY <2>2 DEF ControlPanics, EndsAs, DropController, MotorOffAtEnd
  <2>3. CASE CtrlC \/ \E c \in Clients : AcceptFails(c)
    BY <2>3 DEF CtrlC, AcceptFails, DropController, MotorOffAtEnd
  <2>4. CASE UNCHANGED vars
    BY <2>4 DEF vars, MotorOffAtEnd
  <2> QED
    BY <2>1, <2>2, <2>3, <2>4 DEF Next, ControllerRuns
<1> QED
  BY <1>1, <1>2, PTL DEF Spec

-----------------------------------------------------------------------------
(* Requests are handled as asked *)

\* A request is granted exactly when the floats it asks for exist, for every address
\* and every count that u16 holds; a read gets those, a write changes those and no
\* others, and what is refused, or what the server panics on, changes nothing.
THEOREM RequestsHandledAsAsked == Spec => HandledAsAsked
<1>1. TypeInv /\ [Next]_vars => [\A c \in Clients : AsAsked(c)]_vars
  <2> SUFFICES ASSUME TypeInv, Next, NEW c \in Clients PROVE AsAsked(c)
    OBVIOUS
  <2>1. ASSUME holding' = holding, conn'[c] # "replying"
        PROVE  AsAsked(c)
    BY <2>1 DEF AsAsked
  <2>2. ASSUME conn[c] = "asked", conn'[c] = "asked"
        PROVE  AsAsked(c)
    BY <2>2 DEF AsAsked, None
  <2>3. ASSUME conn[c] # "asked"
        PROVE  AsAsked(c)
    BY <2>3 DEF AsAsked
  <2>4. ASSUME conn'[c] = conn[c]
        PROVE  AsAsked(c)
    BY <2>2, <2>3, <2>4
  <2>5. conn \in [Clients -> {None, "queued", "idle", "asked", "replying"}]
        /\ answer \in [Clients -> Answers]
    BY DEF TypeInv, TypeOK
  <2>6. CASE ReadPhase \/ ControlPhase \/ TimerExpires \/ Interrupt
    BY <2>4, <2>6 DEF ReadPhase, ControlPhase, TimerExpires, Interrupt, tasks
  <2>7. CASE ControlPanics \/ CtrlC \/ \E d \in Clients : AcceptFails(d)
    BY <2>1, <2>7 DEF ControlPanics, CtrlC, AcceptFails, EndsAs, registers, None
  <2>8. ASSUME NEW d \in Clients, Accept(d) \/ Client(d)
        PROVE  AsAsked(c)
    <3>1. conn'[c] # "replying" \/ conn'[c] = conn[c]
      BY <2>5, <2>8 DEF Accept, Client, ClientConnects, ClientAsks, ClientGoes
    <3>2. holding' = holding
      BY <2>8 DEF Accept, Client, registers
    <3> QED
      BY <2>1, <2>4, <3>1, <3>2
  <2>9. ASSUME NEW d \in Clients, Reply(d)
        PROVE  AsAsked(c)
    <3>1. conn'[c] = "idle" \/ conn'[c] = conn[c]
      BY <2>5, <2>9 DEF Reply
    <3> QED
      BY <2>1, <2>4, <2>9, <3>1 DEF Reply, registers
  <2>10. ASSUME NEW d \in Clients, TaskPanics(d) \/ TaskEnds(d)
         PROVE  AsAsked(c)
    <3>1. conn'[c] = None \/ conn'[c] = conn[c]
      BY <2>5, <2>10 DEF TaskPanics, TaskEnds, Closes
    <3> QED
      BY <2>1, <2>4, <2>10, <3>1 DEF TaskPanics, TaskEnds, registers, None
  <2>11. ASSUME NEW d \in Clients, Handle(d)
         PROVE  AsAsked(c)
    <3>1. CASE d # c
      <4>1. conn'[c] = conn[c]
        BY <2>5, <2>11, <3>1, Zenon DEF Handle
      <4> QED
        BY <2>4, <4>1
    <3>2. CASE d = c
      <4> DEFINE r == request[c]
                 n == r.count \div 2
                 floats == SubSeq(<<input[0], input[1]>>, r.addr + 1, r.addr + n)
                 written == r.addr..(r.addr + n - 1)
                 granted == r.kind \in {"read", "write"} /\ Legal(r, SizeFor(r))
      <4>1. conn' = [conn EXCEPT ![c] = "replying"]
        BY <2>11, <3>2, Zenon DEF Handle
      <4>2. /\ \E a \in Answers :
                 /\ answer' = [answer EXCEPT ![c] = a]
                 /\ a.result = "ok" <=> granted
                 /\ r.kind = "read" /\ Legal(r, InputSize) => a.data = floats
            /\ \/ ~(r.kind = "write" /\ Legal(r, HoldingSize)) /\ holding' = holding
               \/ /\ r.kind = "write" /\ Legal(r, HoldingSize)
                  /\ holding' = WriteHolding(holding, written, r.value)
        BY <2>11, <3>2, HandleEffect
      <4> HIDE DEF r, n, floats, written, granted
      <4>3. /\ answer'[c].result = "ok" <=> granted
            /\ r.kind = "read" /\ Legal(r, InputSize) => answer'[c].data = floats
        BY <2>5, <4>2
      <4>4. \A k \in Holding :
              holding'[k] = IF /\ r.kind = "write" /\ Legal(r, HoldingSize)
                               /\ k \in written
                            THEN r.value ELSE holding[k]
        BY <4>2, Zenon DEF WriteHolding
      <4>5. conn'[c] # None
        BY <2>5, <4>1 DEF None
      <4> QED
        BY <4>3, <4>4, <4>5, Zenon DEF AsAsked, r, n, floats, written, granted
    <3> QED
      BY <3>1, <3>2
  <2> QED
    BY <2>6, <2>7, <2>8, <2>9, <2>10, <2>11 DEF Next, ControllerRuns, ConnectionTask
<1> QED
  BY <1>1, TypeInvariant, PTL DEF Spec, HandledAsAsked
=============================================================================
