--------------------------- MODULE MotorTask_proofs ---------------------------
(***************************************************************************)
(* Proofs about MotorTask, for its three implementations, every choice of  *)
(* the frequencies and of the length of a report, and every sequence of    *)
(* requests.                                                               *)
(***************************************************************************)
EXTENDS MotorTask, Operators_proofs

-----------------------------------------------------------------------------
(* The performance counters *)

CountsType ==
  /\ impl \in Impls
  /\ pc \in {"wait", "params", "report", "panicked"}
  /\ readNo \in 0..(ReadsPerBin - 1)
  /\ controlNo \in 0..Iterations
  /\ perfRead \in 0..PerfReadCapacity
  /\ perfControl \in 0..PerfControlCapacity

\* How the counters go with the phases since the last report.
Counts ==
  /\ pc = "wait" => /\ controlNo < Iterations
                    /\ perfRead = controlNo * ReadsPerBin + readNo
                    /\ perfControl = controlNo
  /\ pc = "params" => /\ controlNo < Iterations
                      /\ readNo = 0
                      /\ perfRead = controlNo * ReadsPerBin + ReadsPerBin
                      /\ perfControl = controlNo
  /\ pc = "report" => readNo = 0

CountsInv == CountsType /\ Counts

\* The counters have room for all samples of a report.
LEMMA RoomForReport ==
  ASSUME impl \in Impls
  PROVE  /\ Iterations \in Nat \ {0} /\ Iterations <= PerfControlCapacity
         /\ Iterations * ReadsPerBin <= PerfReadCapacity
         /\ PerfControlCapacity \in Nat /\ PerfReadCapacity \in Nat
<1> DEFINE R == ReadsPerBin
           F == ControlFrequency
<1>1. R \in Nat \ {0} /\ F \in Nat \ {0} /\ ItersPerReport \in 1..(2 * F)
      /\ impl \in {"C", "Zig", "Rust"}
  BY MotorTaskAssumption
<1> HIDE DEF R, F
<1>2. /\ R * F \in Nat /\ 2 * R * F = 2 * (R * F) /\ F * R = R * F
      /\ 2 * R * F \in Nat /\ 1 * R * F = R * F
  BY <1>1
<1>3. ASSUME NEW n \in 1..(2 * F)
      PROVE  n * R <= 2 * R * F
  <2>1. (2 * F - n) * R \in Nat
    BY <1>1
  <2>2. (2 * F - n) * R = 2 * R * F - n * R
    BY <1>1
  <2>3. n * R \in Nat
    BY <1>1
  <2> QED
    BY <1>2, <2>1, <2>2, <2>3
<1>4. CASE impl = "C"
  <2>1. Iterations = ItersPerReport /\ PerfReadCapacity = 2 * R * F
        /\ PerfControlCapacity = 2 * F
    BY <1>4 DEF Iterations, PerfReadCapacity, PerfControlCapacity, R, F
  <2> QED
    BY <1>1, <1>2, <1>3, <2>1 DEF R
<1>5. CASE impl = "Rust"
  <2>1. Iterations = F /\ PerfReadCapacity = 2 * R * F /\ PerfControlCapacity = 2 * F
    BY <1>5 DEF Iterations, PerfReadCapacity, PerfControlCapacity, R, F
  <2>2. F \in 1..(2 * F)
    BY <1>1
  <2> QED
    BY <1>1, <1>2, <1>3, <2>1, <2>2 DEF R
<1>6. CASE impl = "Zig"
  <2>1. Iterations = F /\ PerfReadCapacity = 1 * R * F /\ PerfControlCapacity = 1 * F
    BY <1>6 DEF Iterations, PerfReadCapacity, PerfControlCapacity, R, F
  <2> QED
    BY <1>1, <1>2, <2>1 DEF R
<1> QED
  BY <1>1, <1>4, <1>5, <1>6

\* While the task waits, or reads the parameters, there is room for the next sample.
LEMMA RoomForNext ==
  ASSUME CountsInv
  PROVE  /\ pc = "wait" => perfRead < PerfReadCapacity /\ perfControl < PerfControlCapacity
         /\ pc = "params" => perfControl < PerfControlCapacity
<1> DEFINE R == ReadsPerBin
           n == Iterations
<1>1. R \in Nat \ {0} /\ n \in Nat \ {0} /\ n <= PerfControlCapacity /\ n * R <= PerfReadCapacity
      /\ PerfControlCapacity \in Nat /\ PerfReadCapacity \in Nat
  BY RoomForReport, MotorTaskAssumption DEF CountsInv, CountsType
<1>2. controlNo \in Nat /\ readNo \in 0..(R - 1)
  BY <1>1 DEF CountsInv, CountsType
<1> HIDE DEF R, n
<1>3. controlNo < n => controlNo * R + R <= n * R
  <2> SUFFICES ASSUME controlNo < n PROVE controlNo * R + R <= n * R
    OBVIOUS
  <2>1. (n - (controlNo + 1)) * R \in Nat
    BY <1>1, <1>2
  <2>2. (n - (controlNo + 1)) * R = n * R - (controlNo * R + R)
    BY <1>1, <1>2
  <2>3. n * R \in Nat /\ controlNo * R \in Nat
    BY <1>1, <1>2
  <2> QED
    BY <1>1, <2>1, <2>2, <2>3
<1>4. controlNo * R \in Nat /\ n * R \in Nat
  BY <1>1, <1>2
<1>5. CASE pc = "wait"
  <2>1. controlNo < n /\ perfRead = controlNo * R + readNo /\ perfControl = controlNo
    BY <1>5 DEF CountsInv, Counts, R, n
  <2>2. perfRead < controlNo * R + R
    BY <1>1, <1>2, <1>4, <2>1
  <2>3. perfRead \in Nat
    BY <1>2, <1>1, <1>4, <2>1
  <2> QED
    BY <1>1, <1>2, <1>3, <1>4, <1>5, <2>1, <2>2, <2>3
<1>6. CASE pc = "params"
  BY <1>1, <1>2, <1>6 DEF CountsInv, Counts, n
<1> QED
  BY <1>5, <1>6

\* The counters are where the phases say.
LEMMA CountsInvariant == Spec => []CountsInv
<1>1. Init => CountsInv
  <2> SUFFICES ASSUME Init PROVE CountsInv
    OBVIOUS
  <2>1. /\ Iterations \in Nat \ {0} /\ PerfControlCapacity \in Nat /\ PerfReadCapacity \in Nat
        /\ ReadsPerBin \in Nat \ {0}
    BY RoomForReport, MotorTaskAssumption DEF Init
  <2> QED
    BY <2>1 DEF Init, CountsInv, CountsType, Counts
<1>2. CountsInv /\ [Next]_vars => CountsInv'
  <2> SUFFICES ASSUME CountsInv, [Next]_vars PROVE CountsInv'
    OBVIOUS
  <2> DEFINE R == ReadsPerBin
             n == Iterations
             readRoom == PerfReadCapacity
             controlRoom == PerfControlCapacity
  <2>1. /\ R \in Nat \ {0} /\ n \in Nat \ {0} /\ controlRoom \in Nat /\ readRoom \in Nat
        /\ n <= controlRoom
    BY RoomForReport, MotorTaskAssumption DEF CountsInv, CountsType
  <2>2. impl' = impl /\ n' = n /\ readRoom' = readRoom /\ controlRoom' = controlRoom
    <3>1. impl' = impl
      BY DEF Next, ControllerLoop, Read, ReadParam, ShowThenDrive, DriveThenShow, ControlEnds,
         DrivePanics, MeasurePanics, Report, OnTimerFired, ReceiveWrite, WriteWord, vars
    <3> QED
      BY <3>1 DEF Iterations, PerfReadCapacity, PerfControlCapacity
  <2>3. /\ impl \in Impls
        /\ readNo \in 0..(R - 1) /\ controlNo \in 0..n
        /\ perfRead \in 0..readRoom /\ perfControl \in 0..controlRoom
    BY DEF CountsInv, CountsType
  <2>4. /\ pc = "wait" => controlNo < n /\ perfRead = controlNo * R + readNo
                          /\ perfControl = controlNo /\ perfRead < readRoom
        /\ pc = "params" => controlNo < n /\ readNo = 0 /\ perfRead = controlNo * R + R
                            /\ perfControl = controlNo /\ perfControl < controlRoom
        /\ pc = "report" => readNo = 0
    BY RoomForNext DEF CountsInv, Counts
  <2>5. SUFFICES /\ pc' \in {"wait", "params", "report", "panicked"}
                 /\ readNo' \in 0..(R - 1) /\ controlNo' \in 0..n
                 /\ perfRead' \in 0..readRoom /\ perfControl' \in 0..controlRoom
                 /\ pc' = "wait" => controlNo' < n /\ perfRead' = controlNo' * R + readNo'
                                    /\ perfControl' = controlNo'
                 /\ pc' = "params" => controlNo' < n /\ readNo' = 0
                                      /\ perfRead' = controlNo' * R + R
                                      /\ perfControl' = controlNo'
                 /\ pc' = "report" => readNo' = 0
    BY <2>2, <2>3 DEF CountsInv, CountsType, Counts
  <2>6. controlNo * R \in Nat /\ (controlNo + 1) * R = controlNo * R + R /\ 0 * R = 0
    BY <2>1, <2>3
  <2> HIDE DEF R, n, readRoom, controlRoom
  <2>7. CASE Read
    <3>1. /\ pc = "wait" /\ controlNo' = controlNo /\ perfControl' = perfControl
          /\ perfRead' = perfRead + 1
      BY <2>4, <2>7 DEF Read, Sampled, readRoom
    <3>2. readNo' = IF readNo = R - 1 THEN 0 ELSE readNo + 1
      BY <2>1, <2>3, <2>7, IncrementMod DEF Read, NextRead, R
    <3>3. pc' = IF readNo' = 0 THEN "params" ELSE "wait"
      BY <2>7, <3>1 DEF Read
    <3>4. CASE readNo = R - 1
      BY <2>1, <2>3, <2>4, <2>6, <3>1, <3>2, <3>3, <3>4
    <3>5. CASE readNo # R - 1
      BY <2>1, <2>3, <2>4, <2>6, <3>1, <3>2, <3>3, <3>5
    <3> QED
      BY <3>4, <3>5
  <2>8. CASE ShowThenDrive \/ DriveThenShow
    <3>1. ControlEnds
      BY <2>8 DEF ShowThenDrive, DriveThenShow
    <3>2. /\ pc = "params" /\ controlNo' = controlNo + 1
          /\ perfControl' = perfControl + 1 /\ readNo' = readNo /\ perfRead' = perfRead
      BY <2>4, <3>1 DEF ControlEnds, Sampled, controlRoom
    <3>3. pc' = IF controlNo' = n THEN "report" ELSE "wait"
      BY <3>1 DEF ControlEnds, n
    <3> QED
      BY <2>1, <2>3, <2>4, <2>6, <3>2, <3>3
  <2>9. CASE Report
    BY <2>1, <2>3, <2>4, <2>6, <2>9 DEF Report
  <2>10. CASE DrivePanics \/ MeasurePanics
    BY <2>3, <2>10 DEF DrivePanics, MeasurePanics
  <2>11. CASE UNCHANGED loop
    BY <2>3, <2>4, <2>11 DEF CountsInv, CountsType, loop
  <2> QED
    BY <2>7, <2>8, <2>9, <2>10, <2>11
       DEF Next, ControllerLoop, ReadParam, OnTimerFired, ReceiveWrite, WriteWord, vars
<1> QED
  BY <1>1, <1>2, PTL DEF Spec

\* No implementation drops a performance sample, whatever the frequencies, and for
\* any length of a report its assumption allows.
THEOREM SamplesKept == Spec => []NoSampleDropped
<1>1. CountsInv => NoSampleDropped
  BY RoomForNext DEF NoSampleDropped
<1> QED
  BY <1>1, CountsInvariant, PTL

-----------------------------------------------------------------------------
(* The parameters *)

ParamsType ==
  /\ sent \in Seq(Params) /\ Len(sent) <= MaxWrites
  /\ holding \in [Words -> 0..Len(sent)]
  /\ written \in 0..5
  /\ got \in [Words -> (0..Len(sent)) \cup {Unread}]
  /\ asOf \in 0..Len(sent)

\* The last request of which all words are written.
Completed == IF written = 5 THEN Len(sent) ELSE Len(sent) - 1

\* A word is of the last request once that has written it, and else of the request
\* before; a control phase in turn reads no word from before its beginning.
Fresh ==
  /\ written < 5 => Len(sent) > 0
  /\ \A k \in 1..5 :
       IF k <= written THEN holding[WordOrder[k]] = Len(sent)
       ELSE holding[WordOrder[k]] >= Len(sent) - 1
  /\ asOf <= Completed
  /\ UsesFreshParams

ParamsInv == ParamsType /\ Fresh

\* Requests and the reads of a control phase keep the registers regular.
LEMMA ParamsInvariant == Spec => []ParamsInv
<1>1. Init => ParamsInv
  <2> SUFFICES ASSUME Init PROVE ParamsInv
    OBVIOUS
  <2>1. Len(sent) = 0 /\ written = 5
    BY DEF Init
  <2>2. \A k \in 1..5 : WordOrder[k] \in Words
    BY Zenon DEF Words
  <2>3. ParamsType
    BY <2>1, MotorTaskAssumption DEF Init, ParamsType, Unread
  <2>4. UsesFreshParams
    BY DEF Init, UsesFreshParams
  <2> QED
    BY <2>1, <2>2, <2>3, <2>4 DEF Init, ParamsInv, Fresh, Completed
<1>2. ParamsInv /\ [Next]_vars => ParamsInv'
  <2> SUFFICES ASSUME ParamsInv, [Next]_vars PROVE ParamsInv'
    OBVIOUS
  <2>1. /\ sent \in Seq(Params) /\ Len(sent) <= MaxWrites /\ Len(sent) \in Nat
        /\ holding \in [Words -> 0..Len(sent)] /\ written \in 0..5
        /\ got \in [Words -> (0..Len(sent)) \cup {Unread}] /\ asOf \in 0..Len(sent)
    BY DEF ParamsInv, ParamsType
  <2>2. /\ written < 5 => Len(sent) > 0
        /\ \A k \in 1..5 : IF k <= written THEN holding[WordOrder[k]] = Len(sent)
                           ELSE holding[WordOrder[k]] >= Len(sent) - 1
        /\ asOf <= Completed
        /\ \A w \in Words : got[w] = Unread \/ got[w] >= asOf
    BY DEF ParamsInv, Fresh, UsesFreshParams
  <2>3. \A w \in Words : holding[w] >= Completed /\ holding[w] \in Nat
    <3>1. \A k \in 1..5 : holding[WordOrder[k]] >= Completed
      BY <2>1, <2>2 DEF Completed
    <3> SUFFICES ASSUME NEW w \in Words PROVE holding[w] >= Completed /\ holding[w] \in Nat
      OBVIOUS
    <3>2. PICK k \in 1..5 : w = WordOrder[k]
      BY Zenon DEF Words
    <3>3. holding[w] \in 0..Len(sent)
      BY <2>1
    <3> QED
      BY <2>1, <3>1, <3>2, <3>3
  <2>4. \A k \in 1..5 : WordOrder[k] \in Words
    BY Zenon DEF Words
  <2>5. CASE Read
    <3>1. UNCHANGED <<holding, sent, written>>
      BY <2>5 DEF Read, registers
    <3>2. \/ got' = NoneRead /\ asOf' = Completed
          \/ got' = got /\ asOf' = asOf
      BY <2>5 DEF Read, Completed
    <3>3. CASE got' = NoneRead /\ asOf' = Completed
      <4>1. got' \in [Words -> (0..Len(sent)) \cup {Unread}]
            /\ \A w \in Words : got'[w] = Unread
        BY <3>3 DEF NoneRead
      <4>2. asOf' \in 0..Len(sent)
        BY <2>1, <2>2, <3>3 DEF Completed
      <4> QED
        BY <2>1, <2>2, <3>1, <3>3, <4>1, <4>2
           DEF ParamsInv, ParamsType, Fresh, Completed, UsesFreshParams
    <3>4. CASE got' = got /\ asOf' = asOf
      BY <3>1, <3>4 DEF ParamsInv, ParamsType, Fresh, Completed, UsesFreshParams
    <3> QED
      BY <3>2, <3>3, <3>4
  <2>6. ASSUME NEW w \in Words, ReadParam(w)
        PROVE  ParamsInv'
    <3>1. UNCHANGED <<holding, sent, written, asOf>> /\ got' = [got EXCEPT ![w] = holding[w]]
      BY <2>6 DEF ReadParam, registers
    <3>2. got' \in [Words -> (0..Len(sent)) \cup {Unread}]
      BY <2>1, <3>1
    <3>3. Completed \in Int
      BY <2>1 DEF Completed
    <3>4. \A v \in Words : got'[v] = Unread \/ got'[v] >= asOf
      BY <2>1, <2>2, <2>3, <3>1, <3>3
    <3> QED
      BY <3>1, <3>2, <3>4 DEF ParamsInv, ParamsType, Fresh, Completed, UsesFreshParams
  <2>7. ASSUME NEW p \in Params, ReceiveWrite(p)
        PROVE  ParamsInv'
    <3>1. /\ written = 5 /\ Len(sent) < MaxWrites /\ sent' = Append(sent, p) /\ written' = 0
          /\ UNCHANGED <<holding, got, asOf>>
      BY <2>7 DEF ReceiveWrite
    <3>2. sent' \in Seq(Params) /\ Len(sent') = Len(sent) + 1
      BY <2>1, <3>1
    <3>3. ParamsType'
      BY <2>1, <3>1, <3>2, MotorTaskAssumption DEF ParamsType, Unread
    <3>4. Fresh'
      <4>1. \A k \in 1..5 : holding[WordOrder[k]] = Len(sent) /\ ~(k <= 0)
        BY <2>2, <3>1
      <4> QED
        BY <2>1, <2>2, <3>1, <3>2, <4>1, SMTT(20) DEF Fresh, Completed, UsesFreshParams
    <3> QED
      BY <3>3, <3>4 DEF ParamsInv
  <2>8. CASE WriteWord
    <3> DEFINE j == written + 1
    <3>1. /\ written < 5 /\ written' = j
          /\ holding' = [holding EXCEPT ![WordOrder[j]] = Len(sent)]
          /\ UNCHANGED <<sent, got, asOf>>
      BY <2>8, Zenon DEF WriteWord
    <3>2. j \in 1..5
      BY <2>1, <3>1
    <3> HIDE DEF j
    <3>3. WordOrder[j] \in Words /\ DOMAIN holding = Words
      BY <2>1, <2>4, <3>2
    <3>4. ParamsType'
      BY <2>1, <3>1, <3>2, <3>3 DEF ParamsType
    <3>5. \A w \in Words : holding'[w] = holding[w] \/ holding'[w] = Len(sent)
      BY <3>1, <3>3
    <3>6. holding'[WordOrder[j]] = Len(sent)
      BY <3>1, <3>3
    <3>7. \A k \in 1..5 : k <= j => k <= written \/ k = j
      BY <2>1 DEF j
    <3>8. \A k \in 1..5 : IF k <= j THEN holding'[WordOrder[k]] = Len(sent)
                          ELSE holding'[WordOrder[k]] >= Len(sent) - 1
      <4> SUFFICES ASSUME NEW k \in 1..5
                   PROVE  IF k <= j THEN holding'[WordOrder[k]] = Len(sent)
                          ELSE holding'[WordOrder[k]] >= Len(sent) - 1
        OBVIOUS
      <4>1. holding'[WordOrder[k]] = holding[WordOrder[k]] \/ holding'[WordOrder[k]] = Len(sent)
        BY <2>4, <3>5
      <4>2. CASE k <= j
        BY <2>2, <3>6, <3>7, <4>1, <4>2
      <4>3. CASE ~(k <= j)
        <5>1. ~(k <= written)
          BY <2>1, <4>3 DEF j
        <5> QED
          BY <2>1, <2>2, <4>1, <4>3, <5>1
      <4> QED
        BY <4>2, <4>3
    <3>9. Completed' >= Completed /\ Completed \in Int /\ Completed' \in Int
      BY <2>1, <3>1 DEF Completed
    <3>10. asOf' <= Completed'
      BY <2>1, <2>2, <3>1, <3>9
    <3>11. UsesFreshParams'
      BY <2>2, <3>1 DEF UsesFreshParams
    <3> QED
      BY <2>2, <3>1, <3>4, <3>8, <3>10, <3>11 DEF ParamsInv, Fresh
  <2>9. CASE UNCHANGED <<registers, got, asOf>>
    BY <2>9 DEF ParamsInv, ParamsType, Fresh, Completed, UsesFreshParams, registers
  <2> QED
    BY <2>5, <2>6, <2>7, <2>8, <2>9
       DEF Next, ControllerLoop, ShowThenDrive, DriveThenShow, ControlEnds, DrivePanics,
           MeasurePanics, Report, OnTimerFired, vars
<1> QED
  BY <1>1, <1>2, PTL DEF Spec

\* However the stack's writes of words fall between the controller's reads of them,
\* no word of a control phase is older than the last request completed before it.
THEOREM RegistersRegular == Spec => []UsesFreshParams
<1>1. ParamsInv => UsesFreshParams
  BY DEF ParamsInv, Fresh
<1> QED
  BY <1>1, ParamsInvariant, PTL

-----------------------------------------------------------------------------
(* Feedback and the control signal *)

OutputsType ==
  /\ feedback \in [delta : Float, integ : Float]
  /\ signal \in Float

\* What a request holds is of the types of the parameters.
LEMMA RequestType ==
  ASSUME ParamsInv, NEW n \in 0..Len(sent)
  PROVE  Request(n) \in ParamSet
<1>1. CASE n = 0
  BY <1>1 DEF Request, ParamSet, Float, NaN
<1>2. CASE n # 0
  <2>1. sent \in Seq(Params) /\ n \in 1..Len(sent)
    BY <1>2 DEF ParamsInv, ParamsType
  <2>2. sent[n] \in Params
    BY <2>1, ElementOfSeq
  <2> QED
    BY <1>2, <2>2, MotorTaskAssumption DEF Request
<1> QED
  BY <1>1, <1>2

\* The parameters read are floats, even those made of words of two requests.
LEMMA ParamsReadType ==
  ASSUME ParamsInv, \A w \in Words : got[w] # Unread
  PROVE  /\ ParamsRead.target \in Float /\ ParamsRead.factor \in Float
         /\ ParamsRead.ti \in Float /\ ParamsRead.td \in Float
<1>1. \A w \in Words : got[w] \in 0..Len(sent)
  BY DEF ParamsInv, ParamsType
<1>2. /\ "target_frequency" \in Words /\ "proportional_factor" \in Words
      /\ "integration_high" \in Words /\ "integration_low" \in Words
      /\ "differentiation_time" \in Words
  BY DEF Words, WordOrder
<1>3. \A w \in Words : Request(got[w]) \in ParamSet
  BY <1>1, RequestType
<1>4. /\ Request(got["target_frequency"]).target \in Float
      /\ Request(got["proportional_factor"]).factor \in Float
      /\ Request(got["integration_high"]).ti \in Float
      /\ Request(got["differentiation_time"]).td \in Float
  BY <1>2, <1>3 DEF ParamSet
<1>5. IntegrationTime \in Float
  BY <1>4 DEF IntegrationTime, Float, NaN
<1> QED
  BY <1>4, <1>5 DEF ParamsRead

\* A step of the loop sets the outputs only in a control phase: to what the formula
\* comes to with the parameters read.
LEMMA OutputsStep ==
  ASSUME [Next]_vars
  PROVE  \/ UNCHANGED outputs
         \/ /\ \A w \in Words : got[w] # Unread
            /\ \E frequency \in {0, 1} : \E control \in RawControl(ParamsRead, frequency, feedback) :
                 /\ signal' \in Limited(control.signal)
                 /\ \/ feedback' = feedback
                    \/ feedback' = Sanitised(control)
                    \/ /\ impl = "Zig"
                       /\ feedback' = [delta |-> control.delta, integ |-> control.integ]
<1>1. CASE ShowThenDrive \/ DriveThenShow
  <2>1. \A w \in Words : got[w] # Unread
    BY <1>1 DEF ShowThenDrive, DriveThenShow, ControlEnds
  <2>2. CASE ShowThenDrive
    <3>1. PICK control \in Controls :
            /\ signal' \in Limited(control.signal)
            /\ feedback' \in {Sanitised(control), feedback}
      BY <2>2, Zenon DEF ShowThenDrive
    <3>2. \E frequency \in {0, 1} : control \in RawControl(ParamsRead, frequency, feedback)
      BY Zenon DEF Controls
    <3> QED
      BY <2>1, <3>1, <3>2
  <2>3. CASE DriveThenShow /\ ~UNCHANGED outputs
    <3>1. PICK control \in Controls :
            /\ signal' \in Limited(control.signal)
            /\ feedback' = [delta |-> control.delta, integ |-> control.integ]
      BY <2>3, Zenon DEF DriveThenShow
    <3>2. \E frequency \in {0, 1} : control \in RawControl(ParamsRead, frequency, feedback)
      BY Zenon DEF Controls
    <3>3. impl = "Zig"
      BY <2>3 DEF DriveThenShow
    <3> QED
      BY <2>1, <3>1, <3>2, <3>3
  <2> QED
    BY <1>1, <2>2, <2>3
<1> QED
  BY <1>1 DEF Next, ControllerLoop, Read, ReadParam, DrivePanics, MeasurePanics, Report,
     OnTimerFired, ReceiveWrite, WriteWord, vars

\* The outputs are floats in every behaviour.
LEMMA OutputsInvariant == Spec => []OutputsType
<1>1. Init => OutputsType
  BY DEF Init, OutputsType, Float, NaN
<1>2. ParamsInv /\ OutputsType /\ [Next]_vars => OutputsType'
  <2> SUFFICES ASSUME ParamsInv, OutputsType, [Next]_vars, ~UNCHANGED outputs
               PROVE  OutputsType'
    BY DEF OutputsType, outputs
  <2>1. /\ \A w \in Words : got[w] # Unread
        /\ \E frequency \in {0, 1} : \E control \in RawControl(ParamsRead, frequency, feedback) :
             /\ signal' \in Limited(control.signal)
             /\ \/ feedback' = feedback
                \/ feedback' = Sanitised(control)
                \/ feedback' = [delta |-> control.delta, integ |-> control.integ]
    BY OutputsStep, Zenon
  <2>2. PICK frequency \in {0, 1} : \E control \in RawControl(ParamsRead, frequency, feedback) :
             /\ signal' \in Limited(control.signal)
             /\ \/ feedback' = feedback
                \/ feedback' = Sanitised(control)
                \/ feedback' = [delta |-> control.delta, integ |-> control.integ]
    BY <2>1, Zenon
  <2>3. PICK control \in RawControl(ParamsRead, frequency, feedback) :
             /\ signal' \in Limited(control.signal)
             /\ \/ feedback' = feedback
                \/ feedback' = Sanitised(control)
                \/ feedback' = [delta |-> control.delta, integ |-> control.integ]
    BY <2>2, Zenon
  <2>4. control \in ControlOfFloats
    <3>1. frequency \in Float /\ feedback \in FeedbackOfFloats
      BY DEF Float, NaN, OutputsType, FeedbackOfFloats
    <3> QED
      BY <2>1, <3>1, ParamsReadType, RawControlType
  <2>5. control.signal \in Float /\ control.delta \in Float /\ control.integ \in Float
    BY <2>4 DEF ControlOfFloats
  <2>6. signal' \in Float
    <3>1. Limited(control.signal) \in SUBSET {0, 1, NaN}
      BY <2>5, LimitedType
    <3> QED
      BY <2>3, <3>1 DEF Float, NaN
  <2>7. feedback' \in [delta : Float, integ : Float]
    BY <2>3, <2>5 DEF OutputsType, Sanitised, FiniteOrZero, Float, NaN
  <2> QED
    BY <2>6, <2>7 DEF OutputsType
<1> QED
  BY <1>1, <1>2, ParamsInvariant, PTL DEF Spec

\* Every variable keeps its type in every behaviour.
THEOREM TypeCorrect == Spec => []TypeOK
<1> DEFINE Flag == notified \in BOOLEAN
<1>1. Init => Flag
  BY Zenon DEF Init
<1>2. Flag /\ [Next]_vars => Flag'
  BY Zenon DEF Next, ControllerLoop, Read, ReadParam, ShowThenDrive, DriveThenShow, ControlEnds,
     DrivePanics, MeasurePanics, Report, OnTimerFired, ReceiveWrite, WriteWord, vars
<1>3. Flag /\ CountsInv /\ ParamsInv /\ OutputsType => TypeOK
  BY DEF CountsInv, CountsType, ParamsInv, ParamsType, OutputsType, TypeOK
<1> QED
  BY <1>1, <1>2, <1>3, CountsInvariant, ParamsInvariant, OutputsInvariant, PTL DEF Spec

\* In C and Rust no state of the controller holds an infinity or a NaN, whatever its
\* phases had read.
FeedbackStaysFinite ==
  impl # "Zig" => feedback.delta \in Finite /\ feedback.integ \in Finite

\* finite_or_zero keeps it so in every control phase (controller.c:323).
LEMMA FeedbackInvariant == Spec => []FeedbackStaysFinite
<1>1. Init => FeedbackStaysFinite
  BY DEF Init, FeedbackStaysFinite, Finite
<1>2. FeedbackStaysFinite /\ [Next]_vars => FeedbackStaysFinite'
  <2> SUFFICES ASSUME FeedbackStaysFinite, [Next]_vars, impl' # "Zig"
               PROVE  feedback'.delta \in Finite /\ feedback'.integ \in Finite
    BY DEF FeedbackStaysFinite
  <2>1. impl' = impl
    BY DEF Next, ControllerLoop, Read, ReadParam, ShowThenDrive, DriveThenShow, ControlEnds,
       DrivePanics, MeasurePanics, Report, OnTimerFired, ReceiveWrite, WriteWord, vars
  <2>2. feedback' = feedback \/ \E control : feedback' = Sanitised(control)
    BY <2>1, OutputsStep, Zenon DEF outputs
  <2> QED
    BY <2>1, <2>2, SanitisedFinite DEF FeedbackStaysFinite
<1> QED
  BY <1>1, <1>2, PTL DEF Spec

\* Unless arithmetic on finite numbers overflows, a control phase that reads one
\* whole request shows a number, whatever halves of words or infinities the phases
\* before it had read (in C and Rust).
THEOREM RecoversFromTorn ==
  ASSUME ~MayOverflow
  PROVE  Spec => RecoversFromTornParams
<1>1. FeedbackStaysFinite /\ [Next]_vars
        => [pc = "params" /\ pc' \in {"wait", "report"} /\ impl # "Zig"
            /\ Complete /\ Sane(ParamsRead) => signal' # NaN]_vars
  <2> SUFFICES ASSUME FeedbackStaysFinite, Next, pc = "params", pc' \in {"wait", "report"},
                      impl # "Zig", Sane(ParamsRead)
               PROVE  signal' # NaN
    OBVIOUS
  <2>1. ShowThenDrive
    BY DEF Next, ControllerLoop, Read, ReadParam, DriveThenShow, DrivePanics, MeasurePanics,
       Report, OnTimerFired, ReceiveWrite, WriteWord, loop
  <2>2. PICK control \in Controls : signal' \in Limited(control.signal)
    BY <2>1, Zenon DEF ShowThenDrive
  <2>3. PICK frequency \in {0, 1} : control \in RawControl(ParamsRead, frequency, feedback)
    BY Zenon DEF Controls
  <2>4. control.signal \in Finite
    <3>1. /\ ParamsRead.target \in Finite /\ ParamsRead.factor \in Finite
          /\ ParamsRead.td \in Finite /\ ParamsRead.ti \in {1, 2}
      BY DEF Sane, IsFinite, Finite
    <3>2. frequency \in Finite
      BY DEF Finite
    <3>3. feedback.delta \in Finite /\ feedback.integ \in Finite
      BY DEF FeedbackStaysFinite
    <3> QED
      BY <2>3, <3>1, <3>2, <3>3, RawControlFinite, Zenon
  <2>5. Limited(control.signal) \in SUBSET {0, 1}
    BY <2>4, LimitedType DEF Finite, Float, NaN
  <2> QED
    BY <2>2, <2>5 DEF NaN
<1> QED
  BY <1>1, FeedbackInvariant, PTL DEF Spec, RecoversFromTornParams
=============================================================================
