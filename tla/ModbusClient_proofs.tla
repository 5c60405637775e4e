------------------------- MODULE ModbusClient_proofs -------------------------
(***************************************************************************)
(* Proofs about ModbusClient, for every number of overlapping loops, of    *)
(* retries, of writes under way and of faults.                             *)
(***************************************************************************)
EXTENDS ModbusClient, WellFoundedInduction, SequenceTheorems, TLAPS

-----------------------------------------------------------------------------
(* The writes that are left when the client is closed *)

\* A set of natural numbers has a least one.
LEMMA Least ==
  ASSUME NEW T \in SUBSET Nat, T # {}
  PROVE  \E n \in T : \A m \in T : n <= m
<1>1. \E n \in T : \A m \in T : ~(<<m, n>> \in OpToRel(<, Nat))
  BY WFMin, NatLessThanWellFounded, Zenon
<1>2. PICK n \in T : \A m \in T : ~(<<m, n>> \in OpToRel(<, Nat))
  BY <1>1
<1>3. ASSUME NEW m \in T PROVE ~(m < n)
  BY <1>2, <1>3 DEF OpToRel
<1> QED
  BY <1>3

\* RejectedWrites is a sequence of writes.
LEMMA RejectedWritesType ==
  ASSUME NEW S, writes \in Seq(S)
  PROVE  RejectedWrites \in Seq(S)
<1> DEFINE n == Len(writes)
           Step(g, k) == IF k = 0 THEN <<>>
                         ELSE IF writes[k].awaits = "rejection" THEN Append(g[k - 1], writes[k])
                         ELSE g[k - 1]
           Holds(m) == \E g \in [0..m -> Seq(S)] : \A k \in 0..m : g[k] = Step(g, k)
           kept == CHOOSE g : g = [k \in 0..n |-> Step(g, k)]
<1>1. n \in Nat /\ \A k \in 1..n : writes[k] \in S
  OBVIOUS
<1>2. RejectedWrites = kept[n]
  BY Zenon DEF RejectedWrites
<1>3. Holds(0)
  <2>1. <<>> \in Seq(S)
    OBVIOUS
  <2>2. [k \in 0..0 |-> <<>>] \in [0..0 -> Seq(S)]
    BY <2>1
  <2>3. \A k \in 0..0 : k = 0
    OBVIOUS
  <2> QED
    BY <2>2, <2>3
<1>4. ASSUME NEW m \in 1..n, Holds(m - 1)
      PROVE  Holds(m)
  <2>1. PICK g \in [0..(m - 1) -> Seq(S)] : \A k \in 0..(m - 1) : g[k] = Step(g, k)
    BY <1>4
  <2> DEFINE last == IF writes[m].awaits = "rejection" THEN Append(g[m - 1], writes[m])
                     ELSE g[m - 1]
             h == [k \in 0..m |-> IF k = m THEN last ELSE g[k]]
  <2>2. m \in Nat /\ m > 0 /\ m - 1 \in 0..(m - 1)
    BY <1>1
  <2>3. last \in Seq(S)
    <3>1. g[m - 1] \in Seq(S) /\ writes[m] \in S
      BY <1>1, <2>2
    <3> QED
      BY <3>1
  <2> HIDE DEF last
  <2>4. h \in [0..m -> Seq(S)]
    BY <2>2, <2>3
  <2>5. \A k \in 0..(m - 1) : h[k] = g[k]
    BY <2>2
  <2>6. h[m] = last
    BY <2>2
  <2> HIDE DEF h
  <2>7. ASSUME NEW k \in 0..m PROVE h[k] = Step(h, k)
    <3>1. CASE k = m
      BY <2>2, <2>5, <2>6, <3>1 DEF last
    <3>2. CASE k # m
      <4>1. k \in 0..(m - 1) /\ (k # 0 => k - 1 \in 0..(m - 1))
        BY <2>2, <3>2
      <4> QED
        BY <2>1, <2>5, <4>1
    <3> QED
      BY <3>1, <3>2
  <2> QED
    BY <2>4, <2>7
<1> HIDE DEF Step
<1>5. Holds(n)
  <2> DEFINE T == {m \in 0..n : ~Holds(m)}
  <2> HIDE DEF Holds
  <2>1. SUFFICES ASSUME T # {} PROVE FALSE
    BY <1>1
  <2>2. T \in SUBSET Nat
    BY <1>1
  <2>3. PICK m \in T : \A l \in T : m <= l
    BY <2>1, <2>2, Least, Zenon
  <2>4. m # 0
    BY <1>3, <2>3
  <2>5. m \in 1..n /\ m - 1 \in 0..n /\ ~(m <= m - 1)
    BY <1>1, <2>3, <2>4
  <2>6. Holds(m - 1)
    BY <2>3, <2>5
  <2> QED
    BY <1>4, <2>3, <2>5, <2>6
<1>6. kept = [k \in 0..n |-> Step(kept, k)]
  <2>1. PICK g \in [0..n -> Seq(S)] : \A k \in 0..n : g[k] = Step(g, k)
    BY <1>5
  <2>2. g = [k \in 0..n |-> Step(g, k)]
    BY <2>1
  <2> QED
    BY <2>2, Zenon
<1> HIDE DEF kept
<1>7. \A k \in 0..n : kept[k] = Step(kept, k)
  BY <1>6
<1>8. kept[0] \in Seq(S)
  <2>1. kept[0] = Step(kept, 0)
    BY <1>1, <1>7
  <2>2. Step(kept, 0) = <<>>
    BY Zenon DEF Step
  <2>3. <<>> \in Seq(S)
    OBVIOUS
  <2> QED
    BY <2>1, <2>2, <2>3
<1>9. ASSUME NEW m \in 1..n, kept[m - 1] \in Seq(S)
      PROVE  kept[m] \in Seq(S)
  <2>1. kept[m] = Step(kept, m) /\ m # 0 /\ writes[m] \in S
    BY <1>1, <1>7
  <2>2. kept[m] = Append(kept[m - 1], writes[m]) \/ kept[m] = kept[m - 1]
    BY <2>1 DEF Step
  <2>3. Append(kept[m - 1], writes[m]) \in Seq(S)
    BY <1>9, <2>1
  <2> QED
    BY <1>9, <2>2, <2>3
<1>10. \A k \in 0..n : kept[k] \in Seq(S)
  <2> DEFINE T == {k \in 0..n : kept[k] \notin Seq(S)}
  <2>1. SUFFICES ASSUME T # {} PROVE FALSE
    OBVIOUS
  <2>2. T \in SUBSET Nat
    BY <1>1
  <2>3. PICK m \in T : \A l \in T : m <= l
    BY <2>1, <2>2, Least, Zenon
  <2>4. m # 0
    BY <1>8, <2>3
  <2>5. m \in 1..n /\ m - 1 \in 0..n /\ ~(m <= m - 1)
    BY <1>1, <2>3, <2>4
  <2>6. kept[m - 1] \in Seq(S)
    BY <2>3, <2>5
  <2> QED
    BY <1>9, <2>3, <2>5, <2>6
<1> QED
  BY <1>1, <1>2, <1>10

-----------------------------------------------------------------------------
(* Type correctness *)

Write == [value : Values, awaits : {"connection", "response", "rejection"}]

\* The parts of TypeOK: connections and loops, the writes, and all else.
LoopsOK ==
  /\ client \in {"none", "connecting", "up", "failed"}
  /\ retryNumber \in Nat
  /\ reading \in [Loops -> Awaits]
FlagsOK ==
  /\ isError \in BOOLEAN /\ wasError \in BOOLEAN
  /\ deviceUp \in BOOLEAN /\ events \in BOOLEAN
ValuesOK ==
  /\ params \in Values \cup {Default}
  /\ wanted \in Values /\ posts \subseteq Values
  /\ edits \in 0..MaxEdits /\ faults \in 0..MaxFaults
WritesOK == writes \in Seq(Write)

\* The retries counted start from zero with each client, which is closed by the loop
\* that counts one too many; while there is none nobody waits for a socket, and
\* once nobody backs off no rejection is left to be counted.
RetriesOK ==
  /\ client # "none" => retryNumber <= Retries
  /\ client = "none" => /\ retryNumber <= Retries + 1
                        /\ \A l \in Loops : reading[l] \notin {"connection", "response"}
                        /\ ~isError => \A l \in Loops : reading[l] # "rejection"

Inv == LoopsOK /\ FlagsOK /\ ValuesOK /\ WritesOK /\ RetriesOK

\* The writes under way stay writes in every step.
LEMMA WritesType ==
  ASSUME Inv, [Next]_vars
  PROVE  WritesOK'
<1>1. writes \in Seq(Write) /\ Len(writes) \in Nat
  BY DEF Inv, WritesOK
<1>2. \A k \in 1..Len(writes) : writes[k] \in Write
  BY <1>1, ElementOfSeq
<1>3. ASSUME NEW k \in 1..Len(writes), writes' = RemoveAt(writes, k)
      PROVE  WritesOK'
  <2>1. SubSeq(writes, 1, k - 1) \in Seq(Write) /\ SubSeq(writes, k + 1, Len(writes)) \in Seq(Write)
    BY <1>1, <1>2
  <2> QED
    BY <1>3, <2>1 DEF RemoveAt, WritesOK
<1>4. ASSUME NEW old, NEW new \in {"connection", "response", "rejection"}, Await(old, new)
      PROVE  WritesOK'
  <2> DEFINE e(k) == IF writes[k].awaits = old THEN [writes[k] EXCEPT !.awaits = new]
                     ELSE writes[k]
  <2>1. \A k \in 1..Len(writes) : e(k) \in Write
    BY <1>2 DEF Write
  <2>2. writes' = [k \in 1..Len(writes) |-> e(k)]
    BY <1>4, Zenon DEF Await
  <2> HIDE DEF e
  <2> QED
    BY <1>1, <2>1, <2>2 DEF WritesOK
<1>5. CASE \E l \in Loops : LoopCatches(l)
  BY <1>1, <1>5, RejectedWritesType DEF LoopCatches, CloseClient, WritesOK
<1>6. CASE \E value \in Values : PostArrives(value)
  <2>1. PICK value \in Values : PostArrives(value)
    BY <1>6
  <2> DEFINE e == [value |-> value, awaits |-> FirstAwait]
  <2>2. e \in Write
    BY DEF Write, FirstAwait
  <2>3. writes' = writes \/ writes' = Append(writes, e)
    BY <2>1, Zenon DEF PostArrives
  <2> HIDE DEF e
  <2> QED
    BY <1>1, <2>2, <2>3 DEF WritesOK
<1>7. CASE \E k \in 1..Len(writes) : WriteSucceeds(k) \/ WriteCatches(k)
  BY <1>3, <1>7 DEF WriteSucceeds, WriteCatches
<1>8. CASE Connects \/ ConnectFails \/ RequestsFail
  BY <1>4, <1>8 DEF Connects, ConnectFails, RequestsFail
<1>9. CASE RequestTimesOut
  <2>1. ASSUME NEW k \in 1..Len(writes), writes' = [writes EXCEPT ![k].awaits = "rejection"]
        PROVE  WritesOK'
    <3> DEFINE e == [writes[k] EXCEPT !.awaits = "rejection"]
    <3>1. e \in Write
      BY <1>2, <2>1 DEF Write
    <3>2. writes' = [writes EXCEPT ![k] = e]
      BY <2>1, Zenon
    <3> HIDE DEF e
    <3> QED
      BY <1>1, <3>1, <3>2 DEF WritesOK
  <2> QED
    BY <1>1, <1>9, <2>1 DEF RequestTimesOut, WritesOK
<1>10. CASE UNCHANGED writes
  BY <1>1, <1>10 DEF WritesOK
<1> QED
  BY <1>5, <1>6, <1>7, <1>8, <1>9, <1>10
     DEF Next, Dashboard, Environment, StartLoop, ReadSucceeds, Wake, HearConnected,
         DeviceStops, DeviceStarts, Edit, vars

\* What the loops await, and the client they share, in every step but the catching
\* of a rejection.
LEMMA LoopsStep ==
  ASSUME Inv, [Next]_vars, ~ \E l \in Loops : LoopCatches(l)
  PROVE  LoopsOK' /\ RetriesOK'
<1> USE ModbusClientAssumption DEF Inv, LoopsOK, RetriesOK, Awaits
<1>1. ASSUME NEW l \in Loops, StartLoop(l)
      PROVE  LoopsOK' /\ RetriesOK'
  BY <1>1 DEF StartLoop, NextClient, NextRetryNumber, FirstAwait, errors
<1>2. ASSUME NEW l \in Loops, ReadSucceeds(l)
      PROVE  LoopsOK' /\ RetriesOK'
  BY <1>2 DEF ReadSucceeds, connection
<1>3. ASSUME NEW l \in Loops, Wake(l)
      PROVE  LoopsOK' /\ RetriesOK'
  BY <1>3 DEF Wake, Settled, connection
<1>4. ASSUME NEW value \in Values, PostArrives(value)
      PROVE  LoopsOK' /\ RetriesOK'
  BY <1>4 DEF PostArrives, NextClient, NextRetryNumber, connection, errors
<1>5. ASSUME NEW k \in 1..Len(writes), WriteSucceeds(k) \/ WriteCatches(k)
      PROVE  LoopsOK' /\ RetriesOK'
  BY <1>5 DEF WriteSucceeds, WriteCatches, connection
<1>6. CASE Connects \/ ConnectFails \/ RequestsFail
  BY <1>6 DEF Connects, ConnectFails, RequestsFail, Await, connection, errors
<1>7. CASE RequestTimesOut
  BY <1>7 DEF RequestTimesOut, connection, errors
<1>8. CASE DeviceStops
  BY <1>8 DEF DeviceStops, errors
<1>9. CASE UNCHANGED <<connection, isError, reading>>
  BY <1>9 DEF connection
<1> QED
  BY <1>1, <1>2, <1>3, <1>4, <1>5, <1>6, <1>7, <1>8, <1>9
     DEF Next, Dashboard, Environment, HearConnected, DeviceStarts, Edit, vars, errors

\* The flags and the values.
LEMMA FlagsStep ==
  ASSUME Inv, [Next]_vars
  PROVE  FlagsOK' /\ ValuesOK'
<1>1. FlagsOK /\ ValuesOK /\ \A k \in 1..Len(writes) : writes[k].value \in Values
  <2>1. \A k \in 1..Len(writes) : writes[k] \in Write
    BY ElementOfSeq DEF Inv, WritesOK
  <2> QED
    BY <2>1 DEF Inv, Write
<1>2. CASE \E l \in Loops : StartLoop(l) \/ ReadSucceeds(l) \/ LoopCatches(l) \/ Wake(l)
  BY <1>1, <1>2, Zenon DEF StartLoop, ReadSucceeds, LoopCatches, Wake, ClearWasError, FlagsOK,
     ValuesOK, errors, device, page
<1>3. CASE \E k \in 1..Len(writes) : WriteSucceeds(k) \/ WriteCatches(k)
  <2>1. FlagsOK'
    BY <1>1, <1>3, Zenon DEF WriteSucceeds, WriteCatches, ClearWasError, FlagsOK, device, page
  <2> QED
    BY <1>1, <1>3, <2>1 DEF WriteSucceeds, WriteCatches, ValuesOK, device, page
<1>4. CASE \E value \in Values : PostArrives(value)
  <2>1. FlagsOK'
    BY <1>1, <1>4, Zenon DEF PostArrives, FlagsOK, errors, device
  <2> QED
    BY <1>1, <1>4, <2>1 DEF PostArrives, ValuesOK, device
<1>5. CASE HearConnected \/ Connects
  <2>1. FlagsOK'
    BY <1>1, <1>5, Zenon DEF HearConnected, Connects, FlagsOK, errors, device
  <2> QED
    BY <1>1, <1>5, <2>1 DEF HearConnected, Connects, ValuesOK, device
<1>6. CASE ConnectFails \/ RequestsFail \/ RequestTimesOut
  <2>1. FlagsOK'
    BY <1>1, <1>6, Zenon DEF ConnectFails, RequestsFail, RequestTimesOut, FlagsOK, errors,
       device, page
  <2>2. params' \in Values \cup {Default}
    BY <1>1, <1>6 DEF ConnectFails, RequestsFail, RequestTimesOut, ValuesOK, device
  <2>3. faults' \in 0..MaxFaults
    BY <1>1, <1>6, ModbusClientAssumption
       DEF ConnectFails, RequestsFail, RequestTimesOut, MayFail, ValuesOK
  <2> QED
    BY <1>1, <1>6, <2>1, <2>2, <2>3
       DEF ConnectFails, RequestsFail, RequestTimesOut, ValuesOK, page
<1>7. CASE DeviceStops \/ DeviceStarts
  <2>1. FlagsOK'
    BY <1>1, <1>7, Zenon DEF DeviceStops, DeviceStarts, FlagsOK, errors, page
  <2> QED
    BY <1>1, <1>7, <2>1, ModbusClientAssumption DEF DeviceStops, DeviceStarts, ValuesOK, page
<1>8. CASE \E value \in Values : Edit(value)
  <2>1. FlagsOK'
    BY <1>1, <1>8, Zenon DEF Edit, FlagsOK, errors, device
  <2> QED
    BY <1>1, <1>8, <2>1, ModbusClientAssumption DEF Edit, ValuesOK, device
<1>9. CASE UNCHANGED vars
  BY <1>1, <1>9, Zenon DEF vars, FlagsOK, ValuesOK, errors, device, page
<1> QED
  BY <1>2, <1>3, <1>4, <1>5, <1>6, <1>7, <1>8, <1>9 DEF Next, Dashboard, Environment

\* The inductive invariant.
LEMMA Invariant == Spec => []Inv
<1>1. Init => Inv
  <2> SUFFICES ASSUME Init PROVE Inv
    OBVIOUS
  <2>1. FlagsOK
    BY Zenon DEF Init, FlagsOK
  <2> QED
    BY <2>1, ModbusClientAssumption
       DEF Init, Inv, LoopsOK, ValuesOK, WritesOK, RetriesOK, Awaits
<1>2. Inv /\ [Next]_vars => Inv'
  <2> SUFFICES ASSUME Inv, [Next]_vars PROVE LoopsOK' /\ RetriesOK'
    BY WritesType, FlagsStep DEF Inv
  <2>1. ASSUME NEW l \in Loops, LoopCatches(l)
        PROVE  LoopsOK' /\ RetriesOK'
    <3>1. CASE isError
      BY <2>1, <3>1 DEF LoopCatches, Inv, LoopsOK, RetriesOK, Awaits, connection, errors
    <3>2. CASE ~isError
      <4>1. client # "none" /\ retryNumber <= Retries /\ isError' /\ retryNumber' = retryNumber + 1
        BY <2>1, <3>2 DEF LoopCatches, Inv, RetriesOK
      <4>2. CASE retryNumber >= Retries
        BY <2>1, <3>2, <4>1, <4>2, ModbusClientAssumption
           DEF LoopCatches, CloseClient, Inv, LoopsOK, RetriesOK, Awaits
      <4>3. CASE ~(retryNumber >= Retries)
        BY <2>1, <3>2, <4>1, <4>3, ModbusClientAssumption
           DEF LoopCatches, Inv, LoopsOK, RetriesOK, Awaits
      <4> QED
        BY <4>2, <4>3
    <3> QED
      BY <3>1, <3>2
  <2> QED
    BY <2>1, LoopsStep
<1> QED
  BY <1>1, <1>2, PTL DEF Spec

\* Every variable keeps its type in every behaviour; in particular the retries are
\* counted no further than to the one that closes the client.
THEOREM TypeCorrect == Spec => []TypeOK
<1>1. Inv => TypeOK
  <2> SUFFICES ASSUME Inv PROVE TypeOK
    OBVIOUS
  <2>1. retryNumber \in 0..(Retries + 1)
    BY ModbusClientAssumption DEF Inv, LoopsOK, RetriesOK
  <2>2. Write = [value : Values, awaits : Awaits \ {"idle", "sleep"}]
    <3>1. {"connection", "response", "rejection"} = Awaits \ {"idle", "sleep"}
      BY DEF Awaits
    <3> QED
      BY <3>1, Zenon DEF Write
  <2> QED
    BY <2>1, <2>2, Zenon DEF Inv, LoopsOK, FlagsOK, ValuesOK, WritesOK, TypeOK
<1> QED
  BY <1>1, Invariant, PTL

-----------------------------------------------------------------------------
(* One back-off *)

\* However many loops overlap and whatever fails, one loop backs off for all, and
\* the flag that holds up the others is set exactly as long.
THEOREM OneLoopBacksOff == Spec => []OneBackoff
<1>1. Init => OneBackoff
  BY DEF Init, OneBackoff
<1>2. Inv /\ OneBackoff /\ [Next]_vars => OneBackoff'
  <2> SUFFICES ASSUME Inv, OneBackoff, [Next]_vars PROVE OneBackoff'
    OBVIOUS
  <2>1. reading \in [Loops -> Awaits]
    BY DEF Inv, LoopsOK
  <2> DEFINE Sleeps(l) == reading[l] = "sleep"
  \* Steps in which nobody falls asleep and nobody wakes.
  <2>2. ASSUME isError' = isError, \A l \in Loops : Sleeps(l)' <=> Sleeps(l)
        PROVE  OneBackoff'
    BY <2>2, Zenon DEF OneBackoff
  <2>3. ASSUME NEW l \in Loops, StartLoop(l) \/ ReadSucceeds(l)
        PROVE  OneBackoff'
    <3>1. isError' = isError
      BY <2>3, Zenon DEF StartLoop, ReadSucceeds, errors
    <3>2. \A k \in Loops : Sleeps(k)' <=> Sleeps(k)
      BY <2>1, <2>3 DEF StartLoop, ReadSucceeds, FirstAwait
    <3> QED
      BY <2>2, <3>1, <3>2
  <2>4. ASSUME NEW l \in Loops, LoopCatches(l)
        PROVE  OneBackoff'
    <3>1. CASE isError
      <4>1. isError' = isError
        BY <2>4, <3>1, Zenon DEF LoopCatches, errors
      <4>2. \A k \in Loops : Sleeps(k)' <=> Sleeps(k)
        BY <2>1, <2>4, <3>1 DEF LoopCatches
      <4> QED
        BY <2>2, <4>1, <4>2
    <3>2. CASE ~isError
      <4>1. \A k \in Loops : ~Sleeps(k)
        BY <3>2, Zenon DEF OneBackoff
      <4>2. isError'
        BY <2>4, <3>2, Zenon DEF LoopCatches
      <4>3. \A k \in Loops : Sleeps(k)' <=> k = l
        BY <2>1, <2>4, <3>2, <4>1 DEF LoopCatches, CloseClient
      <4> QED
        BY <4>2, <4>3, Zenon DEF OneBackoff
    <3> QED
      BY <3>1, <3>2
  <2>5. ASSUME NEW l \in Loops, Wake(l)
        PROVE  OneBackoff'
    <3>1. ~isError'
      BY <2>5, Zenon DEF Wake
    <3>2. \A k \in Loops : ~Sleeps(k)'
      BY <2>1, <2>5 DEF Wake, OneBackoff
    <3> QED
      BY <3>1, <3>2, Zenon DEF OneBackoff
  <2>6. CASE Connects \/ ConnectFails \/ RequestsFail
    <3>1. isError' = isError
      BY <2>6, Zenon DEF Connects, ConnectFails, RequestsFail, errors
    <3>2. \A k \in Loops : Sleeps(k)' <=> Sleeps(k)
      BY <2>1, <2>6 DEF Connects, ConnectFails, RequestsFail, Await
    <3> QED
      BY <2>2, <3>1, <3>2
  <2>7. CASE RequestTimesOut
    <3>1. isError' = isError
      BY <2>7, Zenon DEF RequestTimesOut, errors
    <3>2. \A k \in Loops : Sleeps(k)' <=> Sleeps(k)
      BY <2>1, <2>7 DEF RequestTimesOut
    <3> QED
      BY <2>2, <3>1, <3>2
  <2>8. CASE UNCHANGED <<isError, reading>>
    BY <2>2, <2>8
  <2> QED
    BY <2>3, <2>4, <2>5, <2>6, <2>7, <2>8
       DEF Next, Dashboard, Environment, PostArrives, WriteSucceeds, WriteCatches,
           HearConnected, DeviceStops, DeviceStarts, Edit, vars, errors
<1> QED
  BY <1>1, <1>2, Invariant, PTL DEF Spec
=============================================================================
