--------------------------- MODULE RustRegisters ---------------------------
(***************************************************************************)
(* The registers of scenario 3-pid in Rust on the Raspberry Pi, which      *)
(* clients address by the number of the float, and how an address and a    *)
(* count, both u16, become a range of them.                                *)
(***************************************************************************)
EXTENDS FloatClass, FiniteSets

InputSize   == 2    \* variant_count of InputRegister
HoldingSize == 4    \* variant_count of HoldingRegister
U16 == 0..65535

Input   == 0..(InputSize - 1)
Holding == 0..(HoldingSize - 1)

\* Registers::new: the integration time is infinite, all else zero.
InitialInput   == [k \in Input |-> 0]
InitialHolding == [k \in Holding |-> IF k = 2 THEN 2 ELSE 0]

\* addr + count - 1 leaves u16, at either end.
Overflows(addr, count) == addr + count \notin 1..65536

\* Faulty variant for HandledAsAsked: the last float is left out of account.
LastOfOneLate(addr, count) == (addr + count) % 65536

\* The same where overflow is not checked for.
LastOf(addr, count) == (addr + count - 1) % 65536

\* What Option::None of range_from_addr_count stands for here.
NoRange == {-1}

\* range_from_addr_count: addr is looked at first.  A count of zero gives the
\* empty range, except at address 0.
RangeFromAddrCount(addr, count, size) ==
  IF addr < size /\ LastOf(addr, count) < size THEN addr..LastOf(addr, count)
  ELSE NoRange

\* A build that checks for overflow panics instead.
RangePanics(addr, count, size) == addr < size /\ Overflows(addr, count)

\* read_input: the floats of the range, in order.
ReadInput(input, addr, range) ==
  [k \in 1..Cardinality(range) |-> input[addr + k - 1]]

\* write_holding, of one value to the whole range.
WriteHolding(holding, range, value) ==
  [k \in Holding |-> IF k \in range THEN value ELSE holding[k]]
=============================================================================
