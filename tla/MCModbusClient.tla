-------------------------- MODULE MCModbusClient --------------------------
(* Instances of ModbusClient for TLC. *)
EXTENDS ModbusClient
CONSTANTS l1, l2, v1, v2

const_Loops == {l1, l2}
const_Values == {v1, v2}
const_OneValue == {v1}
=============================================================================
