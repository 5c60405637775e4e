---------------------------- MODULE Connections ----------------------------
(***************************************************************************)
(* What the Modbus server of scenario 3-pid promises about its client      *)
(* connections, whatever data structure it keeps them in: at most          *)
(* MaxConnections are held, a client that comes when the table is full is  *)
(* turned away without disturbing anybody, and a descriptor that was       *)
(* closed is held no longer.                                               *)
(***************************************************************************)
EXTENDS FiniteSets, Naturals

CONSTANTS
  Descriptors,     \* the descriptors the kernel can hand out
  MaxConnections   \* server_options_t.n_connections

VARIABLE active    \* the descriptors of the connections that are held

Init == active = {}

\* A client is let in: only under a descriptor that is not in use, and only
\* while there is room.
Admit ==
  /\ Cardinality(active) < MaxConnections
  /\ \E fd \in Descriptors \ active : active' = active \cup {fd}

\* One connection is given up.
Drop == \E fd \in active : active' = active \ {fd}

\* The program stops and gives up all of them.
DropAll == active' = {}

Next == Admit \/ Drop \/ DropAll

Spec == Init /\ [][Next]_active
=============================================================================
