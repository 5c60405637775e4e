----------------------------- MODULE SwapRemove -----------------------------
(***************************************************************************)
(* How the poll loops of c/3-pid and zig/3-pid take an element out of an   *)
(* array of which the order does not matter: the list of connections, and  *)
(* poll_fds.                                                               *)
(***************************************************************************)
EXTENDS Integers, Sequences

SeqRange(s) == {s[k] : k \in 1..Len(s)}

\* The s with element k given up: the last element takes its place.
RemoveAt(s, k) ==
  [j \in 1..(Len(s) - 1) |-> IF j = k THEN s[Len(s)] ELSE s[j]]
=============================================================================
