---------------------------- MODULE MCRustServer ----------------------------
(* An instance of RustServer for TLC. *)
EXTENDS RustServer

\* "release" panics nowhere that "small" does not, and ends as "dev" does.
const_Profiles == {"dev", "small"}
const_Frequencies == {1}

\* Both ends of the registers, counts that are zero, odd and too great.
const_Requests ==
  {Read(0, 4), Read(0, 0), Read(1, 0), Read(1, 4),
   Write(0, 8, 1), Write(3, 2, NaN), Write(3, 3, 1),
   Odd("broken"), Odd("part")}
=============================================================================
