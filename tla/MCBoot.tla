------------------------------- MODULE MCBoot -------------------------------
(* An instance of Boot for TLC: all programs. *)
EXTENDS Boot
=============================================================================
