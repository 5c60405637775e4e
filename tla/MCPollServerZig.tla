-------------------------- MODULE MCPollServerZig --------------------------
(* Instances of PollServerZig for TLC. *)
EXTENDS PollServerZig

const_ConnFds    == 6..(5 + N_CONNECTIONS)
const_AnyRequest == {"whole", "broken"}
const_Orderly    == {"fin"}
const_AnyEnd     == {"fin", "rst"}
=============================================================================
