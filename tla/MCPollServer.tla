--------------------------- MODULE MCPollServer ---------------------------
(* Instances of PollServer for TLC: descriptors as a Linux process hands them *)
(* out after the listener (3), the I2C device (4) and the timer (5).          *)
EXTENDS PollServer

const_ConnFds == 6..(6 + N_CONNECTIONS)
const_Requests == {"whole", "broken"}
const_Orderly == {"fin"}
const_AnyEnd  == {"fin", "rst"}
=============================================================================
