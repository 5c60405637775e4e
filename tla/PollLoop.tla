------------------------------ MODULE PollLoop ------------------------------
(***************************************************************************)
(* What the poll loops of c/3-pid and zig/3-pid stand on: the variables of *)
(* the loop, the kernel (descriptors, sockets, listen queue, timer) and    *)
(* the clients.  The kernel and libmodbus are external and modelled from   *)
(* how the loops use them.                                                 *)
(*                                                                         *)
(* The clients act between any two steps of the program, so what poll      *)
(* reported may be out of date when a handler runs.                        *)
(***************************************************************************)
EXTENDS SwapRemove, FiniteSets

CONSTANTS
  N_CONNECTIONS,   \* room for connections (5 in both programs)
  TimerFd,         \* the controller's timer
  ListenFd,        \* the listening socket
  ConnFds,         \* the descriptors accept can return
  MaxBacklog,      \* bound: clients waiting in the listen queue
  Requests,        \* what clients send: subset of {"whole", "broken"}
  PeerEnds         \* how clients go away: subset of {"fin", "rst"}

ASSUME NConnectionsAssumption == N_CONNECTIONS \in Nat \ {0}
ASSUME FdAssumption ==
  /\ TimerFd \in Nat \ {0}
  /\ ListenFd \in Nat \ {0}
  /\ TimerFd # ListenFd
  /\ ConnFds \subseteq Nat \ {0, TimerFd, ListenFd}
ASSUME EnvAssumption ==
  /\ MaxBacklog \in Nat
  /\ Requests \subseteq {"whole", "broken"}
  /\ PeerEnds \subseteq {"fin", "rst"}

N_FDS_SYSTEM == 2
N_FDS_MAX == N_FDS_SYSTEM + N_CONNECTIONS

VARIABLES
  pc,              \* where the loop stands
  pollFds,         \* poll_fds[0 .. n_poll_fds - 1]; a marked entry has -fd
  i,               \* index of the scan, then of the removal loop (from 1)
  doContinue,      \* do_continue, cleared by the SIGINT handler
  connectionFds,   \* connection_fds[0 .. n_connections_active - 1]
  socket,          \* kernel: the connections, by descriptor
  backlog,         \* kernel: clients waiting to be accepted
  timer            \* kernel: whether the timer has expired since it was read

kernel == <<socket, backlog, timer>>
vars == <<pc, pollFds, i, doContinue, connectionFds, socket, backlog, timer>>

-----------------------------------------------------------------------------
(* Kernel *)

Revents == {"IN", "ERR", "HUP", "NVAL"}

\* An open connection: what waits in its receive buffer, and what the peer has
\* done with its side.  A "broken" request makes modbus_receive fail with an
\* error other than ECONNRESET (cut short until the byte timeout, malformed).
Closed == [open |-> FALSE, data |-> "none", peer |-> "open"]
Fresh  == [open |-> TRUE,  data |-> "none", peer |-> "open"]
Socket == [open : BOOLEAN, data : {"none", "whole", "broken"},
           peer : {"open", "fin", "rst"}]

OpenFds == {fd \in ConnFds : socket[fd].open}

\* accept returns the lowest descriptor that is not in use.
IsNextFd(fd) == /\ fd \notin OpenFds
                /\ \A other \in ConnFds \ OpenFds : fd <= other

\* What poll reports for an entry whose descriptor is fd.
PollEvents(fd) ==
  IF fd = TimerFd THEN IF timer THEN {"IN"} ELSE {}
  ELSE IF fd = ListenFd THEN IF backlog > 0 THEN {"IN"} ELSE {}
  ELSE IF ~socket[fd].open THEN {"NVAL"}
  ELSE IF socket[fd].peer = "rst" THEN {"IN", "ERR", "HUP"}
  ELSE IF socket[fd].data # "none" \/ socket[fd].peer = "fin" THEN {"IN"}
  ELSE {}

-----------------------------------------------------------------------------
(* poll_fds *)

Marked(k) == [pollFds EXCEPT ![k].fd = -pollFds[k].fd]

\* modbus_reply has the answer to the request of entry i to send.
Replying == pc \in {"reply", "sending"}

\* The scan stands at entry i.
AtEntry == pc = "scan" /\ i <= Len(pollFds)
Reports(event) == event \in pollFds[i].revents
HangsUp == Reports("ERR") \/ Reports("HUP")

-----------------------------------------------------------------------------
(* Kernel and clients *)

Alive == pc \notin {"stopped", "undefined", "panicked"}

TimerExpires ==
  /\ Alive
  /\ ~timer
  /\ timer' = TRUE
  /\ UNCHANGED <<pc, pollFds, i, doContinue, connectionFds, socket, backlog>>

ClientConnects ==
  /\ Alive
  /\ backlog < MaxBacklog
  /\ backlog' = backlog + 1
  /\ UNCHANGED <<pc, pollFds, i, doContinue, connectionFds, socket, timer>>

ClientSends(fd) ==
  /\ Alive
  /\ socket[fd].open /\ socket[fd].peer = "open" /\ socket[fd].data = "none"
  /\ \E data \in Requests :
       socket' = [socket EXCEPT ![fd].data = data]
  /\ UNCHANGED <<pc, pollFds, i, doContinue, connectionFds, backlog, timer>>

\* The client closes its side ("fin"), or the connection is reset, also after
\* the client closed it.
ClientEnds(fd) ==
  /\ Alive
  /\ socket[fd].open
  /\ \E end \in PeerEnds :
       /\ socket[fd].peer = "open" \/ (socket[fd].peer = "fin" /\ end = "rst")
       /\ socket' = [socket EXCEPT ![fd].peer = end]
  /\ UNCHANGED <<pc, pollFds, i, doContinue, connectionFds, backlog, timer>>

\* SIGINT: the handler clears do_continue, which only the head of the loop reads.
Interrupt ==
  /\ pc \notin {"undefined", "panicked"}
  /\ doContinue
  /\ doContinue' = FALSE
  /\ UNCHANGED <<pc, pollFds, i, connectionFds, kernel>>

\* The client whose answer the blocking send of modbus_reply waits with reads
\* what was sent before; there is room now, and the loop goes on.
ClientReads ==
  /\ pc = "sending"
  /\ socket[pollFds[i].fd].peer # "rst"
  /\ pc' = "scan"
  /\ i' = i + 1
  /\ UNCHANGED <<pollFds, doContinue, connectionFds, kernel>>

Environment ==
  \/ Interrupt
  \/ ClientReads
  \/ TimerExpires
  \/ ClientConnects
  \/ \E fd \in ConnFds : ClientSends(fd) \/ ClientEnds(fd)

\* The variables keep their types: entries and table hold descriptors.
TypeOK ==
  /\ pc \in {"poll", "scan", "reply", "sending", "sweep", "stopped",
         "undefined", "panicked"}
  /\ pollFds \in Seq([fd : Int, revents : SUBSET Revents])
  /\ i \in Nat \ {0}
  /\ doContinue \in BOOLEAN
  /\ connectionFds \in Seq(ConnFds)
  /\ socket \in [ConnFds -> Socket]
  /\ backlog \in 0..MaxBacklog
  /\ timer \in BOOLEAN

Polled == {pollFds[k].fd : k \in 1..Len(pollFds)}
=============================================================================
