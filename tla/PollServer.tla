----------------------------- MODULE PollServer -----------------------------
(***************************************************************************)
(* The single-threaded poll loop of c/3-pid: main.c waits in poll(2) on    *)
(* the controller's timer, the listening socket and every client           *)
(* connection, scans the entries that fired, hands them to the controller  *)
(* or to the Modbus server (server.c), and removes the entries that were   *)
(* marked during the scan.  The kernel (descriptors, sockets, backlog) and *)
(* libmodbus are external and modelled from how the loop uses them.        *)
(*                                                                         *)
(* The clients act between any two steps of the program, so what poll      *)
(* reported may be out of date when a handler runs.                        *)
(***************************************************************************)
EXTENDS PollLoop

\* A descriptor is left for a client that is turned away.
ASSUME SpareFdAssumption ==
  IsFiniteSet(ConnFds) /\ Cardinality(ConnFds) > N_CONNECTIONS

-----------------------------------------------------------------------------
(* server.c *)

\* Faulty variant for TableMatchesKernel: the slot is freed, close is forgotten.
ServerCloseFdKeepsSocket(fd) ==
  /\ UNCHANGED socket
  /\ IF \E k \in 1..Len(connectionFds) : connectionFds[k] = fd
     THEN connectionFds' =
            RemoveAt(connectionFds,
                     CHOOSE k \in 1..Len(connectionFds) : connectionFds[k] = fd)
     ELSE UNCHANGED connectionFds

\* server_close_fd: a descriptor that is not in the table is left alone.
ServerCloseFd(fd) ==
  IF \E k \in 1..Len(connectionFds) : connectionFds[k] = fd
  THEN /\ LET k == CHOOSE k \in 1..Len(connectionFds) : connectionFds[k] = fd
          IN connectionFds' = RemoveAt(connectionFds, k)
       /\ socket' = [socket EXCEPT ![fd] = Closed]
  ELSE UNCHANGED <<connectionFds, socket>>

-----------------------------------------------------------------------------
(* main.c: the loop *)

Init ==
  /\ pc = "poll"
  /\ pollFds = << [fd |-> TimerFd, revents |-> {}],
                  [fd |-> ListenFd, revents |-> {}] >>
  /\ i = 1
  /\ doContinue = TRUE
  /\ connectionFds = << >>
  /\ socket = [fd \in ConnFds |-> Closed]
  /\ backlog = 0
  /\ timer = FALSE

\* poll returns once an entry has something to report; a timeout or an
\* interrupted call only goes round the loop.
Poll ==
  /\ pc = "poll"
  /\ doContinue
  /\ \E k \in 1..Len(pollFds) : PollEvents(pollFds[k].fd) # {}
  /\ pollFds' = [k \in 1..Len(pollFds) |->
                   [pollFds[k] EXCEPT !.revents = PollEvents(pollFds[k].fd)]]
  /\ i' = 1
  /\ pc' = "scan"
  /\ UNCHANGED <<doContinue, connectionFds, kernel>>

\* Nothing to do for the entry (POLLNVAL is only logged).
ScanQuiet ==
  /\ AtEntry
  /\ ~HangsUp /\ ~Reports("IN")
  /\ i' = i + 1
  /\ UNCHANGED <<pc, pollFds, doContinue, connectionFds, kernel>>

\* POLLERR or POLLHUP: the entry is marked and the connection closed.  The
\* POLLIN that comes with it reaches server_handle with a descriptor that is
\* closed by now: modbus_receive fails with EBADF, the entry is marked again
\* and there is nothing left to close.
ScanHangup ==
  /\ AtEntry
  /\ HangsUp
  /\ pollFds' = Marked(i)
  /\ ServerCloseFd(pollFds[i].fd)
  /\ i' = i + 1
  /\ UNCHANGED <<pc, doContinue, backlog, timer>>

\* controller_handle on the timer: one read takes all expirations.
ScanTimer ==
  /\ AtEntry
  /\ ~HangsUp /\ Reports("IN")
  /\ pollFds[i].fd = TimerFd
  /\ timer' = FALSE
  /\ i' = i + 1
  /\ UNCHANGED <<pc, pollFds, doContinue, connectionFds, socket, backlog>>

AtListener ==
  /\ AtEntry
  /\ ~HangsUp /\ Reports("IN")
  /\ pollFds[i].fd = ListenFd
  /\ backlog > 0

\* Faulty variant for ImplementsConnections: one connection more than the limit.
ScanAcceptOneMore ==
  /\ AtListener
  /\ Len(connectionFds) <= N_CONNECTIONS
  /\ backlog' = backlog - 1
  /\ \E fd \in ConnFds :
       /\ IsNextFd(fd)
       /\ socket' = [socket EXCEPT ![fd] = Fresh]
       /\ connectionFds' = Append(connectionFds, fd)
       /\ pollFds' = Append(pollFds, [fd |-> fd, revents |-> {}])
  /\ i' = i + 1
  /\ UNCHANGED <<pc, doContinue, timer>>

\* server_handle on the listening socket, the table has room: the connection
\* goes into the table and main.c appends it to poll_fds.  When poll_fds is
\* full the write is out of bounds, and nothing is claimed of what follows.
ScanAccept ==
  /\ AtListener
  /\ Len(connectionFds) < N_CONNECTIONS
  /\ backlog' = backlog - 1
  /\ \E fd \in ConnFds :
       /\ IsNextFd(fd)
       /\ socket' = [socket EXCEPT ![fd] = Fresh]
       /\ connectionFds' = Append(connectionFds, fd)
       /\ IF Len(pollFds) < N_FDS_MAX
          THEN /\ pollFds' = Append(pollFds, [fd |-> fd, revents |-> {}])
               /\ pc' = pc
          ELSE /\ pollFds' = pollFds
               /\ pc' = "undefined"
  /\ i' = i + 1
  /\ UNCHANGED <<doContinue, timer>>

\* server_handle on the listening socket, the table is full: the connection is
\* accepted and closed at once.
ScanRefuse ==
  /\ AtListener
  /\ Len(connectionFds) >= N_CONNECTIONS
  /\ backlog' = backlog - 1
  /\ i' = i + 1
  /\ UNCHANGED <<pc, pollFds, doContinue, connectionFds, socket, timer>>

\* accept itself fails.
ScanAcceptFails ==
  /\ AtListener
  /\ backlog' = backlog - 1
  /\ i' = i + 1
  /\ UNCHANGED <<pc, pollFds, doContinue, connectionFds, socket, timer>>

AtConnection ==
  /\ AtEntry
  /\ ~HangsUp /\ Reports("IN")
  /\ pollFds[i].fd \notin {TimerFd, ListenFd}

\* modbus_receive returns a whole request, which goes on to modbus_reply.
Receive ==
  /\ AtConnection
  /\ LET fd == pollFds[i].fd IN
       /\ socket[fd].open
       /\ socket[fd].data = "whole"
       /\ socket' = [socket EXCEPT ![fd].data = "none"]
  /\ pc' = "reply"
  /\ UNCHANGED <<pollFds, i, doContinue, connectionFds, backlog, timer>>

\* modbus_receive finds the stream ended (a read of 0 bytes or ECONNRESET):
\* server_handle reports is_closed and returns 0 without server_close_fd.
ReceiveConnReset ==
  /\ AtConnection
  /\ LET fd == pollFds[i].fd IN
       /\ socket[fd].open
       /\ socket[fd].data = "none"
       /\ socket[fd].peer # "open"
  /\ pollFds' = Marked(i)
  /\ i' = i + 1
  /\ UNCHANGED <<pc, doContinue, connectionFds, kernel>>

\* Faulty variant for PollFdsFit, OrderlyInv, GracefulStop and
\* ControllerKeepsRunning: is_closed is not set on this path.
ReceiveFailsUnmarked ==
  /\ AtConnection
  /\ LET fd == pollFds[i].fd IN
       /\ ~socket[fd].open \/ socket[fd].data = "broken"
       /\ ServerCloseFd(fd)
  /\ i' = i + 1
  /\ UNCHANGED <<pc, pollFds, doContinue, backlog, timer>>

\* modbus_receive fails with another error (a broken request, or EBADF for a
\* descriptor that is closed): is_closed is set and the connection closed.
ReceiveFails ==
  /\ AtConnection
  /\ LET fd == pollFds[i].fd IN
       /\ ~socket[fd].open \/ socket[fd].data = "broken"
       /\ ServerCloseFd(fd)
  /\ pollFds' = Marked(i)
  /\ i' = i + 1
  /\ UNCHANGED <<pc, doContinue, backlog, timer>>

\* In the remaining case (an open connection with nothing to read whose peer is
\* there) modbus_receive waits without a timeout, and the loop with it: none of
\* the three actions above is enabled until the client does something.

\* The send buffer of the connection has room for the answer.
ReplySucceeds ==
  /\ pc = "reply"
  /\ socket[pollFds[i].fd].peer # "rst"
  /\ pc' = "scan"
  /\ i' = i + 1
  /\ UNCHANGED <<pollFds, doContinue, connectionFds, kernel>>

\* The buffer is full of answers the client has not read: the socket blocks, and
\* the only thread waits in send.
ReplyWaits ==
  /\ pc = "reply"
  /\ socket[pollFds[i].fd].peer # "rst"
  /\ pc' = "sending"
  /\ UNCHANGED <<pollFds, i, doContinue, connectionFds, kernel>>

\* modbus_reply fails, at once or after a wait: the connection is closed, but
\* is_closed stays false and the entry stays in poll_fds.
ReplyFails ==
  /\ Replying
  /\ socket[pollFds[i].fd].peer = "rst"
  /\ ServerCloseFd(pollFds[i].fd)
  /\ pc' = "scan"
  /\ i' = i + 1
  /\ UNCHANGED <<pollFds, doContinue, backlog, timer>>

\* SIGINT finds the loop in the blocking send.  Whether the wait then goes on
\* (Interrupt) or send fails with EINTR and modbus_reply with it depends on how
\* gpioSetSignalFunc installs the handler and on the thread that takes the signal.
ReplyInterrupted ==
  /\ pc = "sending"
  /\ doContinue
  /\ doContinue' = FALSE
  /\ ServerCloseFd(pollFds[i].fd)
  /\ pc' = "scan"
  /\ i' = i + 1
  /\ UNCHANGED <<pollFds, backlog, timer>>

ScanEnds ==
  /\ pc = "scan"
  /\ i > Len(pollFds)
  /\ pc' = "sweep"
  /\ i' = 1
  /\ UNCHANGED <<pollFds, doContinue, connectionFds, kernel>>

\* Faulty variant for LiveConnectionsPolled and RequestsTaken: the length
\* shrinks, the last entry is not moved.
SweepRemoveNoSwap ==
  /\ pc = "sweep"
  /\ i <= Len(pollFds)
  /\ pollFds[i].fd < 0
  /\ pollFds' = SubSeq(pollFds, 1, Len(pollFds) - 1)
  /\ UNCHANGED <<pc, i, doContinue, connectionFds, kernel>>

\* The removal loop: the last entry takes the place of a marked one.
SweepRemove ==
  /\ pc = "sweep"
  /\ i <= Len(pollFds)
  /\ pollFds[i].fd < 0
  /\ pollFds' = RemoveAt(pollFds, i)
  /\ UNCHANGED <<pc, i, doContinue, connectionFds, kernel>>

SweepKeep ==
  /\ pc = "sweep"
  /\ i <= Len(pollFds)
  /\ pollFds[i].fd >= 0
  /\ i' = i + 1
  /\ UNCHANGED <<pc, pollFds, doContinue, connectionFds, kernel>>

\* Faulty variant for TypeOK: the next loop starts before the first entry.
SweepEndsAtZero ==
  /\ pc = "sweep"
  /\ i > Len(pollFds)
  /\ pc' = "poll"
  /\ i' = 0
  /\ UNCHANGED <<pollFds, doContinue, connectionFds, kernel>>

SweepEnds ==
  /\ pc = "sweep"
  /\ i > Len(pollFds)
  /\ pc' = "poll"
  /\ i' = 1
  /\ UNCHANGED <<pollFds, doContinue, connectionFds, kernel>>

\* Faulty variant for StoppedMeansClosed: the last connection is not closed.
StopMissesLast ==
  /\ pc = "poll"
  /\ ~doContinue
  /\ socket' = [fd \in ConnFds |->
                  IF \E k \in 1..(Len(connectionFds) - 1) : connectionFds[k] = fd
                  THEN Closed ELSE socket[fd]]
  /\ backlog' = 0
  /\ pc' = "stopped"
  /\ UNCHANGED <<pollFds, i, doContinue, connectionFds, timer>>

\* server_deinit closes the connections of the table, then the listener.
Stop ==
  /\ pc = "poll"
  /\ ~doContinue
  /\ socket' = [fd \in ConnFds |->
                  IF fd \in SeqRange(connectionFds) THEN Closed ELSE socket[fd]]
  /\ backlog' = 0
  /\ pc' = "stopped"
  /\ UNCHANGED <<pollFds, i, doContinue, connectionFds, timer>>

-----------------------------------------------------------------------------

Loop ==
  \/ Poll \/ ScanQuiet \/ ScanHangup \/ ScanTimer
  \/ ScanAccept \/ ScanRefuse \/ ScanAcceptFails
  \/ Receive \/ ReceiveConnReset \/ ReceiveFails
  \/ ReplySucceeds \/ ReplyWaits \/ ReplyFails \/ ScanEnds
  \/ SweepRemove \/ SweepKeep \/ SweepEnds \/ Stop

Next == Loop \/ ReplyInterrupted \/ Environment

Spec == Init /\ [][Next]_vars

\* The loop runs whenever it can, and the periodic timer keeps expiring.
\* Nothing is assumed of the clients: one of them may never read its answers.
FairSpec == Spec /\ WF_vars(Loop) /\ WF_vars(TimerExpires)

-----------------------------------------------------------------------------
(* Properties *)

\* The connection table holds every connection the process has open, once, and
\* nothing else, and never more of them than it has room for: no path through
\* server.c and main.c loses a descriptor or closes one that is kept.
TableMatchesKernel ==
  /\ \A j, k \in 1..Len(connectionFds) :
       connectionFds[j] = connectionFds[k] => j = k
  /\ pc # "stopped" => OpenFds = SeqRange(connectionFds)
  /\ Len(connectionFds) <= N_CONNECTIONS

\* A connection whose client is still there is in poll_fds whenever the loop
\* waits: no swap, mark or error path drops a client that is being served.
LiveConnectionsPolled ==
  pc = "poll" => \A fd \in OpenFds : socket[fd].peer = "open" => fd \in Polled

\* Once the loop has ended nothing the server accepted is left open.
StoppedMeansClosed == pc = "stopped" => OpenFds = {}

\* Every poll entry is written inside poll_fds.
PollFdsFit == pc # "undefined"

\* The inductive strengthening of PollFdsFit for clients that never reset: an
\* entry that is not marked stands for one connection of the table ("Reflect
\* connection modifications in poll_fds"), and marks live no longer than the
\* pass that made them.
NoResets == \A fd \in ConnFds : socket[fd].peer # "rst"

SystemEntries ==
  /\ Len(pollFds) >= N_FDS_SYSTEM
  /\ pollFds[1].fd = TimerFd /\ pollFds[2].fd = ListenFd

NoHangups ==
  \A k \in 1..Len(pollFds) :
    "ERR" \notin pollFds[k].revents /\ "HUP" \notin pollFds[k].revents

\* The entry of a send that SIGINT broke off stays too; no connection is accepted
\* behind it in what is left of the pass, which is the last one.
Passed(k) == ~doContinue /\ (pc = "scan" \/ Replying => k < i)

EntriesInTable ==
  \A k \in 3..Len(pollFds) :
    pollFds[k].fd >= 0 => pollFds[k].fd \in SeqRange(connectionFds) \/ Passed(k)

MarksOfThisPass ==
  \A k \in 3..Len(pollFds) :
    pollFds[k].fd < 0 => \/ ((pc = "scan" \/ Replying) /\ k < i)
                         \/ (pc = "sweep" /\ k >= i)

EntriesDistinct ==
  \A j, k \in 3..Len(pollFds) :
    pollFds[j].fd >= 0 /\ pollFds[j].fd = pollFds[k].fd => j = k

ReplyEntry == Replying => i \in 3..Len(pollFds) /\ pollFds[i].fd >= 0

OrderlyInv ==
  PollFdsFit /\ NoResets /\ SystemEntries /\ NoHangups /\ EntriesInTable
    /\ MarksOfThisPass /\ EntriesDistinct /\ ReplyEntry

\* A client is turned away ("reached maximum connection count") only when each
\* connection of the table is one the loop still serves.
RefusedOnlyWhenServing ==
  [][ScanRefuse => SeqRange(connectionFds) \subseteq Polled]_vars

Held == IF pc = "stopped" THEN {} ELSE SeqRange(connectionFds)

C == INSTANCE Connections WITH
       active <- Held, Descriptors <- ConnFds, MaxConnections <- N_CONNECTIONS

\* The table of server.c implements the abstract table of connections.
ImplementsConnections == C!Spec

\* A client takes no more answers and stays: its send, and with it the one thread
\* there is, waits for good.
HeldUp == <>[](pc = "sending")

\* A timer expiration is taken by the controller unless the program ends.  The
\* one thing clients can do about it is to hold up a send for good: no other mix
\* of requests, broken requests, hang-ups and reused descriptors does.
ControllerKeepsRunning == HeldUp \/ (timer ~> (~timer \/ pc = "stopped"))

\* A request that has arrived is read, or its connection ends, unless a send is
\* held up for good: the scan reaches each live connection, however often others
\* are removed from poll_fds.
RequestsTaken ==
  HeldUp \/
    \A fd \in ConnFds :
      (socket[fd].open /\ socket[fd].peer = "open" /\ socket[fd].data = "whole")
        ~> (socket[fd].data = "none" \/ socket[fd].peer # "open" \/ pc = "stopped")

\* After SIGINT the loop reaches its end ("Gracefully stopping"), unless a send
\* is held up for good.
GracefulStop == HeldUp \/ (~doContinue ~> pc \in {"stopped", "undefined"})
=============================================================================
