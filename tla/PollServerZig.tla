---------------------------- MODULE PollServerZig ----------------------------
(***************************************************************************)
(* The poll loop of zig/3-pid (main.zig, Server.zig).  It differs from the *)
(* one of c/3-pid in ways that matter: the listening socket is scanned     *)
(* before the timer, nothing limits the number of connections, an error of *)
(* a handler leaves the poll entry as it is (catch ... continue), and      *)
(* closeConnection panics on a descriptor it does not know.                *)
(***************************************************************************)
EXTENDS PollLoop

-----------------------------------------------------------------------------
(* Server.zig *)

Known(fd) == \E k \in 1..Len(connectionFds) : connectionFds[k] = fd

\* closeConnection on a connection of the list.
CloseConnection(fd) ==
  /\ Known(fd)
  /\ LET k == CHOOSE k \in 1..Len(connectionFds) : connectionFds[k] = fd
     IN connectionFds' = RemoveAt(connectionFds, k)
  /\ socket' = [socket EXCEPT ![fd] = Closed]

\* closeConnection on any other descriptor: "File descriptor not found".
Panic(fd) ==
  /\ ~Known(fd)
  /\ pc' = "panicked"
  /\ UNCHANGED <<pollFds, i, doContinue, connectionFds, kernel>>

-----------------------------------------------------------------------------
(* main.zig: the loop *)

Init ==
  /\ pc = "poll"
  /\ pollFds = << [fd |-> ListenFd, revents |-> {}],
                  [fd |-> TimerFd, revents |-> {}] >>
  /\ i = 1
  /\ doContinue = TRUE
  /\ connectionFds = << >>
  /\ socket = [fd \in ConnFds |-> Closed]
  /\ backlog = 0
  /\ timer = FALSE

Poll ==
  /\ pc = "poll"
  /\ doContinue
  /\ \E k \in 1..Len(pollFds) : PollEvents(pollFds[k].fd) # {}
  /\ pollFds' = [k \in 1..Len(pollFds) |->
                   [pollFds[k] EXCEPT !.revents = PollEvents(pollFds[k].fd)]]
  /\ i' = 1
  /\ pc' = "scan"
  /\ UNCHANGED <<doContinue, connectionFds, kernel>>

\* The slice scanned ends where it did when poll returned; the entries added
\* since have no events and pass here.
ScanQuiet ==
  /\ AtEntry
  /\ ~HangsUp /\ ~Reports("IN")
  /\ i' = i + 1
  /\ UNCHANGED <<pc, pollFds, doContinue, connectionFds, kernel>>

\* POLLERR or POLLHUP: marked and closed; POLLIN is not looked at.
ScanHangup ==
  /\ AtEntry
  /\ HangsUp
  /\ pollFds' = Marked(i)
  /\ CloseConnection(pollFds[i].fd)
  /\ i' = i + 1
  /\ UNCHANGED <<pc, doContinue, backlog, timer>>

ScanHangupPanics == AtEntry /\ HangsUp /\ Panic(pollFds[i].fd)

ScanTimer ==
  /\ AtEntry
  /\ ~HangsUp /\ Reports("IN")
  /\ pollFds[i].fd = TimerFd
  /\ timer' = FALSE
  /\ i' = i + 1
  /\ UNCHANGED <<pc, pollFds, doContinue, connectionFds, socket, backlog>>

AtListener ==
  /\ AtEntry
  /\ ~HangsUp /\ Reports("IN")
  /\ pollFds[i].fd = ListenFd
  /\ backlog > 0

\* handle on the listening socket: the list of connections grows as needed, and
\* main.zig takes the room in poll_fds for granted (addOneAssumeCapacity).
ScanAccept ==
  /\ AtListener
  /\ backlog' = backlog - 1
  /\ \E fd \in ConnFds :
       /\ IsNextFd(fd)
       /\ socket' = [socket EXCEPT ![fd] = Fresh]
       /\ connectionFds' = Append(connectionFds, fd)
       /\ IF Len(pollFds) < N_FDS_MAX
          THEN /\ pollFds' = Append(pollFds, [fd |-> fd, revents |-> {}])
               /\ pc' = pc
          ELSE /\ pollFds' = pollFds
               /\ pc' = "undefined"
  /\ i' = i + 1
  /\ UNCHANGED <<doContinue, timer>>

\* accept fails; without a descriptor left the client stays in the queue.
ScanAcceptFails ==
  /\ AtListener
  /\ backlog' = IF OpenFds = ConnFds THEN backlog ELSE backlog - 1
  /\ i' = i + 1
  /\ UNCHANGED <<pc, pollFds, doContinue, connectionFds, socket, timer>>

AtConnection ==
  /\ AtEntry
  /\ ~HangsUp /\ Reports("IN")
  /\ pollFds[i].fd \notin {TimerFd, ListenFd}

Receive ==
  /\ AtConnection
  /\ LET fd == pollFds[i].fd IN
       /\ socket[fd].open
       /\ socket[fd].data = "whole"
       /\ socket' = [socket EXCEPT ![fd].data = "none"]
  /\ pc' = "reply"
  /\ UNCHANGED <<pollFds, i, doContinue, connectionFds, backlog, timer>>

\* Faulty variant for TableMatchesSockets: the connection is closed behind the
\* back of the list.
ReceiveConnResetCloses ==
  /\ AtConnection
  /\ LET fd == pollFds[i].fd IN
       /\ socket[fd].open
       /\ socket[fd].data = "none"
       /\ socket[fd].peer # "open"
       /\ socket' = [socket EXCEPT ![fd] = Closed]
  /\ pollFds' = Marked(i)
  /\ i' = i + 1
  /\ UNCHANGED <<pc, doContinue, connectionFds, backlog, timer>>

\* .CONNRESET: .closed is an ordinary result, so errdefer does not run and the
\* connection stays open and in the list; the entry is marked.
ReceiveConnReset ==
  /\ AtConnection
  /\ LET fd == pollFds[i].fd IN
       /\ socket[fd].open
       /\ socket[fd].data = "none"
       /\ socket[fd].peer # "open"
  /\ pollFds' = Marked(i)
  /\ i' = i + 1
  /\ UNCHANGED <<pc, doContinue, connectionFds, kernel>>

ReceiveError ==
  /\ AtConnection
  /\ LET fd == pollFds[i].fd
     IN ~socket[fd].open \/ socket[fd].data = "broken"

\* Another error: errdefer closes the connection, and main.zig goes on to the
\* next entry without marking this one.
ReceiveFails ==
  /\ ReceiveError
  /\ CloseConnection(pollFds[i].fd)
  /\ i' = i + 1
  /\ UNCHANGED <<pc, pollFds, doContinue, backlog, timer>>

ReceiveFailsPanics == ReceiveError /\ Panic(pollFds[i].fd)

\* The send buffer of the connection has room for the answer.
ReplySucceeds ==
  /\ pc = "reply"
  /\ socket[pollFds[i].fd].peer # "rst"
  /\ pc' = "scan"
  /\ i' = i + 1
  /\ UNCHANGED <<pollFds, doContinue, connectionFds, kernel>>

\* The buffer is full: the only thread waits in the blocking send.
ReplyWaits ==
  /\ pc = "reply"
  /\ socket[pollFds[i].fd].peer # "rst"
  /\ pc' = "sending"
  /\ UNCHANGED <<pollFds, i, doContinue, connectionFds, kernel>>

\* The same path as ReceiveFails, for modbus_reply, at once or after a wait.
ReplyFails ==
  /\ Replying
  /\ socket[pollFds[i].fd].peer = "rst"
  /\ CloseConnection(pollFds[i].fd)
  /\ pc' = "scan"
  /\ i' = i + 1
  /\ UNCHANGED <<pollFds, doContinue, backlog, timer>>

ScanEnds ==
  /\ pc = "scan"
  /\ i > Len(pollFds)
  /\ pc' = "sweep"
  /\ i' = 1
  /\ UNCHANGED <<pollFds, doContinue, connectionFds, kernel>>

\* Faulty variant for LiveConnectionsPolled: the popped entry is dropped.
SweepRemoveNoSwap ==
  /\ pc = "sweep"
  /\ i <= Len(pollFds)
  /\ pollFds[i].fd < 0
  /\ pollFds' = SubSeq(pollFds, 1, Len(pollFds) - 1)
  /\ UNCHANGED <<pc, i, doContinue, connectionFds, kernel>>

SweepRemove ==
  /\ pc = "sweep"
  /\ i <= Len(pollFds)
  /\ pollFds[i].fd < 0
  /\ pollFds' = RemoveAt(pollFds, i)
  /\ UNCHANGED <<pc, i, doContinue, connectionFds, kernel>>

SweepKeep ==
  /\ pc = "sweep"
  /\ i <= Len(pollFds)
  /\ pollFds[i].fd >= 0
  /\ i' = i + 1
  /\ UNCHANGED <<pc, pollFds, doContinue, connectionFds, kernel>>

\* Faulty variant for TypeOK: the next scan starts before the first entry.
SweepEndsAtZero ==
  /\ pc = "sweep"
  /\ i > Len(pollFds)
  /\ pc' = "poll"
  /\ i' = 0
  /\ UNCHANGED <<pollFds, doContinue, connectionFds, kernel>>

SweepEnds ==
  /\ pc = "sweep"
  /\ i > Len(pollFds)
  /\ pc' = "poll"
  /\ i' = 1
  /\ UNCHANGED <<pollFds, doContinue, connectionFds, kernel>>

\* Faulty variant for StoppedMeansClosed: only the list is given up.
StopForgets ==
  /\ pc = "poll"
  /\ ~doContinue
  /\ backlog' = 0
  /\ pc' = "stopped"
  /\ UNCHANGED <<pollFds, i, doContinue, connectionFds, socket, timer>>

\* deinit of the server.
Stop ==
  /\ pc = "poll"
  /\ ~doContinue
  /\ socket' = [fd \in ConnFds |->
                  IF fd \in SeqRange(connectionFds) THEN Closed ELSE socket[fd]]
  /\ backlog' = 0
  /\ pc' = "stopped"
  /\ UNCHANGED <<pollFds, i, doContinue, connectionFds, timer>>

-----------------------------------------------------------------------------

Loop ==
  \/ Poll \/ ScanQuiet \/ ScanHangup \/ ScanHangupPanics \/ ScanTimer
  \/ ScanAccept \/ ScanAcceptFails
  \/ Receive \/ ReceiveConnReset \/ ReceiveFails \/ ReceiveFailsPanics
  \/ ReplySucceeds \/ ReplyWaits \/ ReplyFails \/ ScanEnds
  \/ SweepRemove \/ SweepKeep \/ SweepEnds \/ Stop

Next == Loop \/ Environment

Spec == Init /\ [][Next]_vars

-----------------------------------------------------------------------------
(* Properties *)

\* The list of connections holds every connection the process has open, once,
\* and nothing else, on every path of Server.zig.
TableMatchesSockets ==
  /\ \A j, k \in 1..Len(connectionFds) :
       connectionFds[j] = connectionFds[k] => j = k
  /\ pc # "stopped" => OpenFds = SeqRange(connectionFds)

\* A connection whose client is still there is in poll_fds whenever the loop
\* waits, whatever was swapped or marked before.
LiveConnectionsPolled ==
  pc = "poll" => \A fd \in OpenFds : socket[fd].peer = "open" => fd \in Polled

\* Once the loop has ended nothing the server accepted is left open.
StoppedMeansClosed == pc = "stopped" => OpenFds = {}

\* closeConnection is asked only for connections of the list ("File descriptor
\* not found" panics).
ClosesOnlyKnown == pc # "panicked"
=============================================================================
