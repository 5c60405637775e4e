------------------------ MODULE PollServerZig_proofs ------------------------
(***************************************************************************)
(* Proofs about PollServerZig, for every room in poll_fds, every set of    *)
(* descriptors and every behaviour of the clients.                         *)
(***************************************************************************)
EXTENDS PollServerZig, Operators_proofs

-----------------------------------------------------------------------------
(* Type correctness *)

Entry == [fd : Int, revents : SUBSET Revents]

\* closeConnection leaves a list and a set of sockets of the right types.
LEMMA CloseConnectionType ==
  ASSUME TypeOK, NEW fd, CloseConnection(fd)
  PROVE  connectionFds' \in Seq(ConnFds) /\ socket' \in [ConnFds -> Socket]
<1> DEFINE k == CHOOSE k \in 1..Len(connectionFds) : connectionFds[k] = fd
<1>1. k \in 1..Len(connectionFds)
  BY DEF CloseConnection, Known
<1>2. connectionFds' = RemoveAt(connectionFds, k)
      /\ socket' = [socket EXCEPT ![fd] = Closed]
  BY DEF CloseConnection
<1>3. connectionFds' \in Seq(ConnFds)
  BY <1>1, <1>2, RemoveAtType DEF TypeOK
<1> QED
  BY <1>2, <1>3 DEF TypeOK, Socket, Closed

\* What marking an entry of poll_fds does to it, and to no other.
LEMMA MarkedEffect ==
  ASSUME TypeOK, NEW k \in 1..Len(pollFds)
  PROVE  /\ Marked(k) \in Seq(Entry)
         /\ Len(Marked(k)) = Len(pollFds)
         /\ \A j \in 1..Len(pollFds) : j # k => Marked(k)[j].fd = pollFds[j].fd
<1>1. Marked(k) = [pollFds EXCEPT ![k].fd = -pollFds[k].fd]
  BY Zenon DEF Marked
<1>2. Marked(k) \in Seq([fd : Int, revents : SUBSET Revents])
  BY <1>1, MarkEffect DEF TypeOK
<1>3. Len(Marked(k)) = Len(pollFds)
  BY <1>1, MarkEffect DEF TypeOK
<1>4. \A j \in 1..Len(pollFds) : j # k => Marked(k)[j].fd = pollFds[j].fd
  BY <1>1, MarkEffect DEF TypeOK
<1> QED
  BY <1>2, <1>3, <1>4, Zenon DEF Entry

\* poll(2) writes the events of each entry and leaves its descriptor alone.
LEMMA PollEffect ==
  ASSUME TypeOK, Poll
  PROVE  /\ pollFds' \in Seq(Entry)
         /\ Len(pollFds') = Len(pollFds)
         /\ \A k \in 1..Len(pollFds) : pollFds'[k].fd = pollFds[k].fd
<1> DEFINE e(k) == [pollFds[k] EXCEPT !.revents = PollEvents(pollFds[k].fd)]
<1>1. ASSUME NEW k \in 1..Len(pollFds)
      PROVE  e(k) \in Entry /\ e(k).fd = pollFds[k].fd
  <2>1. pollFds[k] \in Entry
    BY ElementOfSeq DEF TypeOK, Entry
  <2>2. PollEvents(pollFds[k].fd) \in SUBSET Revents
    BY DEF PollEvents, Revents
  <2> QED
    BY <2>1, <2>2 DEF Entry
<1>2. pollFds' = [k \in 1..Len(pollFds) |-> e(k)] /\ Len(pollFds) \in Nat
  BY DEF Poll, TypeOK
<1> HIDE DEF e
<1>3. pollFds' \in Seq(Entry)
  BY <1>1, <1>2
<1> QED
  BY <1>1, <1>2, <1>3

\* An entry added at the end of poll_fds leaves the others where they are.
LEMMA AppendEffect ==
  ASSUME TypeOK, NEW fd \in ConnFds,
         pollFds' = Append(pollFds, [fd |-> fd, revents |-> {}])
  PROVE  /\ pollFds' \in Seq(Entry)
         /\ Len(pollFds') = Len(pollFds) + 1 /\ Len(pollFds) \in Nat
         /\ \A k \in 1..Len(pollFds) : pollFds'[k] = pollFds[k]
         /\ pollFds'[Len(pollFds) + 1].fd = fd
<1> DEFINE e == [fd |-> fd, revents |-> {}]
<1>1. e \in Entry /\ e.fd = fd
  BY FdAssumption DEF Entry
<1> HIDE DEF e
<1>2. pollFds' = Append(pollFds, e)
  BY DEF e
<1>3. pollFds \in Seq(Entry)
  BY DEF TypeOK, Entry
<1> QED
  BY <1>1, <1>2, <1>3

\* The state the loop starts from has the right types.
LEMMA InitType == Init => TypeOK
<1> SUFFICES ASSUME Init PROVE TypeOK
  OBVIOUS
<1>1. pollFds \in Seq([fd : Int, revents : SUBSET Revents])
  <2>1. /\ [fd |-> TimerFd, revents |-> {}] \in [fd : Int, revents : SUBSET Revents]
        /\ [fd |-> ListenFd, revents |-> {}] \in [fd : Int, revents : SUBSET Revents]
    BY FdAssumption
  <2> QED
    BY <2>1 DEF Init
<1>2. socket \in [ConnFds -> Socket]
  BY DEF Init, Closed, Socket
<1>3. doContinue \in BOOLEAN /\ timer \in BOOLEAN
  BY Zenon DEF Init
<1>4. connectionFds \in Seq(ConnFds) /\ i \in Nat \ {0} /\ backlog \in 0..MaxBacklog
  BY EnvAssumption DEF Init
<1> QED
  BY <1>1, <1>2, <1>3, <1>4 DEF Init, TypeOK

\* The variables of the loop keep their types in every behaviour.
THEOREM TypeCorrect == Spec => []TypeOK
<1>1. Init => TypeOK
  BY InitType
<1>2. TypeOK /\ [Next]_vars => TypeOK'
  <2> SUFFICES ASSUME TypeOK, [Next]_vars PROVE TypeOK'
    OBVIOUS
  <2> USE DEF TypeOK
  <2>1. CASE Poll
    <3>1. pollFds' \in Seq([fd : Int, revents : SUBSET Revents])
      BY <2>1, PollEffect DEF Entry
    <3>2. UNCHANGED <<doContinue, connectionFds, socket, backlog, timer>>
      BY <2>1 DEF Poll, kernel
    <3>3. i' \in Nat \ {0} /\ pc' = "scan"
      BY <2>1 DEF Poll
    <3> QED
      BY <3>1, <3>2, <3>3
  <2>2. CASE ScanQuiet
    BY <2>2 DEF ScanQuiet, kernel
  <2>3. CASE ScanHangup
    BY <2>3, CloseConnectionType, MarkedEffect DEF ScanHangup, AtEntry, Entry
  <2>4. CASE ScanHangupPanics \/ ReceiveFailsPanics
    BY <2>4 DEF ScanHangupPanics, ReceiveFailsPanics, Panic, kernel
  <2>5. CASE ScanTimer
    <3>1. i' \in Nat \ {0}
      BY <2>5 DEF ScanTimer
    <3>2. timer' \in BOOLEAN
      BY <2>5, Zenon DEF ScanTimer
    <3> QED
      BY <2>5, <3>1, <3>2 DEF ScanTimer
  <2>6. CASE ScanAccept
    <3>1. PICK fd \in ConnFds :
            /\ socket' = [socket EXCEPT ![fd] = Fresh]
            /\ connectionFds' = Append(connectionFds, fd)
            /\ \/ pollFds' = Append(pollFds, [fd |-> fd, revents |-> {}]) /\ pc' = pc
               \/ pollFds' = pollFds /\ pc' = "undefined"
      BY <2>6 DEF ScanAccept
    <3>2. connectionFds' \in Seq(ConnFds)
      BY <3>1
    <3>3. pollFds' \in Seq([fd : Int, revents : SUBSET Revents])
      BY <3>1, AppendEffect DEF Entry
    <3>4. socket' \in [ConnFds -> Socket]
      BY <3>1 DEF Socket, Fresh
    <3>5. backlog' \in 0..MaxBacklog
      BY <2>6, EnvAssumption DEF ScanAccept, AtListener
    <3> QED
      BY <2>6, <3>1, <3>2, <3>3, <3>4, <3>5 DEF ScanAccept
  <2>7. CASE ScanAcceptFails
    BY <2>7, EnvAssumption DEF ScanAcceptFails, AtListener
  <2>8. CASE Receive
    BY <2>8 DEF Receive, Socket
  <2>9. CASE ReceiveConnReset
    BY <2>9, MarkedEffect DEF ReceiveConnReset, AtConnection, AtEntry, kernel, Entry
  <2>10. CASE ReceiveFails
    BY <2>10, CloseConnectionType DEF ReceiveFails
  <2>11. CASE ReplySucceeds
    BY <2>11 DEF ReplySucceeds, kernel
  <2>12. CASE ReplyFails
    BY <2>12, CloseConnectionType DEF ReplyFails
  <2>13. CASE ScanEnds
    BY <2>13 DEF ScanEnds, kernel
  <2>14. CASE SweepRemove
    BY <2>14, RemoveAtType DEF SweepRemove, kernel
  <2>15. CASE SweepKeep
    BY <2>15 DEF SweepKeep, kernel
  <2>16. CASE SweepEnds
    BY <2>16 DEF SweepEnds, kernel
  <2>17. CASE Stop
    BY <2>17, EnvAssumption DEF Stop, Closed, Socket
  <2>18. CASE Interrupt
    BY <2>18 DEF Interrupt, kernel
  <2>19. CASE TimerExpires
    BY <2>19 DEF TimerExpires
  <2>20. CASE ClientConnects
    BY <2>20, EnvAssumption DEF ClientConnects
  <2>21. ASSUME NEW fd \in ConnFds, ClientSends(fd)
         PROVE  TypeOK'
    BY <2>21, EnvAssumption DEF ClientSends, Socket
  <2>22. ASSUME NEW fd \in ConnFds, ClientEnds(fd)
         PROVE  TypeOK'
    BY <2>22, EnvAssumption DEF ClientEnds, Socket
  <2>23. CASE UNCHANGED vars
    BY <2>23 DEF vars
  <2>24. CASE ReplyWaits
    BY <2>24 DEF ReplyWaits, kernel
  <2>25. CASE ClientReads
    BY <2>25 DEF ClientReads, kernel
  <2> QED
    BY <2>1, <2>2, <2>3, <2>4, <2>5, <2>6, <2>7, <2>8, <2>9, <2>10, <2>11, <2>12,
       <2>13, <2>14, <2>15, <2>16, <2>17, <2>18, <2>19, <2>20, <2>21, <2>22, <2>23,
       <2>24, <2>25 DEF Next, Loop, Environment
<1> QED
  BY <1>1, <1>2, PTL DEF Spec

-----------------------------------------------------------------------------
(* The list of connections *)

Distinct(s) == \A j, k \in 1..Len(s) : s[j] = s[k] => j = k

\* TableMatchesSockets while the program runs.
Table ==
  /\ Distinct(connectionFds)
  /\ OpenFds = SeqRange(connectionFds)

\* closeConnection takes out of the list what it closes, and nothing else.
LEMMA CloseConnectionKeepsTable ==
  ASSUME TypeOK, Table, NEW fd, CloseConnection(fd)
  PROVE  /\ Table'
         /\ \A g \in ConnFds : socket'[g].open => g # fd /\ socket'[g] = socket[g]
<1> DEFINE k == CHOOSE k \in 1..Len(connectionFds) : connectionFds[k] = fd
<1>1. k \in 1..Len(connectionFds) /\ connectionFds[k] = fd
  BY DEF CloseConnection, Known
<1>2. connectionFds' = RemoveAt(connectionFds, k)
      /\ socket' = [socket EXCEPT ![fd] = Closed]
  BY DEF CloseConnection
<1>3. connectionFds \in Seq(ConnFds) /\ fd \in ConnFds
  BY <1>1 DEF TypeOK
<1> HIDE DEF k
<1>4. /\ SeqRange(connectionFds') = SeqRange(connectionFds) \ {fd}
      /\ Distinct(connectionFds)'
  <2>1. Len(RemoveAt(connectionFds, k)) = Len(connectionFds) - 1
    BY <1>1, <1>3, RemoveAtType
  <2>2. \A j, l \in 1..Len(connectionFds) : connectionFds[j] = connectionFds[l] => j = l
    BY DEF Table, Distinct
  <2>3. /\ SeqRange(RemoveAt(connectionFds, k)) = SeqRange(connectionFds) \ {connectionFds[k]}
        /\ \A j, l \in 1..(Len(connectionFds) - 1) :
             RemoveAt(connectionFds, k)[j] = RemoveAt(connectionFds, k)[l] => j = l
    BY <1>1, <1>3, <2>2, RemoveAtRange
  <2> QED
    BY <1>1, <1>2, <2>1, <2>3 DEF Distinct
<1>5. OpenFds' = OpenFds \ {fd}
  BY <1>2, <1>3 DEF OpenFds, TypeOK, Closed
<1>6. \A g \in ConnFds : socket'[g].open => g # fd /\ socket'[g] = socket[g]
  BY <1>2, <1>3 DEF TypeOK, Closed
<1> QED
  BY <1>4, <1>5, <1>6 DEF Table

\* A step that opens and closes no socket and leaves the list alone keeps it.
LEMMA SameSocketsKeepTable ==
  ASSUME Table, connectionFds' = connectionFds,
         \A fd \in ConnFds : socket'[fd].open = socket[fd].open
  PROVE  Table'
BY DEF Table, OpenFds, Distinct, SeqRange

\* The list holds exactly the open connections, each once, in every behaviour, with
\* or without a limit on their number.
THEOREM TableCorrect == Spec => []TableMatchesSockets
<1> DEFINE Inv == (pc # "stopped" => Table) /\ Distinct(connectionFds)
<1>1. Init => Inv
  <2> SUFFICES ASSUME Init PROVE Table
    BY DEF Table
  <2>1. Len(connectionFds) = 0
    BY DEF Init
  <2> QED
    BY <2>1 DEF Init, OpenFds, Closed, SeqRange, Table, Distinct
<1>2. TypeOK /\ Inv /\ [Next]_vars => Inv'
  <2> SUFFICES ASSUME TypeOK, Inv, [Next]_vars PROVE Inv'
    OBVIOUS
  <2>1. ASSUME Table' PROVE Inv'
    BY <2>1 DEF Table
  <2>2. ASSUME pc # "stopped", connectionFds' = connectionFds, socket' = socket
        PROVE  Inv'
    BY <2>1, <2>2, SameSocketsKeepTable
  <2>3. ASSUME pc # "stopped", NEW fd, CloseConnection(fd)
        PROVE  Inv'
    BY <2>1, <2>3, CloseConnectionKeepsTable
  <2>4. CASE Poll \/ ScanQuiet \/ ScanTimer \/ ScanAcceptFails \/ ReceiveConnReset
    BY <2>2, <2>4 DEF Poll, ScanQuiet, ScanTimer, ScanAcceptFails, ReceiveConnReset,
       AtListener, AtConnection, AtEntry, kernel
  <2>5. CASE ScanHangupPanics \/ ReceiveFailsPanics
    BY <2>2, <2>5 DEF ScanHangupPanics, ReceiveFailsPanics, ReceiveError, AtConnection,
       AtEntry, Panic, kernel
  <2>6. CASE ReplySucceeds \/ ReplyWaits \/ ClientReads \/ ScanEnds \/ SweepRemove
               \/ SweepKeep \/ SweepEnds
    BY <2>2, <2>6 DEF ReplySucceeds, ReplyWaits, ClientReads, ScanEnds, SweepRemove,
       SweepKeep, SweepEnds, kernel
  <2>7. CASE ScanHangup \/ ReplyFails
    BY <2>3, <2>7 DEF ScanHangup, ReplyFails, Replying, AtEntry
  <2>8. CASE ReceiveFails
    BY <2>3, <2>8 DEF ReceiveFails, ReceiveError, AtConnection, AtEntry
  <2>9. CASE ScanAccept
    <3>1. PICK fd \in ConnFds :
            /\ fd \notin OpenFds
            /\ socket' = [socket EXCEPT ![fd] = Fresh]
            /\ connectionFds' = Append(connectionFds, fd)
      BY <2>9 DEF ScanAccept, IsNextFd
    <3>2. Table
      BY <2>9 DEF ScanAccept, AtListener, AtEntry
    <3>3. connectionFds \in Seq(ConnFds)
      BY DEF TypeOK
    <3>4. /\ Len(connectionFds') = Len(connectionFds) + 1 /\ Len(connectionFds) \in Nat
          /\ \A k \in 1..Len(connectionFds) : connectionFds'[k] = connectionFds[k]
          /\ connectionFds'[Len(connectionFds) + 1] = fd
      BY <3>1, <3>3
    <3>5. SeqRange(connectionFds') = SeqRange(connectionFds) \cup {fd}
      BY <3>4 DEF SeqRange
    <3>6. OpenFds' = OpenFds \cup {fd}
      BY <3>1 DEF OpenFds, TypeOK, Fresh
    <3>7. Distinct(connectionFds)'
      <4>1. \A k \in 1..Len(connectionFds) : connectionFds[k] # fd
        BY <3>1, <3>2 DEF Table, SeqRange
      <4> QED
        BY <3>2, <3>4, <4>1 DEF Table, Distinct
    <3> QED
      BY <2>1, <3>2, <3>5, <3>6, <3>7 DEF Table
  <2>10. CASE Receive
    <3>1. \A fd \in ConnFds : socket'[fd].open = socket[fd].open
      BY <2>10 DEF Receive, TypeOK, Socket
    <3> QED
      BY <2>1, <2>10, <3>1, SameSocketsKeepTable DEF Receive, AtConnection, AtEntry
  <2>11. CASE Stop
    BY <2>11 DEF Stop, Table, Distinct
  <2>12. CASE Interrupt \/ TimerExpires \/ ClientConnects \/ UNCHANGED vars
    BY <2>2, <2>12 DEF Interrupt, TimerExpires, ClientConnects, Alive, vars, kernel,
       Distinct, Table
  <2>13. ASSUME NEW fd \in ConnFds, ClientSends(fd) \/ ClientEnds(fd)
         PROVE  Inv'
    <3>1. pc # "stopped" /\ connectionFds' = connectionFds
      BY <2>13 DEF ClientSends, ClientEnds, Alive
    <3>2. \A g \in ConnFds : socket'[g].open = socket[g].open
      BY <2>13 DEF ClientSends, ClientEnds, TypeOK, Socket
    <3> QED
      BY <2>1, <3>1, <3>2, SameSocketsKeepTable
  <2> QED
    BY <2>4, <2>5, <2>6, <2>7, <2>8, <2>9, <2>10, <2>11, <2>12, <2>13
       DEF Next, Loop, Environment
<1>3. Inv => TableMatchesSockets
  BY DEF Table, Distinct, TableMatchesSockets
<1> QED
  BY <1>1, <1>2, <1>3, TypeCorrect, PTL DEF Spec

-----------------------------------------------------------------------------
(* Live connections are polled *)

\* LiveConnectionsPolled at every point of the loop, not only where it waits:
\* the inductive form.
Live == \A fd \in OpenFds : socket[fd].peer = "open" => fd \in Polled

\* Whatever clients do, and however entries are marked, swapped and appended, a
\* connection whose client is still there is in poll_fds (LiveConnectionsPolled);
\* only the write beyond poll_fds ends this.
THEOREM LivePolled == Spec => []LiveConnectionsPolled
<1> DEFINE Inv == pc # "undefined" => Live
<1>1. Init => Inv
  BY DEF Init, Live, OpenFds, Closed
<1>2. TypeOK /\ TypeOK' /\ TableMatchesSockets /\ Inv /\ [Next]_vars => Inv'
  <2> SUFFICES ASSUME TypeOK, TypeOK', TableMatchesSockets, Inv, [Next]_vars PROVE Inv'
    OBVIOUS
  <2>1. pc # "stopped" => Table
    BY DEF TableMatchesSockets, Table, Distinct
  <2>2. \A k \in 1..Len(pollFds) : pollFds[k].fd \in Int
    <3> SUFFICES ASSUME NEW k \in 1..Len(pollFds) PROVE pollFds[k].fd \in Int
      OBVIOUS
    <3>1. pollFds[k] \in Entry
      BY ElementOfSeq DEF TypeOK, Entry
    <3> QED
      BY <3>1 DEF Entry
  \* Steps that keep the entries and open no connection.
  <2>3. ASSUME pc # "undefined", Polled \subseteq Polled',
               \A g \in ConnFds : socket'[g].open /\ socket'[g].peer = "open" =>
                                 socket[g].open /\ socket[g].peer = "open"
        PROVE  Inv'
    BY <2>3 DEF Live, OpenFds
  \* Steps that mark the entry under the scan, whose connection is closed or left
  \* by its client.
  <2>4. ASSUME AtEntry, pollFds' = Marked(i),
               \A g \in ConnFds : socket'[g].open /\ socket'[g].peer = "open" =>
                                 /\ socket[g].open /\ socket[g].peer = "open"
                                 /\ g # pollFds[i].fd
        PROVE  Inv'
    <3>1. i \in 1..Len(pollFds) /\ pc # "undefined"
      BY <2>4 DEF AtEntry, TypeOK
    <3>2. /\ Len(pollFds') = Len(pollFds)
          /\ \A j \in 1..Len(pollFds) : j # i => pollFds'[j].fd = pollFds[j].fd
      BY <2>4, <3>1, MarkedEffect
    <3>3. Polled \ {pollFds[i].fd} \subseteq Polled'
      BY <3>2 DEF Polled
    <3> QED
      BY <2>4, <3>1, <3>3 DEF Live, OpenFds
  <2>5. CASE Poll
    <3>1. Polled' = Polled
      <4>3. Len(pollFds') = Len(pollFds)
            /\ \A k \in 1..Len(pollFds) : pollFds'[k].fd = pollFds[k].fd
        BY <2>5, PollEffect
      <4> QED
        BY <4>3 DEF Polled
    <3> QED
      BY <2>3, <2>5, <3>1 DEF Poll, kernel
  <2>6. CASE ScanQuiet \/ ScanTimer \/ ScanAcceptFails
    BY <2>3, <2>6 DEF ScanQuiet, ScanTimer, ScanAcceptFails, AtListener,
       AtEntry, kernel, Polled
  <2>7. CASE ScanHangup
    <3>1. AtEntry /\ Table /\ CloseConnection(pollFds[i].fd) /\ pollFds' = Marked(i)
      BY <2>1, <2>7 DEF ScanHangup, AtEntry
    <3> QED
      BY <2>4, <3>1, CloseConnectionKeepsTable
  <2>8. CASE ScanAccept
    <3>1. PICK fd \in ConnFds :
            /\ socket' = [socket EXCEPT ![fd] = Fresh]
            /\ \/ pollFds' = Append(pollFds, [fd |-> fd, revents |-> {}])
               \/ pc' = "undefined"
      BY <2>8 DEF ScanAccept
    <3>2. CASE pollFds' = Append(pollFds, [fd |-> fd, revents |-> {}])
      <4>4. /\ Len(pollFds') = Len(pollFds) + 1 /\ Len(pollFds) \in Nat
            /\ \A k \in 1..Len(pollFds) : pollFds'[k] = pollFds[k]
            /\ pollFds'[Len(pollFds) + 1].fd = fd
        BY <3>2, AppendEffect
      <4>5. Polled \subseteq Polled' /\ fd \in Polled'
        BY <4>4 DEF Polled
      <4>6. \A g \in ConnFds : g # fd => socket'[g] = socket[g]
        BY <3>1 DEF TypeOK
      <4>7. pc # "undefined"
        BY <2>8 DEF ScanAccept, AtListener, AtEntry
      <4> QED
        BY <4>5, <4>6, <4>7 DEF Live, OpenFds
    <3> QED
      BY <3>1, <3>2
  <2>9. CASE Receive
    <3>1. pc # "undefined" /\ pollFds' = pollFds
      BY <2>9 DEF Receive, AtConnection, AtEntry
    <3>2. \A g \in ConnFds : socket'[g].open = socket[g].open /\ socket'[g].peer = socket[g].peer
      BY <2>9 DEF Receive, TypeOK, Socket
    <3> QED
      BY <2>3, <3>1, <3>2 DEF Polled
  <2>10. CASE ReceiveConnReset
    BY <2>4, <2>10 DEF ReceiveConnReset, AtConnection, kernel
  <2>11. CASE ReceiveFails \/ ReplyFails
    <3>1. Table /\ CloseConnection(pollFds[i].fd) /\ pollFds' = pollFds /\ pc # "undefined"
      BY <2>1, <2>11 DEF ReceiveFails, ReceiveError, AtConnection, AtEntry, ReplyFails,
         Replying
    <3> QED
      BY <2>3, <3>1, CloseConnectionKeepsTable DEF Polled
  <2>12. CASE ReplySucceeds \/ ReplyWaits \/ ClientReads \/ ScanEnds \/ SweepKeep \/ SweepEnds
    BY <2>3, <2>12 DEF ReplySucceeds, ReplyWaits, ClientReads, ScanEnds, SweepKeep, SweepEnds,
       kernel, Polled
  <2>13. CASE ScanHangupPanics \/ ReceiveFailsPanics
    BY <2>3, <2>13 DEF ScanHangupPanics, ReceiveFailsPanics, ReceiveError, AtConnection,
       AtEntry, Panic, kernel, Polled
  <2>14. CASE SweepRemove
    <3>1. i \in 1..Len(pollFds) /\ pollFds[i].fd < 0 /\ pollFds' = RemoveAt(pollFds, i)
          /\ socket' = socket /\ pc # "undefined"
      BY <2>14 DEF SweepRemove, kernel, TypeOK
    <3>2. /\ Len(pollFds') = Len(pollFds) - 1 /\ Len(pollFds) \in Nat
          /\ \A j \in 1..(Len(pollFds) - 1) :
               pollFds'[j] = IF j = i THEN pollFds[Len(pollFds)] ELSE pollFds[j]
      <4> DEFINE R == [fd : Int, revents : SUBSET Revents]
      <4>1. pollFds \in Seq(R) /\ i \in 1..Len(pollFds)
        BY <3>1 DEF TypeOK
      <4> HIDE DEF R
      <4>2. /\ Len(RemoveAt(pollFds, i)) = Len(pollFds) - 1 /\ Len(pollFds) \in Nat
            /\ \A j \in 1..(Len(pollFds) - 1) :
                 RemoveAt(pollFds, i)[j] = IF j = i THEN pollFds[Len(pollFds)] ELSE pollFds[j]
        <5>1. Len(pollFds) \in Nat
          BY <4>1
        <5> QED
          BY ONLY <4>1, <5>1, RemoveAtType
      <4> QED
        BY <3>1, <4>2
    <3>3. Polled \ {pollFds[i].fd} \subseteq Polled'
      <4> SUFFICES ASSUME NEW k \in 1..Len(pollFds), k # i
                   PROVE  pollFds[k].fd \in Polled'
        BY DEF Polled
      <4>1. CASE k = Len(pollFds)
        <5>1. i \in 1..Len(pollFds') /\ pollFds'[i] = pollFds[k]
          BY <3>1, <3>2, <4>1
        <5> QED
          BY <5>1 DEF Polled
      <4>2. CASE k # Len(pollFds)
        <5>1. k \in 1..Len(pollFds') /\ pollFds'[k] = pollFds[k]
          BY <3>1, <3>2, <4>2
        <5> QED
          BY <5>1 DEF Polled
      <4> QED
        BY <4>1, <4>2
    <3>4. pollFds[i].fd \notin ConnFds
      BY <2>2, <3>1, FdAssumption
    <3> QED
      BY <3>1, <3>3, <3>4 DEF Live, OpenFds
  <2>15. CASE Stop
    BY <2>3, <2>15 DEF Stop, Polled, Closed
  <2>16. CASE Interrupt \/ TimerExpires \/ ClientConnects
    BY <2>3, <2>16 DEF Interrupt, TimerExpires, ClientConnects, Alive, kernel, Polled
  <2>17. ASSUME NEW fd \in ConnFds, ClientSends(fd) \/ ClientEnds(fd)
         PROVE  Inv'
    <3>1. pc # "undefined" /\ pollFds' = pollFds
      BY <2>17 DEF ClientSends, ClientEnds, Alive
    <3>2. \A g \in ConnFds : socket'[g].open /\ socket'[g].peer = "open" =>
                             socket[g].open /\ socket[g].peer = "open"
      BY <2>17, EnvAssumption DEF ClientSends, ClientEnds, TypeOK, Socket
    <3> QED
      BY <2>3, <3>1, <3>2 DEF Polled
  <2>18. CASE UNCHANGED vars
    BY <2>18 DEF vars, Live, OpenFds, Polled
  <2> QED
    BY <2>5, <2>6, <2>7, <2>8, <2>9, <2>10, <2>11, <2>12, <2>13, <2>14, <2>15, <2>16,
       <2>17, <2>18 DEF Next, Loop, Environment
<1>3. Inv => LiveConnectionsPolled
  BY DEF Live, LiveConnectionsPolled
<1> QED
  BY <1>1, <1>2, <1>3, TypeCorrect, TableCorrect, PTL DEF Spec

\* Once the loop has ended by SIGINT no connection is open, whatever was marked,
\* left stale or being served before.
THEOREM StoppedClosed == Spec => []StoppedMeansClosed
<1>1. Init => StoppedMeansClosed
  BY DEF Init, StoppedMeansClosed
<1>2. TypeOK /\ TableMatchesSockets /\ StoppedMeansClosed /\ [Next]_vars
        => StoppedMeansClosed'
  <2> SUFFICES ASSUME TypeOK, TableMatchesSockets, StoppedMeansClosed, [Next]_vars,
                      pc' = "stopped"
               PROVE  OpenFds' = {}
    BY DEF StoppedMeansClosed
  <2>1. CASE Stop
    <3>1. OpenFds = SeqRange(connectionFds)
      BY <2>1 DEF Stop, TableMatchesSockets
    <3> QED
      BY <2>1, <3>1 DEF Stop, OpenFds, Closed
  <2>2. CASE pc = "stopped" /\ socket' = socket
    BY <2>2 DEF StoppedMeansClosed, OpenFds
  <2>3. CASE Poll \/ ScanQuiet \/ ScanHangup \/ ScanTimer \/ ScanAccept \/ ScanAcceptFails
               \/ ScanHangupPanics
    BY <2>3 DEF Poll, ScanQuiet, ScanHangup, ScanTimer, ScanAccept, ScanAcceptFails,
       ScanHangupPanics, Panic, AtListener, AtEntry
  <2>4. CASE Receive \/ ReceiveConnReset \/ ReceiveFails \/ ReplySucceeds \/ ReplyWaits
               \/ ClientReads \/ ReplyFails \/ ReceiveFailsPanics \/ ScanEnds \/ SweepRemove
               \/ SweepKeep \/ SweepEnds
    BY <2>4 DEF Receive, ReceiveConnReset, ReceiveFails, ReceiveFailsPanics, ReceiveError,
       Panic, ReplySucceeds, ReplyWaits, ClientReads, ReplyFails, ScanEnds, SweepRemove,
       SweepKeep, SweepEnds,
       AtConnection, AtEntry
  <2>5. CASE Interrupt \/ UNCHANGED vars
    BY <2>2, <2>5 DEF Interrupt, kernel, vars
  <2>6. CASE TimerExpires \/ ClientConnects \/ \E fd \in ConnFds : ClientSends(fd) \/ ClientEnds(fd)
    BY <2>6 DEF TimerExpires, ClientConnects, ClientSends, ClientEnds, Alive
  <2> QED
    BY <2>1, <2>3, <2>4, <2>5, <2>6 DEF Next, Loop, Environment
<1> QED
  BY <1>1, <1>2, TypeCorrect, TableCorrect, PTL DEF Spec
=============================================================================
