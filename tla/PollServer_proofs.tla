-------------------------- MODULE PollServer_proofs --------------------------
(***************************************************************************)
(* Proofs about PollServer, for every size of the connection table, every  *)
(* set of descriptors and every behaviour of the clients.                  *)
(***************************************************************************)
EXTENDS PollServer, Operators_proofs, FiniteSetTheorems, SequenceTheorems, TLAPS

-----------------------------------------------------------------------------
(* Type correctness *)

\* server_close_fd leaves a table and a set of sockets of the right types.
LEMMA ServerCloseFdType ==
  ASSUME TypeOK, NEW fd, ServerCloseFd(fd)
  PROVE  connectionFds' \in Seq(ConnFds) /\ socket' \in [ConnFds -> Socket]
<1>1. CASE \E k \in 1..Len(connectionFds) : connectionFds[k] = fd
  <2> DEFINE k == CHOOSE k \in 1..Len(connectionFds) : connectionFds[k] = fd
  <2>1. k \in 1..Len(connectionFds) /\ connectionFds[k] = fd
    BY <1>1
  <2>2. connectionFds' = RemoveAt(connectionFds, k)
        /\ socket' = [socket EXCEPT ![fd] = Closed]
    BY <1>1 DEF ServerCloseFd
  <2>3. connectionFds' \in Seq(ConnFds)
    BY <2>1, <2>2, RemoveAtType DEF TypeOK
  <2> QED
    BY <2>2, <2>3 DEF TypeOK, Socket, Closed
<1>2. CASE ~ \E k \in 1..Len(connectionFds) : connectionFds[k] = fd
  BY <1>2 DEF ServerCloseFd, TypeOK
<1> QED
  BY <1>1, <1>2

\* Marking an entry of poll_fds for removal leaves an array of entries.
LEMMA MarkedType ==
  ASSUME TypeOK, NEW k \in 1..Len(pollFds)
  PROVE  Marked(k) \in Seq([fd : Int, revents : SUBSET Revents])
<1>1. Marked(k) = [pollFds EXCEPT ![k].fd = -pollFds[k].fd]
  BY Zenon DEF Marked
<1> QED
  BY <1>1, MarkEffect DEF TypeOK

\* What poll(2) reports of an entry are events.
LEMMA PollEventsType ==
  ASSUME NEW fd
  PROVE  PollEvents(fd) \in SUBSET Revents
BY DEF PollEvents, Revents

\* The state after server_init has the right types.
LEMMA InitType == Init => TypeOK
<1> SUFFICES ASSUME Init PROVE TypeOK
  OBVIOUS
<1>1. pollFds \in Seq([fd : Int, revents : SUBSET Revents])
  <2>1. /\ [fd |-> TimerFd, revents |-> {}] \in [fd : Int, revents : SUBSET Revents]
        /\ [fd |-> ListenFd, revents |-> {}] \in [fd : Int, revents : SUBSET Revents]
    BY FdAssumption
  <2> QED
    BY <2>1 DEF Init
<1>2. socket \in [ConnFds -> Socket]
  BY DEF Init, Closed, Socket
<1>3. doContinue \in BOOLEAN /\ timer \in BOOLEAN
  BY Zenon DEF Init
<1>4. connectionFds \in Seq(ConnFds) /\ i \in Nat \ {0} /\ backlog \in 0..MaxBacklog
  BY EnvAssumption DEF Init
<1> QED
  BY <1>1, <1>2, <1>3, <1>4 DEF Init, TypeOK

\* The variables of the loop keep their types in every behaviour.
THEOREM TypeCorrect == Spec => []TypeOK
<1>1. Init => TypeOK
  BY InitType
<1>2. TypeOK /\ [Next]_vars => TypeOK'
  <2> SUFFICES ASSUME TypeOK, [Next]_vars PROVE TypeOK'
    OBVIOUS
  <2> USE DEF TypeOK
  <2>1. CASE Poll
    <3>1. pollFds' \in Seq([fd : Int, revents : SUBSET Revents])
      <4> DEFINE R == [fd : Int, revents : SUBSET Revents]
                 e(k) == [pollFds[k] EXCEPT !.revents = PollEvents(pollFds[k].fd)]
      <4>1. ASSUME NEW k \in 1..Len(pollFds)
            PROVE  e(k) \in R
        <5>1. pollFds[k] \in R
          BY ElementOfSeq
        <5> QED
          BY <5>1, PollEventsType
      <4>2. pollFds' = [k \in 1..Len(pollFds) |-> e(k)]
        BY <2>1 DEF Poll
      <4>3. Len(pollFds) \in Nat
        OBVIOUS
      <4> HIDE DEF R, e
      <4>4. pollFds' \in Seq(R)
        BY <4>1, <4>2, <4>3
      <4> QED
        BY <4>4 DEF R
    <3>2. UNCHANGED <<doContinue, connectionFds, socket, backlog, timer>>
      BY <2>1 DEF Poll, kernel
    <3>3. i' \in Nat \ {0} /\ pc' = "scan"
      BY <2>1 DEF Poll
    <3> QED
      BY <3>1, <3>2, <3>3
  <2>2. CASE ScanQuiet
    BY <2>2 DEF ScanQuiet, kernel
  <2>3. CASE ScanHangup
    BY <2>3, ServerCloseFdType, MarkedType DEF ScanHangup, AtEntry
  <2>4. CASE ScanTimer
    <3>1. i' \in Nat \ {0}
      BY <2>4 DEF ScanTimer
    <3>2. timer' \in BOOLEAN
      BY <2>4, Zenon DEF ScanTimer
    <3> QED
      BY <2>4, <3>1, <3>2 DEF ScanTimer
  <2>5. CASE ScanAccept
    <3>1. PICK fd \in ConnFds :
            /\ socket' = [socket EXCEPT ![fd] = Fresh]
            /\ connectionFds' = Append(connectionFds, fd)
            /\ \/ pollFds' = Append(pollFds, [fd |-> fd, revents |-> {}]) /\ pc' = pc
               \/ pollFds' = pollFds /\ pc' = "undefined"
      BY <2>5 DEF ScanAccept
    <3>2. connectionFds' \in Seq(ConnFds)
      BY <3>1
    <3>3. pollFds' \in Seq([fd : Int, revents : SUBSET Revents])
      <4>1. [fd |-> fd, revents |-> {}] \in [fd : Int, revents : SUBSET Revents]
        BY FdAssumption
      <4>2. Append(pollFds, [fd |-> fd, revents |-> {}])
              \in Seq([fd : Int, revents : SUBSET Revents])
        BY <4>1
      <4> QED
        BY <3>1, <4>2
    <3>4. socket' \in [ConnFds -> Socket]
      BY <3>1 DEF Socket, Fresh
    <3>5. backlog' \in 0..MaxBacklog
      BY <2>5, EnvAssumption DEF ScanAccept, AtListener
    <3> QED
      BY <2>5, <3>1, <3>2, <3>3, <3>4, <3>5 DEF ScanAccept
  <2>6. CASE ScanRefuse
    BY <2>6, EnvAssumption DEF ScanRefuse, AtListener
  <2>7. CASE ScanAcceptFails
    BY <2>7, EnvAssumption DEF ScanAcceptFails, AtListener
  <2>8. CASE Receive
    BY <2>8 DEF Receive, Socket
  <2>9. CASE ReceiveConnReset
    BY <2>9, MarkedType DEF ReceiveConnReset, AtConnection, AtEntry, kernel
  <2>10. CASE ReceiveFails
    BY <2>10, MarkedType, ServerCloseFdType DEF ReceiveFails, AtConnection, AtEntry
  <2>11. CASE ReplySucceeds
    BY <2>11 DEF ReplySucceeds, kernel
  <2>12. CASE ReplyFails
    BY <2>12, ServerCloseFdType DEF ReplyFails
  <2>13. CASE ScanEnds
    BY <2>13 DEF ScanEnds, kernel
  <2>14. CASE SweepRemove
    BY <2>14, RemoveAtType DEF SweepRemove, kernel
  <2>15. CASE SweepKeep
    BY <2>15 DEF SweepKeep, kernel
  <2>16. CASE SweepEnds
    BY <2>16 DEF SweepEnds, kernel
  <2>17. CASE Stop
    BY <2>17, EnvAssumption DEF Stop, Closed, Socket
  <2>18. CASE Interrupt
    BY <2>18 DEF Interrupt, kernel
  <2>19. CASE TimerExpires
    BY <2>19 DEF TimerExpires
  <2>20. CASE ClientConnects
    BY <2>20, EnvAssumption DEF ClientConnects
  <2>21. ASSUME NEW fd \in ConnFds, ClientSends(fd)
         PROVE  TypeOK'
    BY <2>21, EnvAssumption DEF ClientSends, Socket
  <2>22. ASSUME NEW fd \in ConnFds, ClientEnds(fd)
         PROVE  TypeOK'
    BY <2>22, EnvAssumption DEF ClientEnds, Socket
  <2>23. CASE UNCHANGED vars
    BY <2>23 DEF vars
  <2>24. CASE ReplyWaits
    BY <2>24 DEF ReplyWaits, kernel
  <2>25. CASE ClientReads
    BY <2>25 DEF ClientReads, kernel
  <2>26. CASE ReplyInterrupted
    <3>1. ServerCloseFd(pollFds[i].fd) /\ pc' = "scan" /\ i' = i + 1
          /\ UNCHANGED <<pollFds, backlog, timer>>
      BY <2>26, Zenon DEF ReplyInterrupted
    <3>2. doContinue' \in BOOLEAN
      BY <2>26, Zenon DEF ReplyInterrupted
    <3> QED
      BY <3>1, <3>2, ServerCloseFdType
  <2> QED
    BY <2>1, <2>2, <2>3, <2>4, <2>5, <2>6, <2>7, <2>8, <2>9, <2>10, <2>11, <2>12,
       <2>13, <2>14, <2>15, <2>16, <2>17, <2>18, <2>19, <2>20, <2>21, <2>22, <2>23,
       <2>24, <2>25, <2>26 DEF Next, Loop, Environment
<1> QED
  BY <1>1, <1>2, PTL DEF Spec

-----------------------------------------------------------------------------
(* The connection table *)

Distinct(s) == \A j, k \in 1..Len(s) : s[j] = s[k] => j = k

\* TableMatchesKernel while the program runs.
Table ==
  /\ Distinct(connectionFds)
  /\ OpenFds = SeqRange(connectionFds)
  /\ Len(connectionFds) <= N_CONNECTIONS

\* server_close_fd keeps table and sockets in step, whether or not the
\* descriptor is one of the table.
LEMMA ServerCloseFdKeepsTable ==
  ASSUME TypeOK, Table, NEW fd, ServerCloseFd(fd)
  PROVE  Table'
<1>1. CASE \E k \in 1..Len(connectionFds) : connectionFds[k] = fd
  <2> DEFINE k == CHOOSE k \in 1..Len(connectionFds) : connectionFds[k] = fd
  <2>1. k \in 1..Len(connectionFds) /\ connectionFds[k] = fd
    BY <1>1
  <2>2. connectionFds' = RemoveAt(connectionFds, k)
        /\ socket' = [socket EXCEPT ![fd] = Closed]
    BY <1>1 DEF ServerCloseFd
  <2>3. connectionFds \in Seq(ConnFds) /\ fd \in ConnFds
    BY <2>1 DEF TypeOK
  <2> HIDE DEF k
  <2>4. /\ Len(connectionFds') = Len(connectionFds) - 1
        /\ SeqRange(connectionFds') = SeqRange(connectionFds) \ {fd}
        /\ Distinct(connectionFds)'
    <3>1. Len(RemoveAt(connectionFds, k)) = Len(connectionFds) - 1
      BY <2>1, <2>3, RemoveAtType
    <3>2. \A j, l \in 1..Len(connectionFds) : connectionFds[j] = connectionFds[l] => j = l
      BY DEF Table, Distinct
    <3>3. /\ SeqRange(RemoveAt(connectionFds, k)) = SeqRange(connectionFds) \ {connectionFds[k]}
          /\ \A j, l \in 1..(Len(connectionFds) - 1) :
               RemoveAt(connectionFds, k)[j] = RemoveAt(connectionFds, k)[l] => j = l
      BY <2>1, <2>3, <3>2, RemoveAtRange
    <3> QED
      BY <2>1, <2>2, <3>1, <3>3 DEF Distinct
  <2>5. OpenFds' = OpenFds \ {fd}
    BY <2>2, <2>3 DEF OpenFds, TypeOK, Closed
  <2>6. Len(connectionFds) \in Nat /\ N_CONNECTIONS \in Nat
    BY <2>3, NConnectionsAssumption
  <2> QED
    BY <2>4, <2>5, <2>6 DEF Table
<1>2. CASE ~ \E k \in 1..Len(connectionFds) : connectionFds[k] = fd
  BY <1>2 DEF ServerCloseFd, Table, OpenFds, Distinct, SeqRange
<1> QED
  BY <1>1, <1>2

\* A step that opens and closes no socket and leaves the table alone keeps it.
LEMMA SameSocketsKeepTable ==
  ASSUME Table, connectionFds' = connectionFds,
         \A fd \in ConnFds : socket'[fd].open = socket[fd].open
  PROVE  Table'
BY DEF Table, OpenFds, Distinct, SeqRange

\* The table holds exactly the open connections, each once, and never more
\* than it has room for, in every behaviour.
THEOREM TableCorrect == Spec => []TableMatchesKernel
<1> DEFINE Inv == TypeOK /\ (pc # "stopped" => Table)
                  /\ Distinct(connectionFds) /\ Len(connectionFds) <= N_CONNECTIONS
<1>1. Init => Inv
  <2> SUFFICES ASSUME Init PROVE (pc # "stopped" => Table)
                  /\ Distinct(connectionFds) /\ Len(connectionFds) <= N_CONNECTIONS
                  /\ TypeOK
    OBVIOUS
  <2>1. TypeOK
    BY InitType
  <2>2. Len(connectionFds) = 0 /\ Distinct(connectionFds)
    BY DEF Init, Distinct
  <2>3. OpenFds = {} /\ SeqRange(connectionFds) = {}
    BY <2>2 DEF Init, OpenFds, Closed, SeqRange
  <2> QED
    BY <2>1, <2>2, <2>3, NConnectionsAssumption DEF Table
<1>2. TypeOK /\ TypeOK' /\ Inv /\ [Next]_vars => Inv'
  <2> SUFFICES ASSUME TypeOK, TypeOK', Inv, [Next]_vars PROVE Inv'
    OBVIOUS
  <2>1. ASSUME Table, Table' PROVE Inv'
    BY <2>1 DEF Table
  <2>2. ASSUME pc # "stopped", connectionFds' = connectionFds, socket' = socket
        PROVE  Inv'
    BY <2>1, <2>2, SameSocketsKeepTable
  <2>3. ASSUME pc # "stopped", NEW fd, ServerCloseFd(fd)
        PROVE  Inv'
    BY <2>1, <2>3, ServerCloseFdKeepsTable
  <2>4. CASE Poll \/ ScanQuiet \/ ScanTimer \/ ScanRefuse \/ ScanAcceptFails
    BY <2>2, <2>4 DEF Poll, ScanQuiet, ScanTimer, ScanRefuse, ScanAcceptFails,
       AtListener, AtEntry, kernel
  <2>5. CASE ReceiveConnReset \/ ReplySucceeds \/ ReplyWaits \/ ClientReads \/ ScanEnds
    BY <2>2, <2>5 DEF ReceiveConnReset, ReplySucceeds, ReplyWaits, ClientReads, ScanEnds,
       AtConnection, AtEntry, kernel
  <2>6. CASE SweepRemove \/ SweepKeep \/ SweepEnds
    BY <2>2, <2>6 DEF SweepRemove, SweepKeep, SweepEnds, kernel
  <2>7. CASE ScanHangup \/ ReplyFails \/ ReplyInterrupted
    BY <2>3, <2>7 DEF ScanHangup, ReplyFails, ReplyInterrupted, Replying, AtEntry
  <2>8. CASE ReceiveFails
    BY <2>3, <2>8 DEF ReceiveFails, AtConnection, AtEntry
  <2>9. CASE ScanAccept
    <3>1. PICK fd \in ConnFds :
            /\ fd \notin OpenFds
            /\ socket' = [socket EXCEPT ![fd] = Fresh]
            /\ connectionFds' = Append(connectionFds, fd)
      BY <2>9 DEF ScanAccept, IsNextFd
    <3>2. Table /\ Len(connectionFds) < N_CONNECTIONS
      BY <2>9 DEF ScanAccept, AtListener, AtEntry
    <3>3. connectionFds \in Seq(ConnFds) /\ N_CONNECTIONS \in Nat
      BY NConnectionsAssumption DEF TypeOK
    <3>4. /\ Len(connectionFds') = Len(connectionFds) + 1
          /\ \A k \in 1..Len(connectionFds) : connectionFds'[k] = connectionFds[k]
          /\ connectionFds'[Len(connectionFds) + 1] = fd
      BY <3>1, <3>3
    <3>5. SeqRange(connectionFds') = SeqRange(connectionFds) \cup {fd}
      BY <3>3, <3>4 DEF SeqRange
    <3>6. OpenFds' = OpenFds \cup {fd}
      BY <3>1 DEF OpenFds, TypeOK, Fresh
    <3>7. Distinct(connectionFds)'
      <4>1. \A k \in 1..Len(connectionFds) : connectionFds[k] # fd
        BY <3>1, <3>2 DEF Table, SeqRange
      <4> QED
        BY <3>2, <3>3, <3>4, <4>1 DEF Table, Distinct
    <3> QED
      BY <2>1, <3>2, <3>3, <3>4, <3>5, <3>6, <3>7 DEF Table
  <2>10. CASE Receive
    <3>1. \A fd \in ConnFds : socket'[fd].open = socket[fd].open
      BY <2>10 DEF Receive, TypeOK, Socket
    <3> QED
      BY <2>1, <2>10, <3>1, SameSocketsKeepTable DEF Receive, AtConnection, AtEntry
  <2>11. CASE Stop
    BY <2>11 DEF Stop, Table, Distinct
  <2>12. CASE Interrupt \/ TimerExpires \/ ClientConnects \/ UNCHANGED vars
    BY <2>2, <2>12 DEF Interrupt, TimerExpires, ClientConnects, Alive, vars, kernel,
       Distinct, Table
  <2>13. ASSUME NEW fd \in ConnFds, ClientSends(fd) \/ ClientEnds(fd)
         PROVE  Inv'
    <3>1. pc # "stopped" /\ connectionFds' = connectionFds
      BY <2>13 DEF ClientSends, ClientEnds, Alive
    <3>2. \A g \in ConnFds : socket'[g].open = socket[g].open
      BY <2>13 DEF ClientSends, ClientEnds, TypeOK, Socket
    <3> QED
      BY <2>1, <3>1, <3>2, SameSocketsKeepTable
  <2> QED
    BY <2>4, <2>5, <2>6, <2>7, <2>8, <2>9, <2>10, <2>11, <2>12, <2>13
       DEF Next, Loop, Environment
<1>3. Inv => TableMatchesKernel
  BY DEF Table, Distinct, TableMatchesKernel
<1> QED
  BY <1>1, <1>2, <1>3, TypeCorrect, PTL DEF Spec

-----------------------------------------------------------------------------
(* poll_fds never overflows when no client resets its connection *)

\* What server_close_fd takes out of the table, and what it does to sockets.
LEMMA ServerCloseFdEffect ==
  ASSUME TypeOK, Table, NEW fd, ServerCloseFd(fd)
  PROVE  /\ SeqRange(connectionFds)' = SeqRange(connectionFds) \ {fd}
         /\ \A g \in ConnFds : socket'[g].peer \in {socket[g].peer, "open"}
<1>1. CASE \E k \in 1..Len(connectionFds) : connectionFds[k] = fd
  <2> DEFINE k == CHOOSE k \in 1..Len(connectionFds) : connectionFds[k] = fd
  <2>1. k \in 1..Len(connectionFds) /\ connectionFds[k] = fd
    BY <1>1
  <2>2. connectionFds' = RemoveAt(connectionFds, k)
        /\ socket' = [socket EXCEPT ![fd] = Closed]
    BY <1>1 DEF ServerCloseFd
  <2>3. connectionFds \in Seq(ConnFds)
    BY DEF TypeOK
  <2> HIDE DEF k
  <2>4. \A j, l \in 1..Len(connectionFds) : connectionFds[j] = connectionFds[l] => j = l
    BY DEF Table, Distinct
  <2>5. SeqRange(RemoveAt(connectionFds, k)) = SeqRange(connectionFds) \ {connectionFds[k]}
    BY <2>1, <2>3, <2>4, RemoveAtRange
  <2>6. SeqRange(connectionFds)' = SeqRange(connectionFds) \ {fd}
    BY <2>1, <2>2, <2>5 DEF SeqRange
  <2> QED
    BY <2>2, <2>6 DEF TypeOK, Closed
<1>2. CASE ~ \E k \in 1..Len(connectionFds) : connectionFds[k] = fd
  BY <1>2 DEF ServerCloseFd, SeqRange
<1> QED
  BY <1>1, <1>2

\* A table of distinct entries that are all connections of the server is no
\* longer than the server's own.
LEMMA EntriesBounded ==
  ASSUME TypeOK, Len(connectionFds) < N_CONNECTIONS, SystemEntries,
         EntriesDistinct,
         \A k \in 3..Len(pollFds) :
           pollFds[k].fd >= 0 /\ pollFds[k].fd \in SeqRange(connectionFds)
  PROVE  Len(pollFds) < N_FDS_MAX
<1> DEFINE a == Len(pollFds) - 2
           b == Len(connectionFds)
           f == [k \in 1..a |-> CHOOSE j \in 1..b : connectionFds[j] = pollFds[k + 2].fd]
<1>1. a \in Nat /\ b \in Nat /\ N_CONNECTIONS \in Nat
  BY NConnectionsAssumption DEF TypeOK, SystemEntries, N_FDS_SYSTEM
<1>2. ASSUME NEW k \in 1..a
      PROVE  f[k] \in 1..b /\ connectionFds[f[k]] = pollFds[k + 2].fd
  <2>1. k + 2 \in 3..Len(pollFds)
    BY <1>1
  <2>2. \E j \in 1..b : connectionFds[j] = pollFds[k + 2].fd
    BY <2>1 DEF SeqRange
  <2> QED
    BY <2>2
<1>3. f \in [1..a -> 1..b]
  BY <1>2
<1> HIDE DEF f
<1>4. ASSUME b < a PROVE FALSE
  <2>1. /\ IsFiniteSet(1..a) /\ Cardinality(1..a) = a
        /\ IsFiniteSet(1..b) /\ Cardinality(1..b) = b
    <3> HIDE DEF a, b
    <3>1. 1 \in Int /\ a \in Int /\ b \in Int
      BY <1>1
    <3>2. IsFiniteSet(1..a) /\ Cardinality(1..a) = IF 1 > a THEN 0 ELSE a - 1 + 1
      BY <3>1, FS_Interval, Zenon
    <3>3. IsFiniteSet(1..b) /\ Cardinality(1..b) = IF 1 > b THEN 0 ELSE b - 1 + 1
      BY <3>1, FS_Interval, Zenon
    <3> QED
      BY <1>1, <3>2, <3>3
  <2>2. PICK x, y \in 1..a : x # y /\ f[x] = f[y]
    BY <1>3, <1>4, <2>1, FS_PigeonHole
  <2>3. pollFds[x + 2].fd = pollFds[y + 2].fd
    BY <1>2, <2>2
  <2>4. x + 2 \in 3..Len(pollFds) /\ y + 2 \in 3..Len(pollFds) /\ x + 2 # y + 2
    BY <1>1, <2>2
  <2> QED
    BY <2>3, <2>4 DEF EntriesDistinct
<1> QED
  BY <1>1, <1>4 DEF N_FDS_MAX, N_FDS_SYSTEM

\* An entry that is marked keeps its place and its events; no other changes.
LEMMA MarkedEffect ==
  ASSUME TypeOK, NEW k \in 1..Len(pollFds)
  PROVE  /\ Len(Marked(k)) = Len(pollFds)
         /\ Marked(k)[k].fd = -pollFds[k].fd
         /\ \A j \in 1..Len(pollFds) : j # k => Marked(k)[j].fd = pollFds[j].fd
         /\ \A j \in 1..Len(pollFds) : Marked(k)[j].revents = pollFds[j].revents
<1>1. Marked(k) = [pollFds EXCEPT ![k].fd = -pollFds[k].fd]
  BY Zenon DEF Marked
<1> QED
  BY <1>1, MarkEffect DEF TypeOK

\* The descriptor of an entry of poll_fds is an integer, negative when marked.
LEMMA EntryTypes ==
  ASSUME TypeOK
  PROVE  \A k \in 1..Len(pollFds) : pollFds[k].fd \in Int
<1> DEFINE R == [fd : Int, revents : SUBSET Revents]
<1> SUFFICES ASSUME NEW k \in 1..Len(pollFds) PROVE pollFds[k].fd \in Int
  OBVIOUS
<1>1. pollFds[k] \in R
  BY ElementOfSeq DEF TypeOK
<1> QED
  BY <1>1

\* At the start poll_fds holds the timer and the listening socket only.
LEMMA OrderlyInit == ASSUME Init PROVE OrderlyInv
<1>1. Len(pollFds) = 2 /\ pollFds[1] = [fd |-> TimerFd, revents |-> {}]
      /\ pollFds[2] = [fd |-> ListenFd, revents |-> {}]
  BY DEF Init
<1>2. SystemEntries /\ NoHangups
  BY <1>1 DEF SystemEntries, NoHangups, N_FDS_SYSTEM
<1>3. EntriesInTable /\ MarksOfThisPass /\ EntriesDistinct
  BY <1>1 DEF EntriesInTable, MarksOfThisPass, EntriesDistinct
<1>4. NoResets
  BY DEF Init, NoResets, Closed
<1> QED
  BY <1>2, <1>3, <1>4 DEF Init, OrderlyInv, ReplyEntry, Replying, PollFdsFit

\* As long as no client resets its connection, whatever they send and whenever
\* they close: every entry of poll_fds stands for a connection of the table, none
\* twice, and poll_fds has room for every client that is accepted (PollFdsFit).
THEOREM OrderlyClientsFit ==
  ASSUME "rst" \notin PeerEnds
  PROVE  Spec => []OrderlyInv
<1> DEFINE Known == TypeOK /\ TableMatchesKernel
<1>1. Init => OrderlyInv
  BY OrderlyInit
<1>2. Known /\ Known' /\ OrderlyInv /\ [Next]_vars => OrderlyInv'
  <2> SUFFICES ASSUME TypeOK, TypeOK', TableMatchesKernel, OrderlyInv, [Next]_vars
               PROVE  OrderlyInv'
    OBVIOUS
  <2> USE DEF N_FDS_SYSTEM
  <2>0. /\ Len(pollFds) \in Nat /\ i \in Nat \ {0}
        /\ \A k \in 1..Len(pollFds) : pollFds[k].fd \in Int
    <3>1. Len(pollFds) \in Nat /\ i \in Nat \ {0}
      BY DEF TypeOK
    <3> QED
      BY <3>1, EntryTypes
  <2>1. /\ PollFdsFit /\ NoResets /\ SystemEntries /\ NoHangups /\ EntriesInTable
        /\ MarksOfThisPass /\ EntriesDistinct /\ ReplyEntry
    BY DEF OrderlyInv
  <2>2. pc # "stopped" => Table
    BY DEF TableMatchesKernel, Table, Distinct
  <2>3. SeqRange(connectionFds) \subseteq ConnFds
    BY DEF TypeOK, SeqRange
  <2>4. ~(AtEntry /\ HangsUp)
    BY <2>1 DEF AtEntry, HangsUp, Reports, NoHangups, TypeOK
  <2>5. \A k \in 3..Len(pollFds) : pollFds[k].fd >= 0 /\ ~Passed(k) =>
          pollFds[k].fd \in ConnFds /\ pollFds[k].fd > 0
    BY <2>0, <2>1, <2>3, FdAssumption DEF EntriesInTable
  \* Steps that leave poll_fds, the table and the place in the loop alone.
  <2>6. ASSUME pollFds' = pollFds, connectionFds' = connectionFds, pc' = pc, i' = i,
               doContinue' => doContinue, NoResets'
        PROVE  OrderlyInv'
    <3>1. SeqRange(connectionFds)' = SeqRange(connectionFds)
      BY <2>6 DEF SeqRange
    <3>2. EntriesInTable'
      BY <2>1, <2>6, <3>1 DEF EntriesInTable, Passed, Replying
    <3> QED
      BY <2>1, <2>6, <3>2 DEF OrderlyInv, PollFdsFit, SystemEntries, NoHangups,
         MarksOfThisPass, EntriesDistinct, ReplyEntry, Replying
  \* Steps that only go on to the next entry of the scan.
  <2>7. ASSUME pc = "scan" \/ Replying, pc' = "scan", i' = i + 1, pollFds' = pollFds,
               connectionFds' = connectionFds, socket' = socket, doContinue' = doContinue
        PROVE  OrderlyInv'
    <3>1. SeqRange(connectionFds)' = SeqRange(connectionFds)
      BY <2>7 DEF SeqRange
    <3>2. EntriesInTable'
      BY <2>0, <2>1, <2>7, <3>1 DEF EntriesInTable, Passed, Replying
    <3>3. MarksOfThisPass'
      BY <2>0, <2>1, <2>7 DEF MarksOfThisPass, Replying
    <3> QED
      BY <2>1, <2>7, <3>2, <3>3 DEF OrderlyInv, PollFdsFit, NoResets, SystemEntries,
         NoHangups, EntriesDistinct, ReplyEntry, Replying
  \* Steps that mark the connection under the scan and go on; the table may
  \* lose that connection.
  <2>8. ASSUME AtConnection, pc' = "scan", i' = i + 1, pollFds' = Marked(i), NoResets',
               doContinue' = doContinue,
               SeqRange(connectionFds) \ {pollFds[i].fd} \subseteq SeqRange(connectionFds)'
        PROVE  OrderlyInv'
    <3>1. i \in 3..Len(pollFds) /\ pc = "scan"
      BY <2>1, <2>8 DEF AtConnection, AtEntry, SystemEntries, TypeOK
    <3>2. pollFds[i].fd >= 0 /\ pollFds[i].fd > 0
      <4>1. ~Passed(i) /\ i \in 1..Len(pollFds)
        BY <2>0, <3>1 DEF Passed
      <4>2. pollFds[i].fd >= 0
        BY <2>0, <2>1, <3>1, <4>1 DEF MarksOfThisPass, Replying
      <4> QED
        BY <2>5, <3>1, <4>1, <4>2
    <3>3. /\ Len(pollFds') = Len(pollFds)
          /\ pollFds'[i].fd = -pollFds[i].fd
          /\ \A j \in 1..Len(pollFds) : j # i => pollFds'[j].fd = pollFds[j].fd
          /\ \A j \in 1..Len(pollFds) : pollFds'[j].revents = pollFds[j].revents
      BY <2>8, <3>1, MarkedEffect
    <3>4. pollFds[i].fd \in Int /\ pollFds'[i].fd < 0
      BY <2>0, <3>1, <3>2, <3>3
    <3>5. SystemEntries' /\ NoHangups'
      <4>1. 1 \in 1..Len(pollFds) /\ 2 \in 1..Len(pollFds) /\ i # 1 /\ i # 2
        BY <2>0, <2>1, <3>1 DEF SystemEntries
      <4>2. SystemEntries'
        BY <2>0, <2>1, <3>3, <4>1 DEF SystemEntries
      <4>3. NoHangups'
        BY <2>1, <3>3 DEF NoHangups
      <4> QED
        BY <4>2, <4>3
    <3>6. EntriesInTable'
      <4> SUFFICES ASSUME NEW k \in 3..Len(pollFds), pollFds'[k].fd >= 0
                   PROVE  pollFds'[k].fd \in SeqRange(connectionFds)' \/ Passed(k)'
        BY <3>3 DEF EntriesInTable
      <4>1. k # i /\ k \in 1..Len(pollFds) /\ pollFds'[k].fd = pollFds[k].fd
        BY <2>0, <3>1, <3>3, <3>4
      <4>2. pollFds[k].fd # pollFds[i].fd
        BY <2>1, <3>1, <3>2, <4>1 DEF EntriesDistinct
      <4>3. pollFds[k].fd \in SeqRange(connectionFds) \/ Passed(k)
        BY <2>1, <4>1 DEF EntriesInTable
      <4>4. Passed(k) => Passed(k)'
        BY <2>0, <2>8, <3>1 DEF Passed, Replying
      <4> QED
        BY <2>8, <4>1, <4>2, <4>3, <4>4
    <3>7. MarksOfThisPass'
      BY <2>0, <2>1, <2>8, <3>1, <3>3 DEF MarksOfThisPass, Replying
    <3>8. EntriesDistinct'
      BY <2>1, <3>1, <3>3, <3>4 DEF EntriesDistinct
    <3> QED
      BY <2>8, <3>5, <3>6, <3>7, <3>8 DEF OrderlyInv, PollFdsFit, ReplyEntry, Replying
  <2>9. CASE Poll
    <3>1. \A k \in 3..Len(pollFds) : pollFds[k].fd >= 0
      BY <2>0, <2>1, <2>9 DEF Poll, MarksOfThisPass, Replying
    <3>2. /\ Len(pollFds') = Len(pollFds)
          /\ \A k \in 1..Len(pollFds) : pollFds'[k].fd = pollFds[k].fd
          /\ \A k \in 1..Len(pollFds) : pollFds'[k].revents = PollEvents(pollFds[k].fd)
      <4> DEFINE R == [fd : Int, revents : SUBSET Revents]
                 e(k) == [pollFds[k] EXCEPT !.revents = PollEvents(pollFds[k].fd)]
      <4>1. ASSUME NEW k \in 1..Len(pollFds)
            PROVE  e(k).fd = pollFds[k].fd /\ e(k).revents = PollEvents(pollFds[k].fd)
        <5>1. pollFds[k] \in R
          BY ElementOfSeq DEF TypeOK
        <5> QED
          BY <5>1
      <4>2. pollFds' = [k \in 1..Len(pollFds) |-> e(k)] /\ Len(pollFds) \in Nat
        BY <2>9 DEF Poll, TypeOK
      <4> HIDE DEF e
      <4> QED
        BY <4>1, <4>2
    <3>3. ASSUME NEW k \in 1..Len(pollFds)
          PROVE  "ERR" \notin PollEvents(pollFds[k].fd) /\ "HUP" \notin PollEvents(pollFds[k].fd)
      <4>1. CASE k \in 3..Len(pollFds)
        <5>1. pollFds[k].fd \in ConnFds
          BY <2>5, <2>9, <3>1, <4>1 DEF Poll, Passed
        <5>2. socket[pollFds[k].fd].peer # "rst"
          BY <2>1, <5>1 DEF NoResets
        <5> QED
          BY <5>2 DEF PollEvents
      <4>2. CASE k = 1 \/ k = 2
        <5>1. pollFds[k].fd \in {TimerFd, ListenFd}
          BY <2>1, <4>2 DEF SystemEntries
        <5> QED
          BY <5>1 DEF PollEvents
      <4> QED
        BY <4>1, <4>2 DEF TypeOK
    <3>4. SystemEntries' /\ NoHangups'
      BY <2>1, <3>2, <3>3 DEF SystemEntries, NoHangups
    <3>5. EntriesInTable' /\ EntriesDistinct' /\ MarksOfThisPass'
      <4>1. SeqRange(connectionFds)' = SeqRange(connectionFds) /\ ~Passed(1) /\ doContinue
        BY <2>9 DEF Poll, SeqRange, Passed
      <4>2. \A k : ~Passed(k)
        BY <4>1 DEF Passed
      <4>3. EntriesInTable'
        BY <2>1, <3>2, <4>1, <4>2 DEF EntriesInTable
      <4>4. \A k \in 3..Len(pollFds) : pollFds'[k].fd = pollFds[k].fd
        BY <3>2
      <4>5. EntriesDistinct'
        BY <2>1, <3>2, <4>4 DEF EntriesDistinct
      <4>6. MarksOfThisPass'
        BY <2>0, <3>1, <3>2, <4>4 DEF MarksOfThisPass
      <4> QED
        BY <4>3, <4>5, <4>6
    <3> QED
      BY <2>1, <2>9, <3>4, <3>5 DEF Poll, kernel, OrderlyInv, PollFdsFit, NoResets, ReplyEntry,
         Replying
  <2>10. CASE ScanQuiet \/ ScanTimer \/ ScanRefuse \/ ScanAcceptFails
    BY <2>7, <2>10 DEF ScanQuiet, ScanTimer, ScanRefuse, ScanAcceptFails, AtListener,
       AtEntry, kernel
  <2>11. CASE ScanHangup
    BY <2>4, <2>11 DEF ScanHangup
  <2>12. CASE ScanAccept
    <3>1. PICK fd \in ConnFds :
            /\ fd \notin OpenFds
            /\ socket' = [socket EXCEPT ![fd] = Fresh]
            /\ connectionFds' = Append(connectionFds, fd)
            /\ IF Len(pollFds) < N_FDS_MAX
               THEN pollFds' = Append(pollFds, [fd |-> fd, revents |-> {}]) /\ pc' = pc
               ELSE pollFds' = pollFds /\ pc' = "undefined"
      BY <2>12 DEF ScanAccept, IsNextFd
    <3>2. pc = "scan" /\ i \in 1..Len(pollFds) /\ pollFds[i].fd = ListenFd
          /\ Len(connectionFds) < N_CONNECTIONS /\ i' = i + 1
      BY <2>12 DEF ScanAccept, AtListener, AtEntry, TypeOK
    <3>3. i = 2
      <4>1. i # 1
        BY <2>1, <3>2, FdAssumption DEF SystemEntries
      <4>2. i \notin 3..Len(pollFds)
        BY <2>0, <2>5, <3>2, FdAssumption DEF Passed
      <4> QED
        BY <3>2, <4>1, <4>2 DEF TypeOK
    <3>4. \A k \in 3..Len(pollFds) :
            pollFds[k].fd >= 0 /\ pollFds[k].fd \in SeqRange(connectionFds)
      <4> SUFFICES ASSUME NEW k \in 3..Len(pollFds)
                   PROVE  pollFds[k].fd >= 0 /\ pollFds[k].fd \in SeqRange(connectionFds)
        OBVIOUS
      <4>1. ~(k < i) /\ pollFds[k].fd \in Int
        BY <2>0, <3>3
      <4>2. ~Passed(k)
        BY <3>2, <4>1 DEF Passed
      <4> QED
        BY <2>1, <3>2, <4>1, <4>2 DEF MarksOfThisPass, EntriesInTable, Replying
    <3>5. Len(pollFds) < N_FDS_MAX
      BY <2>1, <3>2, <3>4, EntriesBounded
    <3>6. pollFds' = Append(pollFds, [fd |-> fd, revents |-> {}]) /\ pc' = "scan"
      BY <3>1, <3>2, <3>5
    <3>7. /\ Len(pollFds') = Len(pollFds) + 1
          /\ \A k \in 1..Len(pollFds) : pollFds'[k] = pollFds[k]
          /\ pollFds'[Len(pollFds) + 1].fd = fd
          /\ pollFds'[Len(pollFds) + 1].revents = {}
      <4> DEFINE e == [fd |-> fd, revents |-> {}]
      <4>1. e.fd = fd /\ e.revents = {}
        OBVIOUS
      <4>2. e \in [fd : Int, revents : SUBSET Revents]
        BY FdAssumption
      <4> HIDE DEF e
      <4>3. pollFds' = Append(pollFds, e)
        BY <3>6 DEF e
      <4> QED
        BY <4>1, <4>2, <4>3 DEF TypeOK
    <3>8. Len(pollFds) \in Nat /\ Len(connectionFds) \in Nat /\ fd \in Int /\ fd > 0
      BY FdAssumption DEF TypeOK
    <3>9. SeqRange(connectionFds)' = SeqRange(connectionFds) \cup {fd}
      <4>1. /\ Len(connectionFds') = Len(connectionFds) + 1
            /\ \A k \in 1..Len(connectionFds) : connectionFds'[k] = connectionFds[k]
            /\ connectionFds'[Len(connectionFds) + 1] = fd
        BY <3>1 DEF TypeOK
      <4> QED
        BY <3>8, <4>1 DEF SeqRange
    <3>10. fd \notin SeqRange(connectionFds)
      BY <2>2, <3>1, <3>2 DEF Table
    <3>11. SystemEntries' /\ NoHangups'
      BY <2>1, <3>7, <3>8 DEF SystemEntries, NoHangups
    <3>12. EntriesInTable'
      <4>1. ASSUME NEW k \in 3..Len(pollFds), pollFds'[k].fd >= 0
            PROVE  pollFds'[k].fd \in SeqRange(connectionFds)'
        <5>1. k \in 1..Len(pollFds)
          BY <3>8
        <5> QED
          BY <3>4, <3>7, <3>9, <4>1, <5>1
      <4>2. pollFds'[Len(pollFds) + 1].fd \in SeqRange(connectionFds)'
        BY <3>7, <3>9
      <4>3. \A k \in 3..Len(pollFds') : k \in 3..Len(pollFds) \/ k = Len(pollFds) + 1
        BY <3>7, <3>8
      <4> QED
        BY <4>1, <4>2, <4>3 DEF EntriesInTable
    <3>13. \A k \in 3..Len(pollFds) : pollFds[k].fd # fd
      BY <3>4, <3>10
    <3>14. EntriesDistinct'
      <4>1. \A k \in 3..Len(pollFds') :
              IF k \in 3..Len(pollFds) THEN pollFds'[k].fd = pollFds[k].fd
                                       ELSE k = Len(pollFds) + 1 /\ pollFds'[k].fd = fd
        BY <3>7, <3>8
      <4> QED
        BY <2>1, <3>13, <4>1 DEF EntriesDistinct
    <3>15. MarksOfThisPass'
      BY <2>0, <3>4, <3>7, <3>8 DEF MarksOfThisPass
    <3>16. NoResets'
      BY <2>1, <3>1 DEF NoResets, Fresh, TypeOK
    <3> QED
      BY <3>6, <3>11, <3>12, <3>14, <3>15, <3>16 DEF OrderlyInv, PollFdsFit, ReplyEntry,
         Replying
  <2>13. CASE Receive
    <3>1. NoResets'
      BY <2>1, <2>13 DEF Receive, NoResets, TypeOK, Socket
    <3>2. i \in 3..Len(pollFds) /\ pc = "scan"
      BY <2>1, <2>13 DEF Receive, AtConnection, AtEntry, SystemEntries, TypeOK
    <3>3. pollFds[i].fd >= 0
      BY <2>0, <2>1, <3>2 DEF MarksOfThisPass, Replying
    <3>4. EntriesInTable'
      <4>1. SeqRange(connectionFds)' = SeqRange(connectionFds)
        BY <2>13 DEF Receive, SeqRange
      <4> QED
        BY <2>1, <2>13, <3>2, <4>1 DEF Receive, EntriesInTable, Passed, Replying
    <3>5. MarksOfThisPass'
      BY <2>1, <2>13, <3>2 DEF Receive, MarksOfThisPass, Replying
    <3> QED
      BY <2>1, <2>13, <3>1, <3>2, <3>3, <3>4, <3>5 DEF Receive, OrderlyInv, PollFdsFit,
         SystemEntries, NoHangups, EntriesDistinct, ReplyEntry, Replying
  <2>14. CASE ReceiveConnReset
    <3>1. NoResets'
      BY <2>1, <2>14 DEF ReceiveConnReset, NoResets, kernel
    <3> QED
      BY <2>8, <2>14, <3>1 DEF ReceiveConnReset, AtConnection, AtEntry, kernel, SeqRange
  <2>15. CASE ReceiveFails
    <3>1. Table /\ ServerCloseFd(pollFds[i].fd)
      BY <2>2, <2>15 DEF ReceiveFails, AtConnection, AtEntry
    <3>2. /\ SeqRange(connectionFds)' = SeqRange(connectionFds) \ {pollFds[i].fd}
          /\ \A g \in ConnFds : socket'[g].peer \in {socket[g].peer, "open"}
      BY <3>1, ServerCloseFdEffect
    <3>3. NoResets'
      BY <2>1, <3>2 DEF NoResets
    <3> QED
      BY <2>8, <2>15, <3>2, <3>3 DEF ReceiveFails, AtConnection, AtEntry
  <2>16. CASE ReplySucceeds \/ ClientReads
    BY <2>7, <2>16 DEF ReplySucceeds, ClientReads, Replying, kernel
  <2>25. CASE ReplyWaits
    <3>1. EntriesInTable'
      <4>1. SeqRange(connectionFds)' = SeqRange(connectionFds)
        BY <2>25 DEF ReplyWaits, SeqRange
      <4> QED
        BY <2>1, <2>25, <4>1 DEF ReplyWaits, EntriesInTable, Passed, Replying
    <3>2. MarksOfThisPass'
      BY <2>1, <2>25 DEF ReplyWaits, MarksOfThisPass, Replying
    <3> QED
      BY <2>1, <2>25, <3>1, <3>2 DEF ReplyWaits, kernel, OrderlyInv, PollFdsFit, NoResets,
         SystemEntries, NoHangups, EntriesDistinct, ReplyEntry, Replying
  \* The entry of the send that is broken off is behind the scan from now on.
  <2>26. CASE ReplyInterrupted
    <3>1. /\ Replying /\ pc # "stopped" /\ ServerCloseFd(pollFds[i].fd)
          /\ doContinue' = FALSE /\ pc' = "scan" /\ i' = i + 1 /\ pollFds' = pollFds
      BY <2>26, Zenon DEF ReplyInterrupted, Replying
    <3>2. i \in 3..Len(pollFds) /\ pollFds[i].fd >= 0
      BY <2>1, <3>1 DEF ReplyEntry
    <3>3. /\ SeqRange(connectionFds)' = SeqRange(connectionFds) \ {pollFds[i].fd}
          /\ \A g \in ConnFds : socket'[g].peer \in {socket[g].peer, "open"}
      BY <2>2, <3>1, ServerCloseFdEffect
    <3>4. NoResets'
      BY <2>1, <3>3 DEF NoResets
    <3>5. EntriesInTable'
      <4> SUFFICES ASSUME NEW k \in 3..Len(pollFds), pollFds[k].fd >= 0
                   PROVE  pollFds[k].fd \in SeqRange(connectionFds)' \/ Passed(k)'
        BY <3>1 DEF EntriesInTable
      <4>1. CASE k <= i
        BY <2>0, <3>1, <4>1 DEF Passed
      <4>2. CASE ~(k <= i)
        <5>1. pollFds[k].fd \in SeqRange(connectionFds)
          BY <2>0, <2>1, <3>1, <4>2 DEF EntriesInTable, Passed
        <5>2. pollFds[k].fd # pollFds[i].fd
          BY <2>0, <2>1, <3>2, <4>2 DEF EntriesDistinct
        <5> QED
          BY <3>3, <5>1, <5>2
      <4> QED
        BY <4>1, <4>2
    <3>6. MarksOfThisPass'
      BY <2>0, <2>1, <3>1 DEF MarksOfThisPass, Replying
    <3> QED
      BY <2>1, <3>1, <3>4, <3>5, <3>6 DEF OrderlyInv, PollFdsFit, SystemEntries, NoHangups,
         EntriesDistinct, ReplyEntry, Replying
  <2>17. CASE ReplyFails
    <3>1. pollFds[i].fd \in ConnFds
      <4>1. i \in 3..Len(pollFds) /\ pollFds[i].fd >= 0 /\ Replying
        BY <2>1, <2>17 DEF ReplyFails, ReplyEntry
      <4>2. ~Passed(i)
        BY <2>0, <4>1 DEF Passed
      <4> QED
        BY <2>5, <4>1, <4>2
    <3> QED
      BY <2>1, <2>17, <3>1 DEF ReplyFails, NoResets
  <2>18. CASE ScanEnds
    <3>1. EntriesInTable'
      <4>1. SeqRange(connectionFds)' = SeqRange(connectionFds)
        BY <2>18 DEF ScanEnds, SeqRange
      <4> QED
        BY <2>1, <2>18, <4>1 DEF ScanEnds, EntriesInTable, Passed, Replying
    <3> QED
      BY <2>1, <2>18, <3>1 DEF ScanEnds, kernel, OrderlyInv, PollFdsFit, NoResets,
         SystemEntries, NoHangups, MarksOfThisPass, EntriesDistinct, ReplyEntry, Replying
  <2>19. CASE SweepRemove
    <3>1. i \in 3..Len(pollFds) /\ pc = "sweep"
      BY <2>0, <2>1, <2>19, FdAssumption DEF SweepRemove, SystemEntries
    <3>2. /\ Len(pollFds') = Len(pollFds) - 1
          /\ \A j \in 1..(Len(pollFds) - 1) :
               pollFds'[j] = IF j = i THEN pollFds[Len(pollFds)] ELSE pollFds[j]
      <4> DEFINE R == [fd : Int, revents : SUBSET Revents]
      <4>1. pollFds \in Seq(R) /\ i \in 1..Len(pollFds)
        BY <2>0, <3>1 DEF TypeOK
      <4> HIDE DEF R
      <4>2. /\ Len(RemoveAt(pollFds, i)) = Len(pollFds) - 1
            /\ \A j \in 1..(Len(pollFds) - 1) :
                 RemoveAt(pollFds, i)[j] = IF j = i THEN pollFds[Len(pollFds)] ELSE pollFds[j]
        <5>1. Len(pollFds) \in Nat
          BY <4>1
        <5> QED
          BY ONLY <4>1, <5>1, RemoveAtType
      <4> QED
        BY <2>19, <4>2 DEF SweepRemove
    <3>3. Len(pollFds) \in Nat
      BY DEF TypeOK
    <3>4. SeqRange(connectionFds)' = SeqRange(connectionFds)
      BY <2>19 DEF SweepRemove, SeqRange
    <3>5. SystemEntries' /\ NoHangups'
      BY <2>1, <3>1, <3>2, <3>3 DEF SystemEntries, NoHangups
    <3>6. EntriesInTable'
      <4> SUFFICES ASSUME NEW k \in 3..(Len(pollFds) - 1), pollFds'[k].fd >= 0
                   PROVE  pollFds'[k].fd \in SeqRange(connectionFds)' \/ Passed(k)'
        BY <3>2 DEF EntriesInTable
      <4>1. PICK j \in 3..Len(pollFds) : pollFds'[k] = pollFds[j]
        BY <3>1, <3>2, <3>3
      <4>2. pollFds[j].fd \in SeqRange(connectionFds) \/ Passed(j)
        BY <2>1, <4>1 DEF EntriesInTable
      <4>3. Passed(j) => Passed(k)'
        BY <2>19, <3>1 DEF SweepRemove, Passed, Replying
      <4> QED
        BY <3>4, <4>1, <4>2, <4>3
    <3>7. MarksOfThisPass'
      BY <2>1, <2>19, <3>1, <3>2, <3>3 DEF SweepRemove, MarksOfThisPass, Replying
    <3>8. EntriesDistinct'
      BY <2>1, <3>1, <3>2, <3>3 DEF EntriesDistinct
    <3> QED
      BY <2>1, <2>19, <3>5, <3>6, <3>7, <3>8 DEF SweepRemove, kernel, OrderlyInv,
         PollFdsFit, NoResets, ReplyEntry, Replying
  <2>20. CASE SweepKeep
    <3>1. MarksOfThisPass'
      BY <2>0, <2>1, <2>20 DEF SweepKeep, MarksOfThisPass, Replying
    <3>2. EntriesInTable'
      <4>1. SeqRange(connectionFds)' = SeqRange(connectionFds)
        BY <2>20 DEF SweepKeep, SeqRange
      <4>2. pollFds' = pollFds /\ \A k : Passed(k) => Passed(k)'
        BY <2>20 DEF SweepKeep, Passed, Replying
      <4> QED
        BY <2>1, <4>1, <4>2 DEF EntriesInTable
    <3> QED
      BY <2>1, <2>20, <3>1, <3>2 DEF SweepKeep, kernel, OrderlyInv, PollFdsFit, NoResets,
         SystemEntries, NoHangups, EntriesDistinct, ReplyEntry, Replying
  <2>21. CASE SweepEnds
    <3>1. \A k \in 3..Len(pollFds) : ~(pollFds[k].fd < 0)
      <4>1. i > Len(pollFds) /\ ~(pc = "scan" \/ Replying)
        BY <2>21 DEF SweepEnds, Replying
      <4>2. \A k \in 3..Len(pollFds) : ~(k >= i)
        BY <2>0, <4>1
      <4> QED
        BY <2>1, <4>1, <4>2 DEF MarksOfThisPass
    <3>2. EntriesInTable'
      <4>1. SeqRange(connectionFds)' = SeqRange(connectionFds)
        BY <2>21 DEF SweepEnds, SeqRange
      <4> QED
        BY <2>1, <2>21, <4>1 DEF SweepEnds, EntriesInTable, Passed, Replying
    <3> QED
      BY <2>1, <2>21, <3>1, <3>2 DEF SweepEnds, kernel, OrderlyInv, PollFdsFit, NoResets,
         SystemEntries, NoHangups, MarksOfThisPass, EntriesDistinct, ReplyEntry, Replying
  <2>22. CASE Stop
    <3>1. NoResets'
      BY <2>1, <2>22 DEF Stop, NoResets, Closed
    <3>2. MarksOfThisPass'
      BY <2>1, <2>22 DEF Stop, MarksOfThisPass, Replying
    <3>3. EntriesInTable'
      <4>1. SeqRange(connectionFds)' = SeqRange(connectionFds)
        BY <2>22 DEF Stop, SeqRange
      <4> QED
        BY <2>1, <2>22, <4>1 DEF Stop, EntriesInTable, Passed, Replying
    <3> QED
      BY <2>1, <2>22, <3>1, <3>2, <3>3 DEF Stop, OrderlyInv, PollFdsFit, SystemEntries,
         NoHangups, EntriesDistinct, ReplyEntry, Replying
  <2>23. CASE Interrupt \/ TimerExpires \/ ClientConnects \/ UNCHANGED vars
    BY <2>1, <2>6, <2>23 DEF Interrupt, TimerExpires, ClientConnects, vars, kernel, NoResets
  <2>24. ASSUME NEW fd \in ConnFds, ClientSends(fd) \/ ClientEnds(fd)
         PROVE  OrderlyInv'
    <3>1. NoResets'
      BY <2>1, <2>24, SMTT(20) DEF ClientSends, ClientEnds, NoResets, TypeOK, Socket
    <3> QED
      BY <2>6, <2>24, <3>1 DEF ClientSends, ClientEnds
  <2> QED
    BY <2>9, <2>10, <2>11, <2>12, <2>13, <2>14, <2>15, <2>16, <2>17, <2>18, <2>19,
       <2>20, <2>21, <2>22, <2>23, <2>24, <2>25, <2>26 DEF Next, Loop, Environment
<1> QED
  BY <1>1, <1>2, TypeCorrect, TableCorrect, PTL DEF Spec

-----------------------------------------------------------------------------
(* No client that is there is forgotten *)

\* server_close_fd leaves no open socket under that descriptor, whether or not it
\* is one of the table, and touches no other.
LEMMA ServerCloseFdCloses ==
  ASSUME TypeOK, Table, NEW fd, ServerCloseFd(fd)
  PROVE  \A g \in ConnFds : socket'[g].open => g # fd /\ socket'[g] = socket[g]
<1>1. CASE \E k \in 1..Len(connectionFds) : connectionFds[k] = fd
  <2>1. socket' = [socket EXCEPT ![fd] = Closed]
    BY <1>1 DEF ServerCloseFd
  <2> QED
    BY <2>1 DEF TypeOK, Closed
<1>2. CASE ~ \E k \in 1..Len(connectionFds) : connectionFds[k] = fd
  <2>1. fd \notin OpenFds
    BY <1>2 DEF Table, SeqRange
  <2>2. socket' = socket
    BY <1>2 DEF ServerCloseFd
  <2> QED
    BY <2>1, <2>2 DEF OpenFds
<1> QED
  BY <1>1, <1>2

\* LiveConnectionsPolled at every point of the loop, not only where it waits:
\* the inductive form.
Live == \A fd \in OpenFds : socket[fd].peer = "open" => fd \in Polled

\* Whatever clients do, and however entries are marked, swapped and appended, a
\* connection whose client is still there is in poll_fds (LiveConnectionsPolled);
\* only the write beyond poll_fds ends this.
THEOREM LivePolled == Spec => []LiveConnectionsPolled
<1> DEFINE Inv == pc # "undefined" => Live
<1>1. Init => Inv
  BY DEF Init, Live, OpenFds, Closed
<1>2. TypeOK /\ TypeOK' /\ TableMatchesKernel /\ Inv /\ [Next]_vars => Inv'
  <2> SUFFICES ASSUME TypeOK, TypeOK', TableMatchesKernel, Inv, [Next]_vars PROVE Inv'
    OBVIOUS
  <2>1. pc # "stopped" => Table
    BY DEF TableMatchesKernel, Table, Distinct
  <2>2. \A k \in 1..Len(pollFds) : pollFds[k].fd \in Int
    BY EntryTypes
  \* Steps that keep the entries and open no connection.
  <2>3. ASSUME pc # "undefined", Polled \subseteq Polled',
               \A g \in ConnFds : socket'[g].open /\ socket'[g].peer = "open" =>
                                 socket[g].open /\ socket[g].peer = "open"
        PROVE  Inv'
    BY <2>3 DEF Live, OpenFds
  \* Steps that mark the entry under the scan, whose connection is closed or left
  \* by its client.
  <2>4. ASSUME AtEntry, pollFds' = Marked(i),
               \A g \in ConnFds : socket'[g].open /\ socket'[g].peer = "open" =>
                                 /\ socket[g].open /\ socket[g].peer = "open"
                                 /\ g # pollFds[i].fd
        PROVE  Inv'
    <3>1. i \in 1..Len(pollFds) /\ pc # "undefined"
      BY <2>4 DEF AtEntry, TypeOK
    <3>2. /\ Len(pollFds') = Len(pollFds)
          /\ \A j \in 1..Len(pollFds) : j # i => pollFds'[j].fd = pollFds[j].fd
      BY <2>4, <3>1, MarkedEffect
    <3>3. Polled \ {pollFds[i].fd} \subseteq Polled'
      BY <3>2 DEF Polled
    <3> QED
      BY <2>4, <3>1, <3>3 DEF Live, OpenFds
  <2>5. CASE Poll
    <3>1. Polled' = Polled
      <4> DEFINE e(k) == [pollFds[k] EXCEPT !.revents = PollEvents(pollFds[k].fd)]
      <4>1. ASSUME NEW k \in 1..Len(pollFds)
            PROVE  e(k).fd = pollFds[k].fd
        <5>1. pollFds[k] \in [fd : Int, revents : SUBSET Revents]
          BY ElementOfSeq DEF TypeOK
        <5> QED
          BY <5>1
      <4>2. pollFds' = [k \in 1..Len(pollFds) |-> e(k)] /\ Len(pollFds) \in Nat
        BY <2>5 DEF Poll, TypeOK
      <4> HIDE DEF e
      <4>3. Len(pollFds') = Len(pollFds) /\ \A k \in 1..Len(pollFds) : pollFds'[k].fd = pollFds[k].fd
        BY <4>1, <4>2
      <4> QED
        BY <4>3 DEF Polled
    <3> QED
      BY <2>3, <2>5, <3>1 DEF Poll, kernel
  <2>6. CASE ScanQuiet \/ ScanTimer \/ ScanRefuse \/ ScanAcceptFails
    BY <2>3, <2>6 DEF ScanQuiet, ScanTimer, ScanRefuse, ScanAcceptFails, AtListener,
       AtEntry, kernel, Polled
  <2>7. CASE ScanHangup
    <3>1. AtEntry /\ Table /\ ServerCloseFd(pollFds[i].fd) /\ pollFds' = Marked(i)
      BY <2>1, <2>7 DEF ScanHangup, AtEntry
    <3> QED
      BY <2>4, <3>1, ServerCloseFdCloses
  <2>8. CASE ScanAccept
    <3>1. PICK fd \in ConnFds :
            /\ socket' = [socket EXCEPT ![fd] = Fresh]
            /\ \/ pollFds' = Append(pollFds, [fd |-> fd, revents |-> {}])
               \/ pc' = "undefined"
      BY <2>8 DEF ScanAccept
    <3>2. CASE pollFds' = Append(pollFds, [fd |-> fd, revents |-> {}])
      <4> DEFINE e == [fd |-> fd, revents |-> {}]
      <4>1. e.fd = fd
        OBVIOUS
      <4>2. e \in [fd : Int, revents : SUBSET Revents]
        BY FdAssumption
      <4> HIDE DEF e
      <4>3. pollFds' = Append(pollFds, e)
        BY <3>2 DEF e
      <4>4. /\ Len(pollFds') = Len(pollFds) + 1 /\ Len(pollFds) \in Nat
            /\ \A k \in 1..Len(pollFds) : pollFds'[k] = pollFds[k]
            /\ pollFds'[Len(pollFds) + 1].fd = fd
        BY <4>1, <4>2, <4>3 DEF TypeOK
      <4>5. Polled \subseteq Polled' /\ fd \in Polled'
        BY <4>4 DEF Polled
      <4>6. \A g \in ConnFds : g # fd => socket'[g] = socket[g]
        BY <3>1 DEF TypeOK
      <4>7. pc # "undefined"
        BY <2>8 DEF ScanAccept, AtListener, AtEntry
      <4> QED
        BY <4>5, <4>6, <4>7 DEF Live, OpenFds
    <3> QED
      BY <3>1, <3>2
  <2>9. CASE Receive
    <3>1. pc # "undefined" /\ pollFds' = pollFds
      BY <2>9 DEF Receive, AtConnection, AtEntry
    <3>2. \A g \in ConnFds : socket'[g].open = socket[g].open /\ socket'[g].peer = socket[g].peer
      BY <2>9 DEF Receive, TypeOK, Socket
    <3> QED
      BY <2>3, <3>1, <3>2 DEF Polled
  <2>10. CASE ReceiveConnReset
    BY <2>4, <2>10 DEF ReceiveConnReset, AtConnection, kernel
  <2>11. CASE ReceiveFails
    <3>1. AtEntry /\ Table /\ ServerCloseFd(pollFds[i].fd) /\ pollFds' = Marked(i)
      BY <2>1, <2>11 DEF ReceiveFails, AtConnection, AtEntry
    <3> QED
      BY <2>4, <3>1, ServerCloseFdCloses
  <2>12. CASE ReplySucceeds \/ ReplyWaits \/ ClientReads \/ ScanEnds \/ SweepKeep \/ SweepEnds
    BY <2>3, <2>12 DEF ReplySucceeds, ReplyWaits, ClientReads, ScanEnds, SweepKeep, SweepEnds,
       kernel, Polled
  <2>13. CASE ReplyFails \/ ReplyInterrupted
    <3>1. Table /\ ServerCloseFd(pollFds[i].fd) /\ pollFds' = pollFds /\ pc # "undefined"
      BY <2>1, <2>13 DEF ReplyFails, ReplyInterrupted, Replying
    <3> QED
      BY <2>3, <3>1, ServerCloseFdCloses DEF Polled
  <2>14. CASE SweepRemove
    <3>1. i \in 1..Len(pollFds) /\ pollFds[i].fd < 0 /\ pollFds' = RemoveAt(pollFds, i)
          /\ socket' = socket /\ pc # "undefined"
      BY <2>14 DEF SweepRemove, kernel, TypeOK
    <3>2. /\ Len(pollFds') = Len(pollFds) - 1 /\ Len(pollFds) \in Nat
          /\ \A j \in 1..(Len(pollFds) - 1) :
               pollFds'[j] = IF j = i THEN pollFds[Len(pollFds)] ELSE pollFds[j]
      <4> DEFINE R == [fd : Int, revents : SUBSET Revents]
      <4>1. pollFds \in Seq(R) /\ i \in 1..Len(pollFds)
        BY <3>1 DEF TypeOK
      <4> HIDE DEF R
      <4>2. /\ Len(RemoveAt(pollFds, i)) = Len(pollFds) - 1 /\ Len(pollFds) \in Nat
            /\ \A j \in 1..(Len(pollFds) - 1) :
                 RemoveAt(pollFds, i)[j] = IF j = i THEN pollFds[Len(pollFds)] ELSE pollFds[j]
        <5>1. Len(pollFds) \in Nat
          BY <4>1
        <5> QED
          BY ONLY <4>1, <5>1, RemoveAtType
      <4> QED
        BY <3>1, <4>2
    <3>3. Polled \ {pollFds[i].fd} \subseteq Polled'
      <4> SUFFICES ASSUME NEW k \in 1..Len(pollFds), k # i
                   PROVE  pollFds[k].fd \in Polled'
        BY DEF Polled
      <4>1. CASE k = Len(pollFds)
        <5>1. i \in 1..Len(pollFds') /\ pollFds'[i] = pollFds[k]
          BY <3>1, <3>2, <4>1
        <5> QED
          BY <5>1 DEF Polled
      <4>2. CASE k # Len(pollFds)
        <5>1. k \in 1..Len(pollFds') /\ pollFds'[k] = pollFds[k]
          BY <3>1, <3>2, <4>2
        <5> QED
          BY <5>1 DEF Polled
      <4> QED
        BY <4>1, <4>2
    <3>4. pollFds[i].fd \notin ConnFds
      BY <2>2, <3>1, FdAssumption
    <3> QED
      BY <3>1, <3>3, <3>4 DEF Live, OpenFds
  <2>15. CASE Stop
    BY <2>3, <2>15 DEF Stop, Polled, Closed
  <2>16. CASE Interrupt \/ TimerExpires \/ ClientConnects
    BY <2>3, <2>16 DEF Interrupt, TimerExpires, ClientConnects, Alive, kernel, Polled
  <2>17. ASSUME NEW fd \in ConnFds, ClientSends(fd) \/ ClientEnds(fd)
         PROVE  Inv'
    <3>1. pc # "undefined" /\ pollFds' = pollFds
      BY <2>17 DEF ClientSends, ClientEnds, Alive
    <3>2. \A g \in ConnFds : socket'[g].open /\ socket'[g].peer = "open" =>
                             socket[g].open /\ socket[g].peer = "open"
      BY <2>17, EnvAssumption DEF ClientSends, ClientEnds, TypeOK, Socket
    <3> QED
      BY <2>3, <3>1, <3>2 DEF Polled
  <2>18. CASE UNCHANGED vars
    BY <2>18 DEF vars, Live, OpenFds, Polled
  <2> QED
    BY <2>5, <2>6, <2>7, <2>8, <2>9, <2>10, <2>11, <2>12, <2>13, <2>14, <2>15, <2>16,
       <2>17, <2>18 DEF Next, Loop, Environment
<1>3. Inv => LiveConnectionsPolled
  BY DEF Live, LiveConnectionsPolled
<1> QED
  BY <1>1, <1>2, <1>3, TypeCorrect, TableCorrect, PTL DEF Spec

\* Once the loop has ended by SIGINT no connection is open, whatever was marked,
\* left stale or being served before.
THEOREM StoppedClosed == Spec => []StoppedMeansClosed
<1>1. Init => StoppedMeansClosed
  BY DEF Init, StoppedMeansClosed
<1>2. TypeOK /\ TableMatchesKernel /\ StoppedMeansClosed /\ [Next]_vars
        => StoppedMeansClosed'
  <2> SUFFICES ASSUME TypeOK, TableMatchesKernel, StoppedMeansClosed, [Next]_vars,
                      pc' = "stopped"
               PROVE  OpenFds' = {}
    BY DEF StoppedMeansClosed
  <2>1. CASE Stop
    <3>1. OpenFds = SeqRange(connectionFds)
      BY <2>1 DEF Stop, TableMatchesKernel
    <3> QED
      BY <2>1, <3>1 DEF Stop, OpenFds, Closed
  <2>2. CASE pc = "stopped" /\ socket' = socket
    BY <2>2 DEF StoppedMeansClosed, OpenFds
  <2>3. CASE Poll \/ ScanQuiet \/ ScanHangup \/ ScanTimer \/ ScanAccept \/ ScanRefuse
               \/ ScanAcceptFails
    BY <2>3 DEF Poll, ScanQuiet, ScanHangup, ScanTimer, ScanAccept, ScanRefuse,
       ScanAcceptFails, AtListener, AtEntry
  <2>4. CASE Receive \/ ReceiveConnReset \/ ReceiveFails \/ ReplySucceeds \/ ReplyWaits
               \/ ClientReads \/ ReplyFails \/ ReplyInterrupted \/ ScanEnds \/ SweepRemove
               \/ SweepKeep \/ SweepEnds
    BY <2>4 DEF Receive, ReceiveConnReset, ReceiveFails, ReplySucceeds, ReplyWaits,
       ClientReads, ReplyFails, ReplyInterrupted, ScanEnds, SweepRemove, SweepKeep,
       SweepEnds, AtConnection, AtEntry
  <2>5. CASE Interrupt \/ UNCHANGED vars
    BY <2>2, <2>5 DEF Interrupt, kernel, vars
  <2>6. CASE TimerExpires \/ ClientConnects \/ \E fd \in ConnFds : ClientSends(fd) \/ ClientEnds(fd)
    BY <2>6 DEF TimerExpires, ClientConnects, ClientSends, ClientEnds, Alive
  <2> QED
    BY <2>1, <2>3, <2>4, <2>5, <2>6 DEF Next, Loop, Environment
<1> QED
  BY <1>1, <1>2, TypeCorrect, TableCorrect, PTL DEF Spec

-----------------------------------------------------------------------------
(* The table implements the abstract table of connections *)

\* An array holds no more elements than it is long.
LEMMA SeqRangeBound ==
  ASSUME NEW S, NEW s \in Seq(S)
  PROVE  /\ IsFiniteSet(SeqRange(s)) /\ Cardinality(SeqRange(s)) \in Nat
         /\ Cardinality(SeqRange(s)) <= Len(s)
<1> DEFINE n == Len(s)
           f == [k \in 1..n |-> s[k]]
<1>1. n \in Nat
  OBVIOUS
<1>2. f \in Surjection(1..n, SeqRange(s))
  <2>1. f \in [1..n -> SeqRange(s)]
    BY DEF SeqRange
  <2>2. \A x \in SeqRange(s) : \E k \in 1..n : f[k] = x
    BY DEF SeqRange
  <2> QED
    BY <2>1, <2>2 DEF Surjection
<1> HIDE DEF f, n
<1>3. IsFiniteSet(1..n) /\ Cardinality(1..n) = n
  <2>1. 1 \in Int /\ n \in Int
    BY <1>1
  <2>2. IsFiniteSet(1..n) /\ Cardinality(1..n) = IF 1 > n THEN 0 ELSE n - 1 + 1
    BY <2>1, FS_Interval, Zenon
  <2> QED
    BY <1>1, <2>2
<1>4. IsFiniteSet(SeqRange(s)) /\ Cardinality(SeqRange(s)) <= Cardinality(1..n)
  BY <1>2, <1>3, FS_Surjection, Zenon
<1>5. Cardinality(SeqRange(s)) \in Nat
  BY <1>4, FS_CardinalityType
<1> QED
  BY <1>3, <1>4, <1>5 DEF n

\* Seen from the clients the server is a bounded set of connections: every step of
\* the loop lets in one client under a descriptor that is free while there is room,
\* gives up one connection, gives up all of them, or changes nothing.
THEOREM TableImplements == Spec => ImplementsConnections
<1>1. Init => C!Init
  BY DEF Init, C!Init, Held, SeqRange
<1>2. TypeOK /\ TableMatchesKernel /\ [Next]_vars => [C!Next]_Held
  <2> SUFFICES ASSUME TypeOK, TableMatchesKernel, [Next]_vars PROVE [C!Next]_Held
    OBVIOUS
  <2>1. pc # "stopped" => Table
    BY DEF TableMatchesKernel, Table, Distinct
  \* Steps that leave the table alone.
  <2>2. ASSUME pc # "stopped", pc' # "stopped", connectionFds' = connectionFds
        PROVE  Held' = Held
    BY <2>2 DEF Held, SeqRange
  \* Steps in which server_close_fd is called.
  <2>3. ASSUME pc # "stopped", pc' # "stopped", NEW fd, ServerCloseFd(fd)
        PROVE  [C!Next]_Held
    <3>1. Held = SeqRange(connectionFds) /\ Held' = SeqRange(connectionFds) \ {fd}
      BY <2>1, <2>3, ServerCloseFdEffect DEF Held
    <3> QED
      BY <3>1 DEF C!Next, C!Drop
  <2>4. CASE ScanAccept
    <3>1. PICK fd \in ConnFds :
            /\ fd \notin OpenFds
            /\ connectionFds' = Append(connectionFds, fd)
      BY <2>4 DEF ScanAccept, IsNextFd
    <3>2. /\ pc # "stopped" /\ pc' # "stopped" /\ Table
          /\ Len(connectionFds) < N_CONNECTIONS
      BY <2>1, <2>4 DEF ScanAccept, AtListener, AtEntry
    <3>3. connectionFds \in Seq(ConnFds) /\ N_CONNECTIONS \in Nat
      BY NConnectionsAssumption DEF TypeOK
    <3>4. SeqRange(connectionFds)' = SeqRange(connectionFds) \cup {fd}
      <4>1. /\ Len(connectionFds') = Len(connectionFds) + 1
            /\ \A k \in 1..Len(connectionFds) : connectionFds'[k] = connectionFds[k]
            /\ connectionFds'[Len(connectionFds) + 1] = fd
            /\ Len(connectionFds) \in Nat
        BY <3>1, <3>3
      <4> QED
        BY <4>1 DEF SeqRange
    <3>5. Cardinality(Held) < N_CONNECTIONS
      <4>1. /\ Cardinality(SeqRange(connectionFds)) \in Nat
            /\ Cardinality(SeqRange(connectionFds)) <= Len(connectionFds)
        BY <3>3, SeqRangeBound
      <4> QED
        BY <3>2, <3>3, <4>1 DEF Held
    <3>6. fd \in ConnFds \ Held /\ Held' = Held \cup {fd}
      BY <3>1, <3>2, <3>4 DEF Table, Held
    <3>7. C!Cardinality(Held) = Cardinality(Held)
      BY Zenon DEF C!Cardinality, Cardinality
    <3> QED
      BY <3>5, <3>6, <3>7 DEF C!Next, C!Admit
  <2>5. CASE Stop
    <3>1. Held' = {}
      BY <2>5 DEF Stop, Held
    <3> QED
      BY <3>1 DEF C!Next, C!DropAll
  <2>6. CASE ScanHangup \/ ReplyFails \/ ReplyInterrupted
    BY <2>3, <2>6 DEF ScanHangup, ReplyFails, ReplyInterrupted, Replying, AtEntry
  <2>7. CASE ReceiveFails
    BY <2>3, <2>7 DEF ReceiveFails, AtConnection, AtEntry
  <2>8. CASE Poll \/ ScanQuiet \/ ScanTimer \/ ScanRefuse \/ ScanAcceptFails \/ Receive
    BY <2>2, <2>8 DEF Poll, ScanQuiet, ScanTimer, ScanRefuse, ScanAcceptFails, Receive,
       AtListener, AtConnection, AtEntry
  <2>9. CASE ReceiveConnReset \/ ReplySucceeds \/ ReplyWaits \/ ClientReads \/ ScanEnds
               \/ SweepRemove \/ SweepKeep \/ SweepEnds
    BY <2>2, <2>9 DEF ReceiveConnReset, ReplySucceeds, ReplyWaits, ClientReads, ScanEnds,
       SweepRemove, SweepKeep, SweepEnds, AtConnection, AtEntry
  <2>10. CASE UNCHANGED <<pc, connectionFds>>
    BY <2>10 DEF Held, SeqRange
  <2>11. CASE Interrupt \/ TimerExpires \/ ClientConnects \/ UNCHANGED vars
               \/ \E fd \in ConnFds : ClientSends(fd) \/ ClientEnds(fd)
    BY <2>10, <2>11 DEF Interrupt, TimerExpires, ClientConnects, ClientSends,
       ClientEnds, vars
  <2> QED
    BY <2>4, <2>5, <2>6, <2>7, <2>8, <2>9, <2>11 DEF Next, Loop, Environment
<1> QED
  BY <1>1, <1>2, TypeCorrect, TableCorrect, PTL DEF Spec, ImplementsConnections, C!Spec
=============================================================================
