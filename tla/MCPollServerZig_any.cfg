CONSTANTS
  N_CONNECTIONS = 2
  TimerFd = 4
  ListenFd = 5
  ConnFds <- const_ConnFds
  MaxBacklog = 1
  Requests <- const_AnyRequest
  PeerEnds <- const_AnyEnd
SPECIFICATION Spec
CHECK_DEADLOCK FALSE
INVARIANTS
  TypeOK
  TableMatchesSockets
  LiveConnectionsPolled
  StoppedMeansClosed
