CONSTANTS
  N_CONNECTIONS = 2
  TimerFd = 5
  ListenFd = 3
  ConnFds <- const_ConnFds
  MaxBacklog = 1
  Requests <- const_Requests
  PeerEnds <- const_Orderly
SPECIFICATION FairSpec
CHECK_DEADLOCK FALSE
INVARIANTS
  OrderlyInv
PROPERTIES
  ControllerKeepsRunning
  RequestsTaken
  GracefulStop
