CONSTANTS
  Clients = {c1, c2}
  Requests <- const_Requests
  Profiles <- const_Profiles
  Frequencies <- const_Frequencies
  Readers = {c1}
  MayOverflow = TRUE
SPECIFICATION FairSpec
INVARIANTS
  TypeOK
  MotorOffAtEnd
PROPERTIES
  HandledAsAsked
  RequestsAnswered
CHECK_DEADLOCK FALSE
