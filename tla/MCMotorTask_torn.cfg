CONSTANTS
  Impls <- const_Impls
  ReadsPerBin = 2
  ControlFrequency = 2
  ItersPerReport = 3
  Params <- const_Params
  MaxWrites = 1
  MayOverflow = FALSE
SPECIFICATION FairSpec
INVARIANTS
  TypeOK
  UsesFreshParams
  NoSampleDropped
PROPERTIES
  RecoversFromTornParams
  ParamsTakeEffect
CHECK_DEADLOCK FALSE
