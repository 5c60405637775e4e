CONSTANTS
  TimeWindowBins = 2
  ReadsPerBin = 3
  ControlFrequency = 1
  Params <- const_Params
  TuneParams <- const_TuneParams
  Thresholds <- const_Thresholds
  AdcReadings <- const_Readings
  Impls <- const_Impls
  MaxExpirations = 1
  MayOverflow = TRUE
SPECIFICATION Spec
CHECK_DEADLOCK FALSE
INVARIANTS
  TypeOK
  BinInv
  PerfNeverFull
  FeedbackFinite
PROPERTIES
  RangeCoversWindow
  ImplementsWindow
