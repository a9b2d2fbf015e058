\* The counters' range is twice what the fields of a record show; the watchdog's
\* timeout is never reached; the one-place queue refuses frames.
SPECIFICATION LinkSpec
CONSTANTS
  QueueCapacity = 1
  SpiRegisterCount = 1
  Period10 = 1
  Period100 = 1
  U8 = 2
  U16 = 3
  U32 = 6
  Configs <- PatientConfig
  Frames <- SpiFrame
  SequenceNumbers = {}
  Setpoints = {}
  FaultMasks <- NoMask
  SpiAddresses = {0}
  SpiValues = {0}
  Unwritten = Unwritten
PROPERTY ReceiverReckonsRight
