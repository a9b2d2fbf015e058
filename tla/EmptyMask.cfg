SPECIFICATION Spec
CONSTANTS
  QueueCapacity = 1
  SpiRegisterCount = 1
  Period10 = 1
  Period100 = 1
  U8 = 2
  U16 = 4
  U32 = 6
  Configs <- OneConfig
  Frames <- NoFrames
  SequenceNumbers = {0, 1, 2, 3}
  Setpoints = {}
  FaultMasks <- EmptyMask
  SpiAddresses = {}
  SpiValues = {}
  Unwritten = Unwritten
PROPERTY DegradedNeverOperatesDirectly
