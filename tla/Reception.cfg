SPECIFICATION HSpec
CONSTANTS
  QueueCapacity = 2
  SpiRegisterCount = 1
  Period10 = 1
  Period100 = 1
  U8 = 2
  U16 = 1
  U32 = 2
  Configs <- PortConfigs
  Frames <- PortFrames
  SequenceNumbers = {}
  Setpoints = {}
  FaultMasks <- FatalMask
  SpiAddresses = {0, 1}
  SpiValues = {0}
  Unwritten = Unwritten
INVARIANTS QueueHoldsAdmissibleFrames FramesAccountedFor RefusalsOnRecord
PROPERTIES RefusalIsLatched FramesKeepOrder
