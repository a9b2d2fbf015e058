SPECIFICATION HSpec
CONSTANTS
  QueueCapacity = 1
  SpiRegisterCount = 1
  Period10 = 1
  Period100 = 1
  U8 = 2
  U16 = 4
  U32 = 6
  Configs <- CommandConfigs
  Frames <- NoFrames
  SequenceNumbers = {0, 1, 2, 3}
  Setpoints <- Values
  FaultMasks <- NamedMasks
  SpiAddresses = {}
  SpiValues = {}
  Unwritten = Unwritten
INVARIANTS TypeOK ModeConsistency SetpointWithinLimits
PROPERTIES SafeIsAbsorbing FaultsLatched OperationIsEarned
  EffectsNeedFreshSequence SetpointAuthority FollowsModes
