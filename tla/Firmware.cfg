\* The image with its real timeout, periods and countdown width.  128 clock
\* values leave room for the timeout of 100 and let every counter wrap.
SPECIFICATION FirmwareSpec
CONSTANTS
  QueueCapacity = 8
  SpiRegisterCount = 16
  Period10 = 10
  Period100 = 100
  U8 = 256
  U16 = 65536
  U32 = 128
  Configs = {}
  Frames = {}
  SequenceNumbers = {}
  Setpoints = {}
  FaultMasks = {}
  SpiAddresses = {}
  SpiValues = {}
  Unwritten = Unwritten
INVARIANT LoopIsInitialised
PROPERTIES TripsAtTick101 LoopEndsInSafe
