\* Short messages with every pair of wrong bits; frames around every payload
\* and identifier limit; every cut; buffers that just fit the shortest frames,
\* miss them by one, and fit all of them; decoded for every interface and none.
SPECIFICATION Spec
CONSTANTS
  Frames <- AllFrames
  Capacities = {6, 7, 9, 10, 266}
  Ports = {0, 1, 2, 3, 4, 5}
  MaxFlips = 2
  LongestFlipped = 11
  Extras = {0, 255}
  Unwritten = Unwritten
INVARIANTS DamageIsDetected NoInterfaceConfusion IntactFrameArrives
  AcceptedIsCanonical CodecAndControllerAgree
CHECK_DEADLOCK FALSE
