\* The real periods.  2^32 is 96 modulo 100 and modulo 10 it is 6, so a 32-bit
\* counter of 96 values wraps at the same phase of both periods.
SPECIFICATION Spec
CONSTANTS
  Period10 = 10
  Period100 = 100
  U8 = 256
  U32 = 96
INVARIANTS TypeOK PhaseLocked ReleaseAccounting
PROPERTY ReleasesCoincide
