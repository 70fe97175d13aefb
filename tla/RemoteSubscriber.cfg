\* Subscriber lifecycle with two servers and up to four connection changes.
\* The process idles waiting for heartbeats and exits only through
\* env->exit(), so a state with no enabled step is the program waiting.
CONSTANTS
  l1 = l1
  l2 = l2
  Locs <- MCLocs
  MaxChanges = 4

SPECIFICATION Spec

INVARIANT TypeOK
INVARIANT PrimingPerRegister
PROPERTY EveryRegisterPrimed

CHECK_DEADLOCK FALSE
