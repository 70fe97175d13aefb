CONSTANTS
  d1 = d1
  d2 = d2
  n1 = n1
  h1 = h1
  none = none
  NoHook = none
  DLocs <- MCDLocs
  NLocs <- MCNLocs
  Hooks <- MCHooks
  HookPairFactory <- MCHookPairFactory
  AllowCrash = TRUE
  TTL = 1
  MaxTime = 3
  MaxTicks = 3
SPECIFICATION Spec
PROPERTY AllTicksApplied
\* Once the tracker's bounded changes are applied the graph idles, waiting
\* for heartbeats and clock ticks.
CHECK_DEADLOCK FALSE
