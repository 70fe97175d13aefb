\* Both kinds of server: single-callback (unary) and streaming.
CONSTANTS
  i1 = i1
  i2 = i2
  Ids <- MCIds
  SingleCallbackModes = {TRUE, FALSE}
  MaxReq = 3
  MaxStream = 2
SPECIFICATION Spec
INVARIANT TypeOK
INVARIANT OwnsRunningReactors
PROPERTY EveryCallEnds
\* Once the bounded callers have placed their requests and every call has
\* ended, the facility idles waiting for the next request.
CHECK_DEADLOCK FALSE
