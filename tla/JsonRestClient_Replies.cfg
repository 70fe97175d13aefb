CONSTANTS
  i1 = i1
  i2 = i2
  Ids <- MCIds
  Methods <- MCMethods
  MaxReq = 2
SPECIFICATION Spec
PROPERTY RequestsComplete
\* Once the bounded callers have been answered the client idles.
CHECK_DEADLOCK FALSE
