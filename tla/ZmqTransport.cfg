\* One ZeroMQ endpoint: three clients with the three kinds of topic
\* selection, two topics, two payloads (one oversize on the wire), three
\* published messages and one undecodable frame.  Once the bounds are
\* spent the threads idle on their timeouts, and after std::terminate at
\* teardown nothing runs: a state with no enabled step is the program
\* waiting or gone, not stuck.
CONSTANTS
  c1 = c1
  c2 = c2
  c3 = c3
  t1 = t1
  t2 = t2
  x1 = x1
  x2 = x2
  NoData = NoData
  Garbage = Garbage
  Clients <- MCClients
  Topics <- MCTopics
  Contents <- MCContents
  Selection <- MCSelection
  Hooked <- MCHooked
  SubHook <- MCSubHook
  PubHook <- MCPubHook
  Oversize <- MCOversize
  MaxPub = 3
  MaxGarbage = 1

SPECIFICATION Spec

INVARIANT TypeOK
PROPERTY BroadcastRefinement
PROPERTY SenderDrains

CHECK_DEADLOCK FALSE
