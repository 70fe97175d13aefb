\* One ZeroMQ endpoint, as in ZmqTransport.cfg, destroyed at any point:
\* before any thread starts, with only the sender, or with both threads.
\* After std::terminate, or in a zmq_ctx_term that never returns, no step
\* is enabled: the process is gone or hung.
CONSTANTS
  c1 = c1
  c2 = c2
  c3 = c3
  t1 = t1
  t2 = t2
  x1 = x1
  x2 = x2
  NoData = NoData
  Garbage = Garbage
  Clients <- MCClients
  Topics <- MCTopics
  Contents <- MCContents
  Selection <- MCSelection
  Hooked <- MCHooked
  SubHook <- MCSubHook
  PubHook <- MCPubHook
  Oversize <- MCOversize
  MaxPub = 3
  MaxGarbage = 1

SPECIFICATION Spec

PROPERTY DestructionCompletes

CHECK_DEADLOCK FALSE
