--------------------------- MODULE MCZmqTransport ---------------------------
EXTENDS ZmqTransport, TLC

CONSTANTS c1, c2, c3, t1, t2, x1, x2

\* c1 subscribes with no topic selection and a hook that rewrites x1 and
\* suppresses x2; c2 selects the exact string t1; c3 a regex matching t2 only.
MCClients == {c1, c2, c3}
MCTopics == {t1, t2}
MCContents == {x1, x2}
MCSelection ==
  c1 :> [kind |-> "none"]
  @@ c2 :> [kind |-> "exact", str |-> t1]
  @@ c3 :> [kind |-> "regex", re |-> {t2}]
MCHooked == {c1}
MCSubHook == [c \in MCClients |-> x1 :> x2 @@ x2 :> NoData]
\* the publisher's hook swaps the two payloads
MCPubHook == x1 :> x2 @@ x2 :> x1
\* frames carrying x1 on the wire are larger than the receive buffer
MCOversize == {x1}

=============================================================================
