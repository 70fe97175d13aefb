---------------------------- MODULE RedisBroadcast ----------------------------
(***************************************************************************)
(* One Redis broadcast link: an exporter of RedisImporterExporter          *)
(* (createExporter or createTypedExporter) publishing to a Redis channel,  *)
(* and an importer (createImporter or createTypedImporter) subscribed to a *)
(* topic pattern on the same server; and the protocol dispatch of          *)
(* MultiTransportBroadcastPublisherManagingUtils::oneBroadcastPublisher.   *)
(*                                                                         *)
(* The runtime calls start() on each component once and handle() with the *)
(* exporter's input; the Redis component (redis_getPublisher,              *)
(* redis_addSubscriptionClient) is not under src/ and is reduced to Redis *)
(* pub/sub: a message reaches the subscribers present when it is          *)
(* published, in publication order.  Other publishers may share the      *)
(* channel.  A body is "ok" (a serialized T) or "garbage".                *)
(***************************************************************************)
EXTENDS Naturals, Sequences, SequencesExt

CONSTANTS
  Topics,     \* message topics
  Protocols,  \* broadcast protocols of the channel-spec grammar
  Supported,  \* protocols whose component the environment has
  MaxMsgs     \* bound on messages put on the channel

VARIABLES
  publisher,  \* what oneBroadcastPublisher returned, or "throw"
  expKind,    \* "bytes" (createExporter) or "typed" (createTypedExporter)
  impKind,    \* "bytes" (createImporter) or "typed" (createTypedImporter)
  pattern,    \* the importer's topic_ ("*" by default)
  envSet,     \* the exporter's env_ is not null
  subscribed, \* the importer's subscription client is added
  calls,      \* handle() and foreign publish calls so far
  expected,   \* calls made when the message must reach the importer
  wire,       \* numbers (in msgs) Redis has pushed to the subscriber, in order
  msgs,       \* every message published to Redis: [topic, body, call, seen]
  out         \* numbers (in msgs) of the messages the importer published

vars == <<publisher, expKind, impKind, pattern, envSet, subscribed, calls, expected,
          wire, msgs, out>>

Bodies == {"ok", "garbage"}
Msgs == [topic : Topics, body : Bodies, call : 1..MaxMsgs, seen : BOOLEAN]

\* mutant of OneBroadcastPublisher: the environment's support of the
\* protocol is not checked
OneBroadcastPublisherUnchecked(spec) ==
  IF spec \in Protocols THEN spec ELSE "throw"

\* oneBroadcastPublisher: an unparsable spec and a protocol the environment
\* lacks throw; otherwise the protocol's typed exporter is created and
\* registered.
OneBroadcastPublisher(spec) ==
  IF spec \in Supported THEN spec ELSE "throw"

\* Redis pattern subscription: "*" matches every topic.
Matches(p, t) == p = "*" \/ p = t

\* RunDeserializer<T> succeeds on a serialized T only.
Deserializes(b) == b = "ok"

\* Whether the importer would publish a message with this topic and body.
Imports(t, b) ==
  subscribed /\ Matches(pattern, t) /\ (impKind = "bytes" \/ Deserializes(b))

\* PUBLISH: the message is pushed to the subscriber iff it is subscribed
\* and the topic matches its pattern; otherwise Redis drops it.
Put(t, b) ==
  LET seen == subscribed /\ Matches(pattern, t) IN
    /\ msgs' = Append(msgs, [topic |-> t, body |-> b, call |-> calls + 1, seen |-> seen])
    /\ wire' = IF seen THEN Append(wire, Len(msgs) + 1) ELSE wire

-----------------------------------------------------------------------------
\* LocalE::start: env_ is set and the publisher obtained.
ExporterStart ==
  /\ ~envSet
  /\ envSet' = TRUE
  /\ UNCHANGED <<publisher, expKind, impKind, pattern, subscribed, calls, expected, wire, msgs, out>>

\* mutant of ExporterHandle: the env_ test is inverted
ExporterHandleInverted(t, b) ==
  /\ calls < MaxMsgs
  /\ expKind = "typed" => b = "ok"
  /\ IF ~envSet THEN Put(t, b) ELSE UNCHANGED <<wire, msgs>>
  /\ calls' = calls + 1
  /\ expected' = IF envSet /\ Imports(t, b) THEN expected \cup {calls + 1} ELSE expected
  /\ UNCHANGED <<publisher, expKind, impKind, pattern, envSet, subscribed, out>>

\* LocalE::handle: published only once env_ is set, else silently dropped.
\* The typed exporter serializes its T, so its body is always "ok"; the
\* byte exporter passes the caller's bytes on.
ExporterHandle(t, b) ==
  /\ calls < MaxMsgs
  /\ expKind = "typed" => b = "ok"
  /\ IF envSet THEN Put(t, b) ELSE UNCHANGED <<wire, msgs>>
  /\ calls' = calls + 1
  /\ expected' = IF envSet /\ Imports(t, b) THEN expected \cup {calls + 1} ELSE expected
  /\ UNCHANGED <<publisher, expKind, impKind, pattern, envSet, subscribed, out>>

\* Another process publishes on the same Redis channel.
OtherPublish(t, b) ==
  /\ calls < MaxMsgs
  /\ Put(t, b)
  /\ calls' = calls + 1
  /\ UNCHANGED <<publisher, expKind, impKind, pattern, envSet, subscribed, expected, out>>

\* LocalI::start: redis_addSubscriptionClient(locator_, topic_, callback).
ImporterStart ==
  /\ ~subscribed
  /\ subscribed' = TRUE
  /\ UNCHANGED <<publisher, expKind, impKind, pattern, envSet, calls, expected, wire, msgs, out>>

\* The subscription callback: the byte importer publishes every message;
\* the typed one only those that deserialize.
ImporterReceive ==
  /\ wire # <<>>
  /\ out' = IF impKind = "bytes" \/ Deserializes(msgs[Head(wire)].body)
              THEN Append(out, Head(wire)) ELSE out
  /\ wire' = Tail(wire)
  /\ UNCHANGED <<publisher, expKind, impKind, pattern, envSet, subscribed, calls, expected, msgs>>

Init ==
  /\ publisher \in {OneBroadcastPublisher(s) : s \in Protocols \cup {"unknown"}}
  /\ expKind \in IF publisher = "redis" THEN {"typed"} ELSE {"bytes", "typed"}
  /\ impKind \in {"bytes", "typed"}
  /\ pattern \in Topics \cup {"*"}
  /\ envSet = FALSE /\ subscribed = FALSE
  /\ calls = 0 /\ expected = {}
  /\ wire = <<>> /\ msgs = <<>> /\ out = <<>>

Next ==
  \/ ExporterStart \/ ImporterStart \/ ImporterReceive
  \/ \E t \in Topics, b \in Bodies : ExporterHandle(t, b) \/ OtherPublish(t, b)

\* The runtime starts every component, and the Redis client's thread
\* delivers what the server pushes to the subscription callback.
Fairness ==
  WF_vars(ExporterStart) /\ WF_vars(ImporterStart) /\ WF_vars(ImporterReceive)

Spec == Init /\ [][Next]_vars /\ Fairness

-----------------------------------------------------------------------------
TypeOK ==
  /\ publisher \in Supported \cup {"throw"}
  /\ expKind \in {"bytes", "typed"} /\ impKind \in {"bytes", "typed"}
  /\ pattern \in Topics \cup {"*"}
  /\ envSet \in BOOLEAN /\ subscribed \in BOOLEAN
  /\ calls \in 0..MaxMsgs /\ expected \subseteq 1..calls
  /\ msgs \in Seq(Msgs) /\ wire \in Seq(DOMAIN msgs) /\ out \in Seq(DOMAIN msgs)

\* Liveness (LocalE::handle with LocalI's callback): every message handed to
\* a started exporter while the importer is subscribed to a matching
\* pattern, and that the importer can decode, is eventually published by
\* the importer.
ExporterReachesImporter ==
  \A c \in 1..MaxMsgs :
    (c \in expected) ~> (\E j \in DOMAIN out : msgs[out[j]].call = c)

=============================================================================
