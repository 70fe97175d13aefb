--------------------------- MODULE MCRedisBroadcast ---------------------------
EXTENDS RedisBroadcast

\* Two topics, so that a pattern subscription can miss one.
MCTopics == {"a", "b"}
\* The protocols of the channel-spec grammar; the environment has Redis and
\* ZeroMQ components only.
MCProtocols == {"multicast", "rabbitmq", "redis", "zeromq", "nng"}
MCSupported == {"redis", "zeromq"}
=============================================================================
