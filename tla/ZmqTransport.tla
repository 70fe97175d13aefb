---------------------------- MODULE ZmqTransport ----------------------------
(***************************************************************************)
(* One ZeroMQ endpoint of ZeroMQComponentImpl (src/zeromq/                 *)
(* ZeroMQComponent.cpp): the OneZeroMQSender of a port, fed by the         *)
(* publisher callbacks returned by getPublisher, and the                   *)
(* OneZeroMQSubscription of the same host:port, fed by addSubscription.    *)
(* Threads: the callers of the publisher callback and of                   *)
(* addSubscriptionClient, the sender thread and the receiver thread.  Each *)
(* step below is one critical section of a mutex_ or one socket call.      *)
(* The socket pair is a FIFO that may drop frames (send with dontwait, no  *)
(* connected peer) and may carry frames no CBOR decoder accepts.           *)
(* Destruction follows libzmq and cppzmq, which are not under src/:       *)
(* zmq_ctx_term blocks until the context's sockets are closed, every      *)
(* socket call after it fails with ETERM, and cppzmq throws on ETERM.     *)
(***************************************************************************)
EXTENDS Naturals, Sequences, FiniteSets

CONSTANTS
  Clients,     \* subscription handlers, each added once
  Topics,      \* topic strings
  Contents,    \* user payloads
  NoData,      \* std::nullopt from a wire-to-user hook
  Garbage,     \* a received frame that does not decode as ByteDataWithTopic
  Selection,   \* Selection[c]: the variant topic of c's subscription
  Hooked,      \* clients subscribed with a wire-to-user hook
  SubHook,     \* SubHook[c]: the hook of c : Contents -> Contents \cup {NoData}
  PubHook,     \* user-to-wire hook given to getPublisher : Contents -> Contents
  Oversize,    \* wire contents whose frame exceeds the 16 MiB buffer_
  MaxPub,      \* bound on published messages
  MaxGarbage   \* bound on undecodable frames arriving

VARIABLES
  incoming,     \* OneZeroMQSender::incoming_
  processing,   \* OneZeroMQSender::processing_
  wire,         \* frames sent and not yet received by the subscriber socket
  ctxTerm,      \* ctx_ is being destroyed: zmq_ctx_term has been called
  aborted,      \* std::terminate: an exception escaped a thread
  senderStarted, \* senders_ holds the port's OneZeroMQSender (its thread runs)
  subStarted,   \* subscriptions_ holds the host:port's OneZeroMQSubscription
  destroyed,    \* ~ZeroMQComponentImpl has returned
  noFilterClients,     \* OneZeroMQSubscription::noFilterClients_
  stringMatchClients,  \* ... stringMatchClients_: <<string, client>>
  regexMatchClients,   \* ... regexMatchClients_: <<regex, client>>
  delivered,    \* history: what each client callback was called with
  published,    \* history: the messages handed to the publisher callback
  garbage       \* number of undecodable frames that arrived

threadVars == <<senderStarted, subStarted, destroyed>>
vars == <<incoming, processing, wire, ctxTerm, aborted, noFilterClients,
          stringMatchClients, regexMatchClients, delivered, published, garbage,
          threadVars>>

\* a queued item is ByteDataWithTopic; idx names the publish call it came from
Items == [idx : 1..MaxPub, topic : Topics, content : Contents]
Elems(s) == {s[i] : i \in DOMAIN s}
Added == Elems(noFilterClients) \cup {e[2] : e \in Elems(stringMatchClients)}
           \cup {e[2] : e \in Elems(regexMatchClients)}

-----------------------------------------------------------------------------
(* Publishing side.                                                        *)

\* getOrStartSender: under the component's mutex_, the sender of the
\* locator's port is found, or created with its thread started.
GetOrStartSender == senderStarted' = TRUE

\* getPublisher: the caller gets a callback bound to the port's sender.
GetPublisher ==
  /\ ~ctxTerm
  /\ GetOrStartSender
  /\ UNCHANGED <<incoming, processing, wire, ctxTerm, aborted, noFilterClients,
                 stringMatchClients, regexMatchClients, delivered, published,
                 garbage, subStarted, destroyed>>

\* The publisher callback of getPublisher with a userToWireHook: the hook
\* runs in the caller's thread, then OneZeroMQSender::publish appends to
\* incoming_ under mutex_ and notifies cond_.
Publish(t, x) ==
  /\ ~ctxTerm
  /\ senderStarted
  /\ Len(published) < MaxPub
  /\ published' = Append(published, [topic |-> t, content |-> x])
  /\ incoming' = Append(incoming, [idx |-> Len(published) + 1, topic |-> t,
                                   content |-> PubHook[x]])
  /\ UNCHANGED <<processing, wire, ctxTerm, aborted, noFilterClients,
                 stringMatchClients, regexMatchClients, delivered, garbage, threadVars>>

\* mutant of SenderTakeBatch: a batch is only taken once two items wait
SenderTakeBatchLate ==
  /\ ~aborted
  /\ processing = <<>>
  /\ Len(incoming) > 1
  /\ processing' = processing \o incoming
  /\ incoming' = <<>>
  /\ UNCHANGED <<wire, ctxTerm, aborted, noFilterClients, stringMatchClients,
                 regexMatchClients, delivered, published, garbage, threadVars>>

\* OneZeroMQSender::run, the locked part: after the 1 ms wait on cond_, a
\* stopped thread leaves (running_ is only cleared by ~OneZeroMQSender,
\* which is not reached: see ContextTerminate), an empty incoming_ loops,
\* and otherwise all of
\* incoming_ is spliced to the end of processing_ (empty at this point:
\* the previous batch was drained before the thread waited again).
SenderTakeBatch ==
  /\ ~aborted
  /\ processing = <<>>
  /\ incoming # <<>>
  /\ processing' = processing \o incoming
  /\ incoming' = <<>>
  /\ UNCHANGED <<wire, ctxTerm, aborted, noFilterClients, stringMatchClients,
                 regexMatchClients, delivered, published, garbage, threadVars>>

\* OneZeroMQSender::run, the unlocked part: the front item is CBOR-encoded
\* and sent with dontwait, which may drop it (always, while no subscriber
\* socket is connected), then popped.
SenderSend ==
  /\ ~ctxTerm
  /\ processing # <<>>
  /\ \/ subStarted /\ wire' = Append(wire, Head(processing))
     \/ UNCHANGED wire
  /\ processing' = Tail(processing)
  /\ UNCHANGED <<incoming, ctxTerm, aborted, noFilterClients,
                 stringMatchClients, regexMatchClients, delivered, published,
                 garbage, threadVars>>

\* The send loop once the context is terminated: sock.send fails with ETERM,
\* cppzmq throws zmq::error_t, nothing in run() catches it, and the
\* exception leaving the thread calls std::terminate.
SendTerminated ==
  /\ ctxTerm /\ ~aborted
  /\ processing # <<>>
  /\ aborted' = TRUE
  /\ UNCHANGED <<incoming, processing, wire, ctxTerm, noFilterClients,
                 stringMatchClients, regexMatchClients, delivered, published,
                 garbage, threadVars>>

-----------------------------------------------------------------------------
(* Subscribing side.                                                       *)

\* getOrStartSubscription: under the component's mutex_, the subscription
\* of the locator's host:port is found, or created with its thread started.
GetOrStartSubscription == subStarted' = TRUE

\* OneZeroMQSubscription::addSubscription: under mutex_, the client goes
\* to the list of its variant alternative.
AddSubscription(c) ==
  /\ c \notin Added
  /\ LET sel == Selection[c] IN
       CASE sel.kind = "none" ->
              /\ noFilterClients' = Append(noFilterClients, c)
              /\ UNCHANGED <<stringMatchClients, regexMatchClients>>
         [] sel.kind = "exact" ->
              /\ stringMatchClients' = Append(stringMatchClients, <<sel.str, c>>)
              /\ UNCHANGED <<noFilterClients, regexMatchClients>>
         [] sel.kind = "regex" ->
              /\ regexMatchClients' = Append(regexMatchClients, <<sel.re, c>>)
              /\ UNCHANGED <<noFilterClients, stringMatchClients>>
  /\ UNCHANGED <<incoming, processing, wire, ctxTerm, aborted, delivered,
                 published, garbage, senderStarted, destroyed>>

\* addSubscriptionClient: the host:port's subscription, then the client
\* added to it.  The receive loop may run between the two critical
\* sections; a frame it takes then has no client yet, as if it were lost.
AddSubscriptionClient(c) ==
  /\ ~ctxTerm
  /\ GetOrStartSubscription
  /\ AddSubscription(c)

\* A frame no decoder accepts reaches the subscriber socket.
ArriveGarbage ==
  /\ ~ctxTerm
  /\ subStarted
  /\ garbage < MaxGarbage
  /\ garbage' = garbage + 1
  /\ wire' = Append(wire, Garbage)
  /\ UNCHANGED <<incoming, processing, ctxTerm, aborted, noFilterClients,
                 stringMatchClients, regexMatchClients, delivered, published, threadVars>>

\* std::regex_match of a topic against a regex: the whole topic must match;
\* a regex is represented by the set of topics it matches.
RegexMatch(topic, re) == topic \in re

\* mutant of CallClient: the hook is never applied
CallClientRaw(c, d) == d.content

\* callClient: with a hook, the hook's result is delivered unless empty;
\* without one, the data as received.
CallClient(c, d) ==
  IF c \in Hooked THEN SubHook[c][d.content] ELSE d.content

\* mutant of Targets: a hook returning std::nullopt still delivers
TargetsNoDrop(d) ==
  Elems(noFilterClients)
  \cup {e[2] : e \in {e \in Elems(stringMatchClients) : d.topic = e[1]}}
  \cup {e[2] : e \in {e \in Elems(regexMatchClients) : RegexMatch(d.topic, e[1])}}

\* The clients the receive loop calls for item d, under mutex_: every
\* no-filter client, every string client whose string equals the topic,
\* every regex client whose regex matches it, unless callClient drops it.
Targets(d) ==
  {c \in Elems(noFilterClients) : CallClient(c, d) # NoData}
  \cup {e[2] : e \in {e \in Elems(stringMatchClients) :
                        d.topic = e[1] /\ CallClient(e[2], d) # NoData}}
  \cup {e[2] : e \in {e \in Elems(regexMatchClients) :
                        RegexMatch(d.topic, e[1]) /\ CallClient(e[2], d) # NoData}}

\* OneZeroMQSubscription::run: a frame is received into buffer_; a
\* truncated frame, or one that does not decode to exactly its size, is
\* skipped; otherwise the clients are called in one critical section.
Receive ==
  /\ ~ctxTerm
  /\ wire # <<>>
  /\ LET f == Head(wire) IN
       /\ wire' = Tail(wire)
       /\ IF f = Garbage \/ f.content \in Oversize
            THEN UNCHANGED delivered
            ELSE delivered' =
                   [c \in Clients |->
                      IF c \in Targets(f)
                        THEN Append(delivered[c], [idx |-> f.idx,
                                                   topic |-> f.topic,
                                                   content |-> CallClient(c, f)])
                        ELSE delivered[c]]
  /\ UNCHANGED <<incoming, processing, ctxTerm, aborted, noFilterClients,
                 stringMatchClients, regexMatchClients, published, garbage, threadVars>>

\* The receive loop once the context is terminated: the blocking recv (or
\* the next one, within rcvtimeo) fails with ETERM; cppzmq throws, nothing
\* catches it in run(), and std::terminate is called.
ReceiveTerminated ==
  /\ ctxTerm /\ ~aborted
  /\ subStarted
  /\ aborted' = TRUE
  /\ UNCHANGED <<incoming, processing, wire, ctxTerm, noFilterClients,
                 stringMatchClients, regexMatchClients, delivered, published,
                 garbage, threadVars>>

\* ~ZeroMQComponentImpl is defaulted, so members are destroyed in reverse
\* order of declaration: ctx_ first, whose destructor calls zmq_ctx_term,
\* which blocks until every socket of the context is closed.  senders_ and
\* subscriptions_, whose destructors clear running_ and join the threads
\* that own those sockets, are destroyed only after it returns.  A sender
\* thread idle on cond_ makes no socket call, so it never sees ETERM and
\* never closes its socket: with only a sender, zmq_ctx_term never returns.
ContextTerminate ==
  /\ ~ctxTerm
  /\ ctxTerm' = TRUE
  /\ UNCHANGED <<incoming, processing, wire, aborted, noFilterClients,
                 stringMatchClients, regexMatchClients, delivered, published,
                 garbage, threadVars>>

\* The rest of ~ZeroMQComponentImpl, once zmq_ctx_term has returned, which
\* it does only when no socket of the context is open: no sender or
\* subscription was ever started.  mutex_, senders_ and subscriptions_ are
\* then destroyed empty.
Destroy ==
  /\ ctxTerm /\ ~destroyed
  /\ ~senderStarted /\ ~subStarted
  /\ destroyed' = TRUE
  /\ UNCHANGED <<incoming, processing, wire, ctxTerm, aborted, noFilterClients,
                 stringMatchClients, regexMatchClients, delivered, published,
                 garbage, senderStarted, subStarted>>

-----------------------------------------------------------------------------
Init ==
  /\ incoming = <<>>
  /\ processing = <<>>
  /\ wire = <<>>
  /\ ctxTerm = FALSE
  /\ aborted = FALSE
  /\ noFilterClients = <<>>
  /\ stringMatchClients = <<>>
  /\ regexMatchClients = <<>>
  /\ delivered = [c \in Clients |-> <<>>]
  /\ published = <<>>
  /\ garbage = 0
  /\ senderStarted = FALSE
  /\ subStarted = FALSE
  /\ destroyed = FALSE

Next ==
  \/ GetPublisher
  \/ \E t \in Topics, x \in Contents : Publish(t, x)
  \/ SenderTakeBatch
  \/ SenderSend
  \/ \E c \in Clients : AddSubscriptionClient(c)
  \/ ArriveGarbage
  \/ Receive
  \/ SendTerminated
  \/ ReceiveTerminated
  \/ ContextTerminate
  \/ Destroy

\* The sender thread wakes at least every millisecond and the receiver
\* thread every second while running_ holds; the destructor, once begun,
\* goes on as soon as zmq_ctx_term returns.
Fairness ==
  /\ WF_vars(SenderTakeBatch)
  /\ WF_vars(SenderSend)
  /\ WF_vars(Receive)
  /\ WF_vars(SendTerminated)
  /\ WF_vars(ReceiveTerminated)
  /\ WF_vars(Destroy)

Spec == Init /\ [][Next]_vars /\ Fairness

-----------------------------------------------------------------------------
TypeOK ==
  /\ incoming \in Seq(Items) /\ processing \in Seq(Items)
  /\ \A i \in DOMAIN wire : wire[i] = Garbage \/ wire[i] \in Items
  /\ ctxTerm \in BOOLEAN /\ aborted \in BOOLEAN
  /\ senderStarted \in BOOLEAN /\ subStarted \in BOOLEAN /\ destroyed \in BOOLEAN
  /\ Added \subseteq Clients
  /\ delivered \in [Clients -> Seq([idx : 1..MaxPub, topic : Topics,
                                    content : Contents])]
  /\ published \in Seq([topic : Topics, content : Contents])
  /\ garbage \in 0..MaxGarbage

\* The filters of the three client lists, as TopicBroadcast states them.
AbsFilter ==
  [c \in Clients |->
     CASE Selection[c].kind = "none" -> [kind |-> "none", topics |-> {}]
       [] Selection[c].kind = "exact" ->
            [kind |-> "exact", topics |-> {Selection[c].str}]
       [] Selection[c].kind = "regex" ->
            [kind |-> "regex", topics |-> Selection[c].re]]

\* A client without a hook receives the content as it came off the wire.
AbsSubHook ==
  [c \in Clients |-> IF c \in Hooked THEN SubHook[c] ELSE [x \in Contents |-> x]]

Abstract == INSTANCE TopicBroadcast
  WITH Filter <- AbsFilter,
       SubHook <- AbsSubHook,
       got <- [c \in Clients |->
                [i \in DOMAIN delivered[c] |->
                   [idx |-> delivered[c][i].idx,
                    content |-> delivered[c][i].content]]]

\* Refinement (spec 4.1, 8.1, 8.2): the endpoint implements TopicBroadcast:
\* through the caller's hook, the sender's queues and splice, the lossy
\* socket and the receiver's three filter lists, every client receives
\* messages in publication order, none twice, only those its topic
\* selection admits and its hook keeps, with the content both hooks make.
BroadcastRefinement == Abstract!Spec

\* Liveness (OneZeroMQSender::run): every item a publisher enqueues leaves
\* the sender's queues, sent or dropped by the socket, unless the component
\* is being destroyed first.
SenderDrains ==
  \A i \in 1..MaxPub :
    (\E e \in Elems(incoming) : e.idx = i)
      ~> (ctxTerm \/ \A e \in Elems(incoming) \cup Elems(processing) : e.idx # i)


\* Liveness (spec: "Destruction joins all owned threads before releasing
\* sockets"; ~ZeroMQComponentImpl with the threads of OneZeroMQSender and
\* OneZeroMQSubscription): once the component's destruction has begun it
\* returns, neither hanging in zmq_ctx_term on a socket a running thread
\* still holds nor ending the process by an exception out of a thread.
DestructionCompletes == ctxTerm ~> destroyed

=============================================================================
