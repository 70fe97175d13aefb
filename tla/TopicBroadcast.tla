--------------------------- MODULE TopicBroadcast ---------------------------
(***************************************************************************)
(* What a broadcast transport endpoint promises its subscribers (spec      *)
(* 4.1, 8.1, 8.2): publishers append (topic, content) messages to one      *)
(* stream; each subscribed client receives some of them, in publication   *)
(* order, never one twice, and only those whose topic its filter admits   *)
(* and whose content its wire-to-user hook keeps, converted by the hooks. *)
(* Delivery is fire-and-forget: any message may be lost.  One frame may   *)
(* reach several clients in one step.                                     *)
(***************************************************************************)
EXTENDS Naturals, Sequences

CONSTANTS
  Clients,   \* subscribed handlers
  Topics,    \* topic strings
  Contents,  \* payloads (user bytes)
  NoData,    \* result of a wire-to-user hook that suppresses delivery
  Filter,    \* Filter[c]: [kind |-> "none"|"exact"|"regex", topics |-> ...]
  PubHook,   \* user-to-wire hook of the publisher: Contents -> Contents
  SubHook,   \* wire-to-user hook of each client: Contents -> Contents \cup {NoData}
  MaxPub     \* bound on published messages

VARIABLES
  published, \* the messages enqueued by publishers, in order
  got        \* got[c]: [idx, content] of each message given to c, in order

Msgs == [topic : Topics, content : Contents]

\* A client's filter admits a topic: no filter admits every topic, an exact
\* filter one string, a regex the set of topics it matches.
Admits(f, t) ==
  \/ f.kind = "none"
  \/ f.kind # "none" /\ t \in f.topics

\* The client receives message m, and with which content.
Received(c, m) == SubHook[c][PubHook[m.content]]
Wants(c, m) == Admits(Filter[c], m.topic) /\ Received(c, m) # NoData

LastGot(c) == IF got[c] = <<>> THEN 0 ELSE got[c][Len(got[c])].idx

Publish(m) ==
  /\ Len(published) < MaxPub
  /\ published' = Append(published, m)
  /\ UNCHANGED got

\* Message i reaches the clients S: each of them wants it and has only been
\* given earlier messages.
Deliver(i, S) ==
  /\ i \in 1..Len(published)
  /\ \A c \in S : LastGot(c) < i /\ Wants(c, published[i])
  /\ got' = [c \in Clients |->
               IF c \in S
                 THEN Append(got[c], [idx |-> i,
                                      content |-> Received(c, published[i])])
                 ELSE got[c]]
  /\ UNCHANGED published

Init == published = <<>> /\ got = [c \in Clients |-> <<>>]

Next ==
  \/ \E m \in Msgs : Publish(m)
  \/ \E i \in 1..Len(published), S \in SUBSET Clients : Deliver(i, S)

Spec == Init /\ [][Next]_<<published, got>>

=============================================================================
