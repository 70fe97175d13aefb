-------------------------- MODULE RemoteSubscriber --------------------------
(***************************************************************************)
(* The subscriber side of a distinguished (Designated) remote facility, as *)
(* wired by RemoteTransactionSubscriberManagingUtils::createSubscriber     *)
(* with an exit source, on top of                                          *)
(* MultiTransportRemoteFacilityManagingUtils::                             *)
(* setupDistinguishedRemoteFacilitiesInternal.                             *)
(*                                                                         *)
(* The facility applies Register/Deregister actions from the heartbeat    *)
(* tracker and publishes each applied action on its extra output.  That   *)
(* output has two independent consumers: the self-loop, which turns every *)
(* Register result into a priming Subscription request, and the           *)
(* extraOutputConverter feeding the removeID exporter.  The facility's    *)
(* order output feeds saveIDAndRemoveConnector.  The exit source drives   *)
(* the unsubscribe action.  The three helpers share *idStorage under one  *)
(* mutex, so each of their bodies is one atomic step here; the streams    *)
(* that feed them are separate FIFO queues, drained by separate handler   *)
(* threads of the dataflow runtime.                                        *)
(***************************************************************************)
EXTENDS Naturals, Sequences, FiniteSets, Functions, SequencesExt

CONSTANTS
  Locs,        \* connection locators of the servers that may advertise
  MaxChanges   \* bound on Register/Deregister actions the facility applies

ASSUME Locs # {} /\ MaxChanges \in Nat

VARIABLES
  live,          \* Designated facility live set: locators with an open session
  extraQ,        \* extra output (action results) queued at the self-loop
  removeQ,       \* converted extra output <<locator, isRegister>> for removeID
  reqQ,          \* facility order input: [loc, kind, sid] requests
  inflight,      \* requests dispatched on a session, awaiting the server
  outQ,          \* facility order output queued for saveIDAndRemoveConnector
  idStorage,     \* *idStorage : ConnectionLocator -> subscription id
  nextSid,       \* id the runtime gives the next keyed request
  exitRequested, \* the exit source has fired
  exited,        \* env->exit() has been called
  changes,       \* number of Register/Deregister actions applied (bounded)
  registered,    \* history: Register actions applied, per locator
  primed,        \* history: priming requests issued, per locator
  opened         \* servers' side: subscriptions [loc, sid] they hold open

vars == <<live, extraQ, removeQ, reqQ, inflight, outQ, idStorage, nextSid,
          exitRequested, exited, changes, registered, primed, opened>>

Kinds == {"Subscription", "Unsubscription"}
Sids == 0..MaxChanges
Requests == [loc : Locs, kind : Kinds, sid : Sids]
Results == [type : {"Register", "Deregister"}, loc : Locs]

\* erase one key of a map, as idStorage->erase(key)
Erase(f, l) == Restrict(f, DOMAIN f \ {l})

\* if (idStorage->empty()) env->exit(): the test made under the mutex by
\* both saveIDAndRemoveConnector and unsubscribe
ExitNow(m) == DOMAIN m = {}

-----------------------------------------------------------------------------
(* MultiTransportRemoteFacilityManagingUtils, the Designated loop.         *)

\* mutant of VieExtraOutputClassifier: every action result is primed
VieExtraOutputClassifierAll(res) == res.type \in {"Register", "Deregister"}

\* mutant of VieExtraOutputClassifier: the action type is compared with the
\* wrong enumerator
VieExtraOutputClassifierSwapped(res) == res.type = "Deregister"

\* vieExtraOutputClassifier: only Register results reach the self-loop creator
VieExtraOutputClassifier(res) == res.type = "Register"

\* mutant of ExtraOutputConverter: the whole action is forwarded in place of
\* its connectionLocator
ExtraOutputConverterType(res) == <<res, res.type = "Register">>

\* extraOutputConverter: an action result becomes <<locator, isRegister>>
ExtraOutputConverter(res) == <<res.loc, res.type = "Register">>

\* createSubscriber's initiator: every priming request carries the initial
\* Subscription command given to createSubscriber.
Initiator == "Subscription"

\* The facility applies a Register action from the tracker: the session is
\* opened, stored in the live set, and the result is published on the extra
\* output.
Register(l) ==
  /\ ~exited
  /\ changes < MaxChanges
  /\ l \notin live
  /\ LET res == [type |-> "Register", loc |-> l] IN
       /\ live' = live \cup {l}
       /\ extraQ' = Append(extraQ, res)
       /\ removeQ' = Append(removeQ, ExtraOutputConverter(res))
  /\ changes' = changes + 1
  /\ registered' = [registered EXCEPT ![l] = @ + 1]
  /\ UNCHANGED <<reqQ, inflight, outQ, idStorage, nextSid, exitRequested,
                 exited, primed, opened>>

\* The facility applies a Deregister action: the session is closed, so the
\* requests outstanding on it get no reply; replies already published stay
\* queued downstream.  The server is gone, and with it its subscriptions.
Deregister(l) ==
  /\ ~exited
  /\ changes < MaxChanges
  /\ l \in live
  /\ LET res == [type |-> "Deregister", loc |-> l] IN
       /\ live' = live \ {l}
       /\ extraQ' = Append(extraQ, res)
       /\ removeQ' = Append(removeQ, ExtraOutputConverter(res))
  /\ inflight' = {r \in inflight : r.loc # l}
  /\ opened' = {o \in opened : o.loc # l}
  /\ changes' = changes + 1
  /\ UNCHANGED <<reqQ, outQ, idStorage, nextSid, exitRequested, exited,
                 registered, primed>>

\* The self-loop takes the next action result: a Register result passes the
\* classifier and vieSelfLoopCreator makes the priming request
\* (locator, initiator()), i.e. the initial Subscription, with a fresh id.
SelfLoop ==
  /\ ~exited
  /\ extraQ # <<>>
  /\ LET res == Head(extraQ) IN
       /\ extraQ' = Tail(extraQ)
       /\ IF VieExtraOutputClassifier(res)
            THEN /\ reqQ' = Append(reqQ, [loc |-> res.loc,
                                         kind |-> Initiator,
                                         sid |-> nextSid])
                 /\ nextSid' = nextSid + 1
                 /\ primed' = [primed EXCEPT ![res.loc] = @ + 1]
            ELSE UNCHANGED <<reqQ, nextSid, primed>>
  /\ UNCHANGED <<live, removeQ, inflight, outQ, idStorage, exitRequested,
                 exited, changes, registered, opened>>

\* Designated dispatch: the request goes out on the session of its locator;
\* with no such session it fails with a reply that is neither a
\* Subscription nor an Unsubscription, which saveIDAndRemoveConnector
\* passes through unchanged, so it is left out.
Dispatch ==
  /\ ~exited
  /\ reqQ # <<>>
  /\ LET r == Head(reqQ) IN
       /\ reqQ' = Tail(reqQ)
       /\ inflight' = IF r.loc \in live THEN inflight \cup {r} ELSE inflight
  /\ UNCHANGED <<live, extraQ, removeQ, outQ, idStorage, nextSid,
                 exitRequested, exited, changes, registered, primed, opened>>

\* The remote server answers a request on a live session: a Subscription
\* request is acknowledged by a Subscription output keyed by its id, an
\* Unsubscription by an Unsubscription carrying originalSubscriptionID.
\* The server opens, or closes, the subscription as it replies.
ServerReply(r) ==
  /\ ~exited
  /\ r \in inflight
  /\ inflight' = inflight \ {r}
  /\ outQ' = Append(outQ, r)
  /\ opened' = IF r.kind = "Subscription"
                 THEN opened \cup {[loc |-> r.loc, sid |-> r.sid]}
                 ELSE opened \ {[loc |-> r.loc, sid |-> r.sid]}
  /\ UNCHANGED <<live, extraQ, removeQ, reqQ, idStorage, nextSid,
                 exitRequested, exited, changes, registered, primed>>

-----------------------------------------------------------------------------
(* RemoteTransactionSubscriberManagingUtils::createSubscriber.              *)

\* saveIDAndRemoveConnector: a Subscription output stores its id for the
\* connection; an Unsubscription output erases the entry holding its
\* originalSubscriptionID and calls env->exit() if the map is then empty.
SaveIDAndRemoveConnector ==
  /\ ~exited
  /\ outQ # <<>>
  /\ LET d == Head(outQ)
         match == {l \in DOMAIN idStorage : idStorage[l] = d.sid}
         rest == IF match = {} THEN idStorage
                 ELSE Erase(idStorage, CHOOSE l \in match : TRUE)
     IN  /\ outQ' = Tail(outQ)
         /\ IF d.kind = "Subscription"
              THEN /\ idStorage' = (d.loc :> d.sid) @@ idStorage
                   /\ UNCHANGED exited
              ELSE /\ idStorage' = rest
                   /\ exited' = ExitNow(rest)
  /\ UNCHANGED <<live, extraQ, removeQ, reqQ, inflight, nextSid,
                 exitRequested, changes, registered, primed, opened>>

\* removeID: a connection change (l, false) erases l unconditionally.
RemoveID ==
  /\ ~exited
  /\ removeQ # <<>>
  /\ LET c == Head(removeQ) IN
       /\ removeQ' = Tail(removeQ)
       /\ idStorage' = IF c[2] THEN idStorage ELSE Erase(idStorage, c[1])
  /\ UNCHANGED <<live, extraQ, reqQ, inflight, outQ, nextSid, exitRequested,
                 exited, changes, registered, primed, opened>>

\* unsubscribe: the exit source fires; an empty map exits at once, and one
\* (locator, Unsubscription{id}) request is sent per stored entry.
UnsubscribeRequests(m) ==
  {[loc |-> l, kind |-> "Unsubscription", sid |-> m[l]] : l \in DOMAIN m}

Unsubscribe ==
  /\ ~exited
  /\ ~exitRequested
  /\ exitRequested' = TRUE
  /\ exited' = ExitNow(idStorage)
  /\ reqQ' = reqQ \o SetToSeq(UnsubscribeRequests(idStorage))
  /\ UNCHANGED <<live, extraQ, removeQ, inflight, outQ, idStorage, nextSid,
                 changes, registered, primed, opened>>

-----------------------------------------------------------------------------
Init ==
  /\ live = {}
  /\ extraQ = <<>>
  /\ removeQ = <<>>
  /\ reqQ = <<>>
  /\ inflight = {}
  /\ outQ = <<>>
  /\ idStorage = [l \in {} |-> 0]
  /\ nextSid = 0
  /\ exitRequested = FALSE
  /\ exited = FALSE
  /\ changes = 0
  /\ registered = [l \in Locs |-> 0]
  /\ primed = [l \in Locs |-> 0]
  /\ opened = {}

Next ==
  \/ \E l \in Locs : Register(l) \/ Deregister(l)
  \/ SelfLoop
  \/ Dispatch
  \/ \E r \in inflight : ServerReply(r)
  \/ SaveIDAndRemoveConnector
  \/ RemoveID
  \/ Unsubscribe

\* The handler threads of the runtime and the servers of live sessions keep
\* working; the tracker and the exit source are the environment.
Fairness ==
  /\ WF_vars(SelfLoop)
  /\ WF_vars(Dispatch)
  /\ WF_vars(SaveIDAndRemoveConnector)
  /\ WF_vars(RemoveID)
  /\ \A r \in Requests : WF_vars(ServerReply(r))

Spec == Init /\ [][Next]_vars /\ Fairness

-----------------------------------------------------------------------------
TypeOK ==
  /\ live \subseteq Locs
  /\ extraQ \in Seq(Results)
  /\ removeQ \in Seq(Locs \X BOOLEAN)
  /\ reqQ \in Seq(Requests)
  /\ inflight \subseteq Requests
  /\ outQ \in Seq(Requests)
  /\ DOMAIN idStorage \subseteq Locs
  /\ \A l \in DOMAIN idStorage : idStorage[l] \in Sids
  /\ nextSid \in Sids
  /\ exitRequested \in BOOLEAN /\ exited \in BOOLEAN
  /\ changes \in 0..MaxChanges
  /\ registered \in [Locs -> 0..MaxChanges]
  /\ primed \in [Locs -> 0..MaxChanges]
  /\ opened \subseteq [loc : Locs, sid : Sids]

\* Safety (FacilitySelfLoop): the self-loop issues a priming request only for
\* a Register result, never more than one per Register the facility applied
\* to that locator, although results of both kinds share its input queue.
PrimingPerRegister == \A l \in Locs : primed[l] <= registered[l]

\* Liveness (spec 8.5, FacilitySelfLoop with createSubscriber's initiator):
\* every Register the facility applies to a locator is eventually followed
\* by its priming Subscription request, unless the process has exited;
\* with PrimingPerRegister, exactly one priming request per Register.
EveryRegisterPrimed ==
  \A l \in Locs, k \in 1..MaxChanges :
    (registered[l] >= k) ~> (primed[l] >= k \/ exited)

\* Safety (spec: a deregistered connection's id is dropped, "server is gone;
\* no unsubscribe needed"): every stored subscription id belongs to a live
\* connection, or to one whose (l, false) change is still queued for removeID.
IdStorageTracksLive ==
  \A l \in DOMAIN idStorage : l \in live \/ <<l, FALSE>> \in Range(removeQ)

\* Liveness (spec: the id map is "used at shutdown to synthesize paired
\* unsubscribe requests", and env.exit() follows once they are acknowledged;
\* unsubscribe with saveIDAndRemoveConnector): once the exit source has
\* fired, the process exits, and by then no live server still holds a
\* subscription this subscriber opened.
CleanShutdown == exitRequested ~> (exited /\ opened = {})


=============================================================================
