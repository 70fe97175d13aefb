------------------------------ MODULE GrpcClient ------------------------------
(***************************************************************************)
(* The gRPC client facility of GrpcClientFacilityFactory::createClientFacility *)
(* (grpc_interop/GrpcClientFacility.hpp).  Requests reach the facility's   *)
(* ThreadedHandler queue; its thread waits for start() to set channel_,    *)
(* then runs actuallyHandle for each request under reactorMapMutex_: a     *)
(* request whose id already has a reactor is ignored, otherwise a          *)
(* OneCallReactor is inserted in reactorMap_ and its call started with one *)
(* read.  gRPC then calls OnReadDone(good) for each read and OnDone once   *)
(* after the last; OnDone calls eraseReactor, which marks the end of the   *)
(* request and then, in a second critical section, erases the reactor.    *)
(*                                                                         *)
(* calls[g] is the g-th reactor ever created; its phase is                *)
(*   "reading"  a read is pending,                                        *)
(*   "idle"     no read pending, call not finished (single callback),     *)
(*   "closed"   the last read returned false,                             *)
(*   "erasing"  OnDone has run markEndHandlingRequest, erase not yet done, *)
(*   "gone"     erased from reactorMap_ (the unique_ptr is destroyed).     *)
(* out is the facility's order output: replies and end-of-request marks.   *)
(***************************************************************************)
EXTENDS Naturals, Sequences, FiniteSets, Functions

CONSTANTS
  Ids,            \* request ids (Env::IDType)
  SingleCallbackModes, \* values isSingleCallbackServer may take
  MaxReq,         \* bound on requests placed by callers
  MaxStream       \* bound on messages a streaming server sends per call

VARIABLES
  channel,    \* channel_ has been set by start()
  handlerQ,   \* ids queued for the ThreadedHandler thread, in order
  reactorMap, \* reactorMap_: id -> number of the reactor it owns
  calls,      \* calls[g] = [id, phase, reads] of the g-th OneCallReactor
  out,        \* order output: [kind |-> "reply"|"end", id, call, final]
  sent,       \* requests placed so far
  singleCallback \* singleCallback_, fixed when the facility is created

vars == <<singleCallback, channel, handlerQ, reactorMap, calls, out, sent>>

Phases == {"reading", "idle", "closed", "erasing", "gone"}
Outs == [kind : {"reply", "end"}, id : Ids, call : Nat, final : BOOLEAN]

\* Reactors whose object must still exist: gRPC may still call them, or
\* OnDone is still running in them.
Running == {g \in DOMAIN calls : calls[g].phase # "gone"}

SetPhase(g, p) == [calls EXCEPT ![g].phase = p]

\* waitForStart: the handler thread polls every millisecond until channel_
\* is set, and only then handles requests.
WaitForStart == channel

-----------------------------------------------------------------------------
\* A caller hands a request to the facility; the same id may come twice
\* (a client-side duplicate).
Request(i) ==
  /\ sent < MaxReq
  /\ handlerQ' = Append(handlerQ, i)
  /\ sent' = sent + 1
  /\ UNCHANGED <<singleCallback, channel, reactorMap, calls, out>>

\* start(): channel_ is obtained and waitForStart is released.
Start ==
  /\ ~channel
  /\ channel' = TRUE
  /\ UNCHANGED <<singleCallback, handlerQ, reactorMap, calls, out, sent>>

\* mutant of ActuallyHandle: the request is executed even when its id has a
\* reactor, which replaces the one in reactorMap_
ActuallyHandleNoDedup ==
  /\ WaitForStart
  /\ handlerQ # <<>>
  /\ LET i == Head(handlerQ) IN
       /\ handlerQ' = Tail(handlerQ)
       /\ reactorMap' = [x \in DOMAIN reactorMap \cup {i} |->
                           IF x = i THEN Len(calls) + 1 ELSE reactorMap[x]]
       /\ calls' = Append(calls, [id |-> i, phase |-> "reading", reads |-> 0])
  /\ UNCHANGED <<singleCallback, channel, out, sent>>

\* mutant of ActuallyHandle: the map entry names the reactor created before
\* the new one
ActuallyHandleStaleIndex ==
  /\ WaitForStart
  /\ handlerQ # <<>>
  /\ LET i == Head(handlerQ) IN
       /\ handlerQ' = Tail(handlerQ)
       /\ IF i \in DOMAIN reactorMap
            THEN UNCHANGED <<reactorMap, calls>>
            ELSE /\ reactorMap' = [x \in DOMAIN reactorMap \cup {i} |->
                                     IF x = i THEN Len(calls) ELSE reactorMap[x]]
                 /\ calls' = Append(calls, [id |-> i, phase |-> "reading", reads |-> 0])
  /\ UNCHANGED <<singleCallback, channel, out, sent>>

\* actuallyHandle, run by the handler thread once waitForStart has returned:
\* a duplicate of an id in reactorMap_ is dropped; otherwise the reactor is
\* inserted, the call created and start() issues StartCall and StartRead.
ActuallyHandle ==
  /\ WaitForStart
  /\ handlerQ # <<>>
  /\ LET i == Head(handlerQ) IN
       /\ handlerQ' = Tail(handlerQ)
       /\ IF i \in DOMAIN reactorMap
            THEN UNCHANGED <<reactorMap, calls>>
            ELSE /\ reactorMap' = [x \in DOMAIN reactorMap \cup {i} |->
                                     IF x = i THEN Len(calls) + 1 ELSE reactorMap[x]]
                 /\ calls' = Append(calls, [id |-> i, phase |-> "reading", reads |-> 0])
  /\ UNCHANGED <<singleCallback, channel, out, sent>>

\* OnReadDone(true): the response is published with final = singleCallback_;
\* a streaming call issues the next read.  A unary server sends one message,
\* a streaming one at most MaxStream.
ReadGood(g) ==
  /\ calls[g].phase = "reading"
  /\ calls[g].reads < (IF singleCallback THEN 1 ELSE MaxStream)
  /\ out' = Append(out, [kind |-> "reply", id |-> calls[g].id, call |-> g,
                         final |-> singleCallback])
  /\ calls' = [calls EXCEPT ![g].reads = @ + 1,
                            ![g].phase = IF singleCallback THEN "idle" ELSE "reading"]
  /\ UNCHANGED <<singleCallback, channel, handlerQ, reactorMap, sent>>

\* OnReadDone(false): end of stream or a failed call; nothing is published.
ReadFail(g) ==
  /\ calls[g].phase = "reading"
  /\ calls' = SetPhase(g, "closed")
  /\ UNCHANGED <<singleCallback, channel, handlerQ, reactorMap, out, sent>>

\* mutant of OnDone: the call is only finished after a read returned false
OnDoneAfterClose(g) ==
  /\ calls[g].phase = "closed"
  /\ out' = Append(out, [kind |-> "end", id |-> calls[g].id, call |-> g, final |-> FALSE])
  /\ calls' = SetPhase(g, "erasing")
  /\ UNCHANGED <<singleCallback, channel, handlerQ, reactorMap, sent>>

\* OnDone, first half of eraseReactor: markEndHandlingRequest(id), outside
\* reactorMapMutex_.  gRPC runs it once no read is pending.
OnDone(g) ==
  /\ calls[g].phase \in {"idle", "closed"}
  /\ out' = Append(out, [kind |-> "end", id |-> calls[g].id, call |-> g, final |-> FALSE])
  /\ calls' = SetPhase(g, "erasing")
  /\ UNCHANGED <<singleCallback, channel, handlerQ, reactorMap, sent>>

\* Second half of eraseReactor: reactorMap_.erase(id) under the mutex,
\* which destroys whatever reactor the id names.
EraseReactor(g) ==
  /\ calls[g].phase = "erasing"
  /\ LET i == calls[g].id IN
       /\ reactorMap' = Restrict(reactorMap, DOMAIN reactorMap \ {i})
       /\ calls' = SetPhase(g, "gone")
  /\ UNCHANGED <<singleCallback, channel, handlerQ, out, sent>>

Init ==
  /\ singleCallback \in SingleCallbackModes
  /\ channel = FALSE
  /\ handlerQ = <<>>
  /\ reactorMap = <<>>
  /\ calls = <<>>
  /\ out = <<>>
  /\ sent = 0

Next ==
  \/ \E i \in Ids : Request(i)
  \/ Start
  \/ ActuallyHandle
  \/ \E g \in DOMAIN calls :
       ReadGood(g) \/ ReadFail(g) \/ OnDone(g) \/ EraseReactor(g)

\* The runtime starts every component, the handler thread and gRPC's
\* completion threads keep running, and a pending read eventually completes
\* (with a message or with false).
Fairness ==
  /\ WF_vars(Start)
  /\ WF_vars(ActuallyHandle)
  /\ \A g \in 1..MaxReq :
       /\ WF_vars(g \in DOMAIN calls /\ (ReadGood(g) \/ ReadFail(g)))
       /\ WF_vars(g \in DOMAIN calls /\ OnDone(g))
       /\ WF_vars(g \in DOMAIN calls /\ EraseReactor(g))

Spec == Init /\ [][Next]_vars /\ Fairness

-----------------------------------------------------------------------------
TypeOK ==
  /\ singleCallback \in BOOLEAN
  /\ channel \in BOOLEAN
  /\ handlerQ \in Seq(Ids)
  /\ DOMAIN reactorMap \subseteq Ids
  /\ \A i \in DOMAIN reactorMap : reactorMap[i] \in 1..Len(calls)
  /\ calls \in Seq([id : Ids, phase : Phases, reads : 0..MaxStream])
  /\ out \in Seq(Outs)
  /\ sent \in 0..MaxReq

\* Safety (actuallyHandle / eraseReactor): reactorMap_ owns exactly the
\* reactors gRPC may still call back, each under its own id.  A reactor
\* missing from the map has been destroyed by erase or by being replaced,
\* while OnReadDone or OnDone can still run on it.
OwnsRunningReactors ==
  /\ \A g \in Running : calls[g].id \in DOMAIN reactorMap
                        /\ reactorMap[calls[g].id] = g
  /\ \A i \in DOMAIN reactorMap : reactorMap[i] \in Running

\* Liveness (OnDone / eraseReactor): every reactor the handler creates is
\* eventually finished and erased, whether its call succeeded, failed or
\* streamed, so its id is free again and markEndHandlingRequest was called.
EveryCallEnds ==
  \A g \in 1..MaxReq :
    (g \in DOMAIN calls) ~> (g \in DOMAIN calls /\ calls[g].phase = "gone")

=============================================================================
