---------------------------- MODULE JsonRestClient ----------------------------
(***************************************************************************)
(* The JSON REST client side (json_rest/JsonRESTClientFacility.hpp): the   *)
(* typed facility of createClientFacility, the ComplexInput facilities,    *)
(* and typedOneShotRemoteCall.  A facility's handler thread turns each     *)
(* request into one HTTP request (query string, body, content type,        *)
(* method) chosen by the locator's query flags and the request type, and   *)
(* hands it to JsonRESTComponent::addJsonRESTClient with a callback; the   *)
(* HTTP client later calls the callback with the status and the body, and  *)
(* the callback publishes the final reply, or, for a JSON reply type, only *)
(* if the body parses and decodes.  The one-shot call does the same with a *)
(* promise in place of the facility output.                                *)
(*                                                                         *)
(* Data is abstracted to what decides the control flow: a request payload *)
(* is "form" once url-encoded, "json" once JSON-encoded, "raw" when the    *)
(* caller supplies query and body (ComplexInput); a reply body is          *)
(* "wrapped" ({"response": ...}), "bare" (the response itself) or          *)
(* "garbage" (not JSON, e.g. an error page).                               *)
(***************************************************************************)
EXTENDS Naturals, Sequences, FiniteSets

CONSTANTS
  Ids,       \* request ids
  Methods,   \* values of the http_method query flag ("" when absent)
  MaxReq     \* bound on requests placed by callers

VARIABLES
  cfg,       \* the locator flags and the Req/Resp kinds of this client
  handlerQ,  \* requests queued for the facility's handler thread
  http,      \* HTTP requests handed to addJsonRESTClient, in order
  answered,  \* indices of http whose callback has run
  out,       \* facility order output: [id, req], req the index in http
  promise    \* promise[i]: the one-shot call's promise for id i

vars == <<cfg, handlerQ, http, answered, out, promise>>

ReqKinds == {"csv", "empty", "json", "complex"}
RespKinds == {"raw", "status", "json"}
Configs ==
  [useGet : BOOLEAN, simplePost : BOOLEAN, noQueryBody : BOOLEAN,
   noWrap : BOOLEAN, method : Methods, req : ReqKinds, resp : RespKinds]
Bodies == {"wrapped", "bare", "garbage"}
NoMethod == "none"
HttpReqs ==
  [id : Ids, src : {"facility", "oneshot"}, query : {"", "form", "raw"},
   body : {"", "form", "json", "raw"}, ctype : STRING,
   method : (Methods \ {""}) \cup {"GET", NoMethod}]

\* The flags only count for a request type that can be written as
\* name=value pairs (IsStructFieldInfoBasedCsvCompatibleStruct or empty).
CsvLike(c) == c.req \in {"csv", "empty"}
UseGet(c) == c.useGet /\ CsvLike(c)
SimplePost(c) == c.simplePost /\ CsvLike(c)
EncodeInUrl(c) == c.noQueryBody /\ CsvLike(c)

\* The url-encoded pairs (oss, left empty for an empty request type) and the
\* JSON document (sendData.dump()).
Flagged(c) == UseGet(c) \/ SimplePost(c) \/ EncodeInUrl(c)
Form(c) == IF Flagged(c) /\ c.req = "csv" THEN "form" ELSE ""
Json(c) == IF Flagged(c) THEN "" ELSE "json"

\* mutant of MethodParam: the empty http_method is passed on as the method
MethodParamEmpty(c) ==
  IF c.method # "" \/ ~UseGet(c) THEN c.method ELSE "GET"

MethodParam(c) ==
  IF c.method # "" THEN c.method ELSE IF UseGet(c) THEN "GET" ELSE NoMethod

\* mutant of TypedRequest: the body ignores use_get and no_query_body
TypedRequestBodyFirst(c, i, ct, src) ==
  [id |-> i, src |-> src,
   query |-> IF UseGet(c) \/ EncodeInUrl(c) THEN Form(c) ELSE "",
   body |-> IF SimplePost(c) THEN Form(c) ELSE Json(c),
   ctype |-> ct, method |-> MethodParam(c)]

\* The HTTP request of the typed facility and of the one-shot call, with
\* the content type each of them passes.
TypedRequest(c, i, ct, src) ==
  [id |-> i, src |-> src,
   query |-> IF UseGet(c) \/ EncodeInUrl(c) THEN Form(c) ELSE "",
   body |-> IF UseGet(c) \/ EncodeInUrl(c) THEN ""
            ELSE IF SimplePost(c) THEN Form(c) ELSE Json(c),
   ctype |-> ct, method |-> MethodParam(c)]

\* ComplexInput facilities: query, body, content type and method come from
\* the request itself; path, headers and auth token go into the locator.
ComplexRequest(i) ==
  [id |-> i, src |-> "facility", query |-> "raw", body |-> "raw",
   ctype |-> "caller", method |-> NoMethod]

FacilityRequest(c, i) ==
  IF c.req = "complex" THEN ComplexRequest(i)
  ELSE TypedRequest(c, i, IF SimplePost(c) THEN "application/x-www-form-urlencoded"
                                           ELSE "application/json", "facility")

OneShotRequest(c, i) ==
  TypedRequest(c, i, IF SimplePost(c) THEN "x-www-form-urlencoded"
                                      ELSE "application/json", "oneshot")

\* The reply callback: whether a value is produced for the caller.  Raw and
\* status replies always are; a JSON reply only if it parses and
\* fromNlohmannJson accepts x (no_wrap) or x["response"].
Decodes(c, b) ==
  \/ c.resp # "json" \/ c.req = "complex"
  \/ b = "bare" /\ c.noWrap
  \/ b = "wrapped" /\ ~c.noWrap

-----------------------------------------------------------------------------
Request(i) ==
  /\ Len(http) + Len(handlerQ) < MaxReq
  /\ handlerQ' = Append(handlerQ, i)
  /\ UNCHANGED <<cfg, http, answered, out, promise>>

\* actuallyHandle: the request is encoded and handed to the HTTP client.
ActuallyHandle ==
  /\ handlerQ # <<>>
  /\ http' = Append(http, FacilityRequest(cfg, Head(handlerQ)))
  /\ handlerQ' = Tail(handlerQ)
  /\ UNCHANGED <<cfg, answered, out, promise>>

\* typedOneShotRemoteCall: builds the same request and returns the future
\* of a fresh promise.
OneShotCall(i) ==
  /\ cfg.req # "complex"
  /\ promise[i] = "none"
  /\ Len(http) + Len(handlerQ) < MaxReq
  /\ http' = Append(http, OneShotRequest(cfg, i))
  /\ promise' = [promise EXCEPT ![i] = "pending"]
  /\ UNCHANGED <<cfg, handlerQ, answered, out>>

\* The HTTP client calls the callback of request k with body b.
Callback(k, b) ==
  /\ k \notin answered
  /\ answered' = answered \cup {k}
  /\ LET h == http[k] IN
       IF h.src = "facility"
         THEN /\ out' = IF Decodes(cfg, b) THEN Append(out, [id |-> h.id, req |-> k])
                                           ELSE out
              /\ UNCHANGED promise
         ELSE /\ promise' = [promise EXCEPT ![h.id] =
                               IF Decodes(cfg, b) THEN "set" ELSE "pending"]
              /\ UNCHANGED out
  /\ UNCHANGED <<cfg, handlerQ, http>>

Init ==
  /\ cfg \in Configs
  /\ handlerQ = <<>>
  /\ http = <<>>
  /\ answered = {}
  /\ out = <<>>
  /\ promise = [i \in Ids |-> "none"]

Next ==
  \/ \E i \in Ids : Request(i) \/ OneShotCall(i)
  \/ ActuallyHandle
  \/ \E k \in DOMAIN http, b \in Bodies : Callback(k, b)

\* The handler thread runs, and the HTTP client calls back every request it
\* was given (with some body).
Fairness ==
  /\ WF_vars(ActuallyHandle)
  /\ \A k \in 1..MaxReq : WF_vars(k \in DOMAIN http /\ \E b \in Bodies : Callback(k, b))

Spec == Init /\ [][Next]_vars /\ Fairness

-----------------------------------------------------------------------------
TypeOK ==
  /\ cfg \in Configs
  /\ handlerQ \in Seq(Ids)
  /\ http \in Seq(HttpReqs)
  /\ answered \subseteq DOMAIN http
  /\ out \in Seq([id : Ids, req : DOMAIN http])
  /\ promise \in [Ids -> {"none", "pending", "set"}]

\* A request whose type carries data.
HasPayload == cfg.req \in {"csv", "json"}

\* Safety (actuallyHandle, typedOneShotRemoteCall): for every combination
\* of use_get, simple_post, no_query_body, no_wrap and http_method, a
\* request's data is sent exactly once, in the query string or in the
\* body, and url-encoded data only when the request type allows it.
PayloadSentOnce ==
  \A k \in DOMAIN http :
    LET h == http[k] IN
      /\ HasPayload => ((h.query # "") # (h.body # ""))
      /\ "form" \in {h.query, h.body} => cfg.req = "csv"

\* Whether request k has reached its caller: a final reply on the
\* facility's order output, or the one-shot call's promise set.
Completed(k) ==
  IF http[k].src = "facility" THEN \E j \in DOMAIN out : out[j].req = k
                              ELSE promise[http[k].id] = "set"

\* Liveness (reply callback of createClientFacility and of
\* typedOneShotRemoteCall): every request sent is eventually completed,
\* with a final reply or a set promise, whatever body the server returns.
RequestsComplete ==
  \A k \in 1..MaxReq : (k \in DOMAIN http) ~> (k \in DOMAIN http /\ Completed(k))

=============================================================================
