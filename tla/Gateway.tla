------------------------------- MODULE Gateway -------------------------------
(***************************************************************************)
(* The API gateway: one client connection and at most one exchange with a  *)
(* service per request, streamed in both directions.  Every action is one  *)
(* event of Node with everything its listeners do; the events of several   *)
(* requests, and of the two sockets of one request, interleave.            *)
(***************************************************************************)
EXTENDS GatewayRoutes, Integers, FiniteSets

CONSTANTS
  Requests,
  Paths,         \* the paths clients ask for
  Dependencies,  \* the services /api/health/ready asks
  Buckets,       \* the histogram has buckets 1 .. Buckets, the last for all
  None

ASSUME GatewayAssumption == Buckets \in Nat \ {0}

VARIABLES
  path,      \* the path of a request
  client,    \* whether the client still holds its connection
  uploaded,  \* requests that have arrived with their whole body
  upstream,  \* how far the exchange with the service has come
  service,   \* what the service does about the request, known to it only
  status,    \* response.statusCode
  response,  \* the stream to the client
  begun,     \* response.headersSent
  author,    \* who has ended the response
  probes,    \* the dependencies a readiness check has heard of: ready or not
  failure,   \* gatewayFailures: the outcome marked for a response
  observed,  \* what the access log says of a request, None before it
  metrics    \* GatewayMetrics.states: count and buckets of every series

upstreamVars == <<uploaded, upstream, service>>
responseVars == <<status, response, begun, author, probes>>
recordVars == <<failure, observed, metrics>>
clientVars == <<path, client>>
vars == <<clientVars, upstreamVars, responseVars, recordVars>>

Statuses == {200, 401, 404, 409, 499, 500, 502, 503}
Outcomes == {"completed", "downstream_closed", "upstream_aborted", "upstream_request_error"}
Entries == [status : Statuses, outcome : Outcomes]   \* what the log says of a request
Series == {metricRouteLabel(p) : p \in Paths} \X Statuses

ASSUME NoneAssumption == None \notin Outcomes /\ None \notin Entries

TypeOK ==
  /\ path \in [Requests -> Paths \cup {None}]
  /\ client \in [Requests -> {"absent", "waiting", "gone"}]
  /\ uploaded \subseteq Requests
  /\ upstream \in [Requests -> {"none", "asked", "head", "body", "whole", "over"}]
  /\ service \in [Requests -> {"unaware", "acted", "refused"}]
  /\ status \in [Requests -> Statuses]
  /\ response \in [Requests -> {"open", "ended", "finished", "destroyed", "closed"}]
  /\ begun \subseteq Requests
  /\ author \in [Requests -> {"nobody", "service", "gateway", "mixed"}]
  /\ probes \in [Requests -> [Dependencies -> {"asked", "ready", "unready"}]]
  /\ failure \in [Requests -> Outcomes \cup {None}]
  /\ observed \in [Requests -> Entries \cup {None}]
  /\ DOMAIN metrics \subseteq Series
  /\ \A s \in DOMAIN metrics : metrics[s] \in [count : Nat, buckets : [1 .. Buckets -> Nat]]

Init ==
  /\ path = [r \in Requests |-> None]
  /\ client = [r \in Requests |-> "absent"]
  /\ uploaded = {}
  /\ upstream = [r \in Requests |-> "none"]
  /\ service = [r \in Requests |-> "unaware"]
  /\ status = [r \in Requests |-> 200]
  /\ response = [r \in Requests |-> "open"]
  /\ begun = {}
  /\ author = [r \in Requests |-> "nobody"]
  /\ probes = [r \in Requests |-> [d \in Dependencies |-> "asked"]]
  /\ failure = [r \in Requests |-> None]
  /\ observed = [r \in Requests |-> None]
  /\ metrics = <<>>

Proxied(p) == resolveGatewayRoute(p).target \in {"catalog", "marketplace", "legacy"}
Reaches(r, where) == upstream' = [upstream EXCEPT ![r] = where]
Becomes(r, how) == response' = [response EXCEPT ![r] = how]
Ended(r) == response[r] \in {"ended", "finished"}     \* response.writableEnded

-----------------------------------------------------------------------------
(* Observability *)

\* One more request, whose duration fits the given bucket and all larger ones.
Counted(state, bucket) ==
  [count |-> state.count + 1,
   buckets |-> [b \in 1 .. Buckets |-> state.buckets[b] + (IF b >= bucket THEN 1 ELSE 0)]]

NewState == [count |-> 0, buckets |-> [b \in 1 .. Buckets |-> 0]]

observe(r, code) ==
  \E bucket \in 1 .. Buckets :
    LET key == <<metricRouteLabel(path[r]), code>>
        state == IF key \in DOMAIN metrics THEN metrics[key] ELSE NewState IN
    metrics' = [s \in DOMAIN metrics \cup {key} |->
                  IF s = key THEN Counted(state, bucket) ELSE metrics[s]]

\* Variant with a bug: no guard against the second of 'finish' and 'close'.
FinalizeTwice(r, ended, code) ==
  LET shown == IF failure[r] # None THEN 502 ELSE IF ended THEN code ELSE 499
      outcome == IF failure[r] # None THEN failure[r]
                 ELSE IF ended THEN "completed" ELSE "downstream_closed" IN
  /\ observed' = [observed EXCEPT ![r] = [status |-> shown, outcome |-> outcome]]
  /\ observe(r, shown)

\* 'finish' and 'close' both run finalize; the first one counts.
finalize(r, ended, code) ==
  IF observed[r] # None THEN UNCHANGED <<observed, metrics>>
  ELSE LET shown == IF failure[r] # None THEN 502 ELSE IF ended THEN code ELSE 499
           outcome == IF failure[r] # None THEN failure[r]
                      ELSE IF ended THEN "completed" ELSE "downstream_closed" IN
       /\ observed' = [observed EXCEPT ![r] = [status |-> shown, outcome |-> outcome]]
       /\ observe(r, shown)

markGatewayFailure(r, outcome) == failure' = [failure EXCEPT ![r] = outcome]

\* The middleware, then the proxy or the controllers of the gateway.
Arrive(r) ==
  /\ client[r] = "absent"
  /\ client' = [client EXCEPT ![r] = "waiting"]
  /\ \E p \in Paths :
       /\ path' = [path EXCEPT ![r] = p]
       /\ Reaches(r, IF Proxied(p) THEN "asked" ELSE "none")
  /\ uploaded' \in {uploaded, uploaded \cup {r}}
  /\ UNCHANGED <<service, responseVars, recordVars>>

\* 'finish': the last byte has been handed to the socket, and 'close' follows.
Finish(r) ==
  /\ response[r] = "ended"
  /\ Becomes(r, "finished")
  /\ finalize(r, TRUE, status[r])
  /\ UNCHANGED <<clientVars, upstreamVars, status, begun, author, probes, failure>>

\* 'close' after 'finish'; the client keeps or drops the connection.
CloseFinished(r) ==
  /\ response[r] = "finished"
  /\ Becomes(r, "closed")
  /\ finalize(r, TRUE, status[r])
  /\ UNCHANGED <<clientVars, upstreamVars, status, begun, author, probes, failure>>

\* 'close' after response.destroy.
CloseDestroyed(r) ==
  /\ response[r] = "destroyed"
  /\ Becomes(r, "closed")
  /\ client' = [client EXCEPT ![r] = "gone"]
  /\ finalize(r, FALSE, status[r])
  /\ UNCHANGED <<path, upstreamVars, status, begun, author, probes, failure>>

-----------------------------------------------------------------------------
(* The proxy *)

\* The last byte of the request arrives and is passed on.
UploadEnds(r) ==
  /\ client[r] = "waiting" /\ r \notin uploaded
  /\ uploaded' = uploaded \cup {r}
  /\ UNCHANGED <<clientVars, upstream, service, responseVars, recordVars>>

\* The service carries the request out, which it must have read to the end, or
\* refuses to, for which the head may do; it neither knows nor cares whether the
\* gateway still waits.
ServiceDecides(r) ==
  /\ service[r] = "unaware" /\ upstream[r] # "none"
  /\ \/ r \in uploaded /\ service' = [service EXCEPT ![r] = "acted"]
     \/ service' = [service EXCEPT ![r] = "refused"]
  /\ UNCHANGED <<clientVars, uploaded, upstream, responseVars, recordVars>>

\* Variant with a bug: the head is written before the service has answered.
AnswersFor(r) ==
  IF service[r] = "acted" THEN {200, 500}
  ELSE IF service[r] = "refused" THEN {409} ELSE {200}

\* What the service answers; an error of its own says nothing about the effect.
Answers(r) ==
  IF service[r] = "acted" THEN {200, 500}
  ELSE IF service[r] = "refused" THEN {409} ELSE {500}

\* The response callback: status and headers are copied, and the pipe starts.
UpstreamHead(r) ==
  /\ upstream[r] = "asked" /\ response[r] = "open"
  /\ \E code \in Answers(r) : status' = [status EXCEPT ![r] = code]
  /\ Reaches(r, "head")
  /\ UNCHANGED <<clientVars, uploaded, service, response, begun, author, probes, recordVars>>

\* The first chunk of the body goes through the pipe, and the head with it.
UpstreamChunk(r) ==
  /\ upstream[r] = "head" /\ response[r] = "open"
  /\ begun' = begun \cup {r}
  /\ Reaches(r, "body")
  /\ UNCHANGED <<clientVars, uploaded, service, status, response, author, probes, recordVars>>

\* 'end': the pipe ends the response.
UpstreamEnd(r) ==
  /\ upstream[r] \in {"head", "body"} /\ response[r] = "open"
  /\ Reaches(r, "whole")
  /\ begun' = begun \cup {r}
  /\ Becomes(r, "ended")
  /\ author' = [author EXCEPT ![r] = "service"]
  /\ UNCHANGED <<clientVars, uploaded, service, status, probes, recordVars>>

terminateDownstream(r) ==
  IF Ended(r) \/ response[r] # "open" THEN UNCHANGED <<response, failure>>
  ELSE Becomes(r, "destroyed") /\ markGatewayFailure(r, "upstream_aborted")

\* 'aborted': the service closes the connection in the middle of its answer.
UpstreamAborted(r) ==
  /\ upstream[r] \in {"head", "body"}
  /\ Reaches(r, "over")
  /\ terminateDownstream(r)
  /\ UNCHANGED <<clientVars, uploaded, service, status, begun, author, probes, observed, metrics>>

\* Variant with a bug: a failure is not marked.
ForgetsToMark(r) ==
  IF r \in begun THEN /\ IF response[r] \in {"open", "ended"} THEN Becomes(r, "destroyed") ELSE UNCHANGED response
                      /\ UNCHANGED <<status, begun, author, failure>>
  ELSE IF response[r] # "open" THEN UNCHANGED <<status, response, begun, author, failure>>
  ELSE /\ status' = [status EXCEPT ![r] = 502]
       /\ author' = [author EXCEPT ![r] = IF upstream[r] = "head" THEN "mixed" ELSE "gateway"]
       /\ begun' = begun \cup {r}
       /\ Becomes(r, "ended")
       /\ UNCHANGED failure

\* upstreamRequest.on('error'): too late for an answer, or the gateway's own,
\* under the headers of the service when these have been copied already.
\* Once the client is gone the answer is written to nobody.
AnswerError(r) ==
  IF r \in begun THEN /\ markGatewayFailure(r, "upstream_request_error")
                      /\ IF response[r] \in {"open", "ended"} THEN Becomes(r, "destroyed") ELSE UNCHANGED response
                      /\ UNCHANGED <<status, begun, author>>
  ELSE IF response[r] # "open" THEN UNCHANGED <<status, response, begun, author, failure>>
  ELSE /\ status' = [status EXCEPT ![r] = 502]
       /\ author' = [author EXCEPT ![r] = IF upstream[r] = "head" THEN "mixed" ELSE "gateway"]
       /\ begun' = begun \cup {r}
       /\ Becomes(r, "ended")
       /\ UNCHANGED failure

\* The connection is refused or reset, or nothing has moved on it for 15 s:
\* possible as long as one of the two directions is under way.
UpstreamError(r) ==
  /\ \/ upstream[r] \in {"asked", "head", "body"}
     \/ upstream[r] = "whole" /\ r \notin uploaded
  /\ Reaches(r, "over")
  /\ AnswerError(r)
  /\ UNCHANGED <<clientVars, uploaded, service, probes, observed, metrics>>

\* Variant with a bug: the service is left to its work.
KeepsUpstream(r) == UNCHANGED upstream

\* request 'aborted', if the body is not complete; response 'close', if the
\* response is not ended.
ReleaseUpstream(r) ==
  IF /\ r \notin uploaded \/ response[r] \in {"open", "destroyed"}
     /\ upstream[r] # "none"
  THEN Reaches(r, "over") ELSE UNCHANGED upstream

\* The client's socket closes: everything happens in one turn of the loop.
ClientLeaves(r) ==
  /\ client[r] = "waiting"
  /\ client' = [client EXCEPT ![r] = "gone"]
  /\ ReleaseUpstream(r)
  /\ IF response[r] \in {"open", "ended", "destroyed"}
     THEN Becomes(r, "closed") /\ finalize(r, Ended(r), status[r])
     ELSE UNCHANGED <<response, observed, metrics>>
  /\ UNCHANGED <<path, uploaded, service, status, begun, author, probes, failure>>

-----------------------------------------------------------------------------
(* The gateway's own routes *)

\* AbortSignal.timeout(3000): every probe is answered or fails.
Probe(r, d) ==
  /\ client[r] # "absent" /\ path[r] = <<"api", "health", "ready">>
  /\ probes[r][d] = "asked"
  /\ \E result \in {"ready", "unready"} : probes' = [probes EXCEPT ![r][d] = result]
  /\ UNCHANGED <<clientVars, upstreamVars, status, response, begun, author, recordVars>>

\* live and ready, the metrics for those who may have them, 404 for the rest.
LocalAnswers(r) ==
  IF path[r] = <<"api", "health", "live">> THEN {200}
  ELSE IF path[r] = <<"api", "health", "ready">>
  THEN IF \E d \in Dependencies : probes[r][d] = "asked" THEN {}
       ELSE IF \A d \in Dependencies : probes[r][d] = "ready" THEN {200} ELSE {503}
  ELSE IF path[r] = <<"api", "metrics">> THEN {200, 401} ELSE {404}

AnswerLocally(r) ==
  /\ client[r] # "absent" /\ ~Proxied(path[r]) /\ response[r] = "open"
  /\ \E code \in LocalAnswers(r) : status' = [status EXCEPT ![r] = code]
  /\ author' = [author EXCEPT ![r] = "gateway"]
  /\ begun' = begun \cup {r}
  /\ Becomes(r, "ended")
  /\ UNCHANGED <<clientVars, upstreamVars, probes, recordVars>>

-----------------------------------------------------------------------------
NodeStep(r) ==
  \/ Finish(r) \/ CloseFinished(r) \/ CloseDestroyed(r) \/ AnswerLocally(r)
  \/ \E d \in Dependencies : Probe(r, d)

UpstreamStep(r) ==
  UpstreamHead(r) \/ UpstreamChunk(r) \/ UpstreamEnd(r) \/ UpstreamAborted(r) \/ UpstreamError(r)

ClientStep(r) == Arrive(r) \/ UploadEnds(r) \/ ClientLeaves(r)

Next == \E r \in Requests : NodeStep(r) \/ UpstreamStep(r) \/ ServiceDecides(r) \/ ClientStep(r)

Spec == Init /\ [][Next]_vars
FairSpec == Spec /\ \A r \in Requests : WF_vars(NodeStep(r)) /\ WF_vars(UpstreamStep(r))

-----------------------------------------------------------------------------
Label(r) == metricRouteLabel(path[r])
Under(r) == <<Label(r), observed[r].status>>
Logged == {r \in Requests : observed[r] # None}

Cumulative(state) ==
  /\ state.buckets[Buckets] = state.count
  /\ \A b \in 1 .. Buckets - 1 : state.buckets[b] <= state.buckets[b + 1]

\* Every answered request counts once, in the series of what was logged of it,
\* and the buckets of a histogram are cumulative: 'finish', 'close', the error
\* listeners and the timeout may all run for one request, and two requests may
\* end in any order.
MetricsAgree ==
  /\ \A r \in Logged : Under(r) \in DOMAIN metrics
  /\ \A s \in DOMAIN metrics :
       metrics[s].count = Cardinality({r \in Logged : Under(r) = s}) /\ Cumulative(metrics[s])

LogSays(r) ==
  /\ observed[r].outcome = "completed" =>
       author[r] # "nobody" /\ observed[r].status = status[r]
  /\ observed[r].outcome = "downstream_closed" =>
       author[r] = "nobody" /\ observed[r].status = 499 /\ client[r] = "gone"
  /\ observed[r].outcome \in {"upstream_aborted", "upstream_request_error"} =>
       observed[r].status = 502 /\ upstream[r] = "over" /\ client[r] = "gone"

\* The access log tells the truth about an answer: "completed" when the service
\* or the gateway has ended it, 499 when the client left before, a failure of
\* the service when the client was cut off for it and for nothing else.
LogIsTrue == \A r \in Logged : LogSays(r)

\* A client that has left keeps no exchange with a service alive, however far
\* that exchange has come.
NoOrphanExchange ==
  \A r \in Requests : client[r] = "gone" => upstream[r] \notin {"asked", "head", "body"}

\* What the client of a service has been told when its request is logged.
Told(r) ==
  IF client[r] = "absent" \/ ~Proxied(path[r]) THEN "unsent"
  ELSE IF observed[r] = None THEN "pending"
  ELSE IF observed[r].outcome # "completed" \/ author[r] = "mixed" THEN "cut"
  ELSE IF status[r] = 200 THEN "done"
  ELSE IF status[r] = 409 THEN "refused"
  ELSE "error"

Effect(r) == IF service[r] = "unaware" THEN "none" ELSE service[r]

AllTold == [r \in Requests |-> Told(r)]
AllEffects == [r \in Requests |-> Effect(r)]

H == INSTANCE HttpCall WITH Calls <- Requests, answer <- AllTold, effect <- AllEffects

\* Through timeouts, resets, early answers and clients that leave, the gateway
\* never tells of an effect that is not there, and answers every call.
ImplementsHttpCall == H!Spec

\* Leaving fairness aside.
KeepsHttpCall == H!Init /\ [][H!Next]_H!vars
=============================================================================
