----------------------------- MODULE GatewayProofs -----------------------------
(***************************************************************************)
(* Theorems about the gateway, for any requests, paths and dependencies:   *)
(* its two tables agree, the log tells the truth, no exchange outlives its *)
(* client, and every step keeps the promise of HttpCall.                   *)
(***************************************************************************)
EXTENDS Gateway, FiniteSetTheorems, TLAPS

\* A label with a star is not the label of unknown paths.
LEMMA StarIsKnown ==
  ASSUME NEW p \in CatalogPaths \cup MarketplacePaths \cup {Auth}
  PROVE  Append(p, "*") # Unknown
BY DEF CatalogPaths, MarketplacePaths, Auth, Unknown

\* The service that a label of the metrics names.
LabelService(label) ==
  IF label \in Local THEN "gateway"
  ELSE IF label = Summary \/ \E p \in CatalogPaths : label \in {p, Append(p, "*")} THEN "catalog"
  ELSE IF \E p \in MarketplacePaths : label \in {p, Append(p, "*")} THEN "marketplace"
  ELSE IF label = Append(Auth, "*") THEN "legacy" ELSE "none"

\* The segments of the prefixes.
Words == {"api", "auth", "listings", "moderation", "proposals", "transactions"}

\* Tuples are sequences.
LEMMA Tuples ==
  ASSUME NEW S, NEW a \in S, NEW b \in S, NEW c \in S
  PROVE  /\ <<a, b>> \in Seq(S) /\ Len(<<a, b>>) = 2
         /\ <<a, b, c>> \in Seq(S) /\ Len(<<a, b, c>>) = 3
BY SMT

\* A prefix has two segments or more, and a star after it leaves its second.
LEMMA Segments ==
  ASSUME NEW p \in CatalogPaths \cup MarketplacePaths \cup {Auth}
  PROVE  /\ p \in Seq(Words) /\ Len(p) \in Nat /\ Len(p) >= 2
         /\ Append(p, "*")[2] = p[2]
<1>1. CASE p = <<"api", "moderation", "listings">>
  BY <1>1, Tuples DEF Words
<1>2. ASSUME NEW word \in Words, p = <<"api", word>>
      PROVE  p \in Seq(Words) /\ Len(p) = 2
  BY <1>2, Tuples DEF Words
<1>3. p \in Seq(Words) /\ Len(p) \in Nat /\ Len(p) >= 2
  <2>1. CASE p \in {<<"api", "listings">>, <<"api", "proposals">>, <<"api", "transactions">>,
                   <<"api", "auth">>}
    <3>1. Len(p) = 2 /\ p \in Seq(Words)
      BY <1>2, <2>1 DEF Words
    <3> QED BY <3>1
  <2> QED BY <1>1, <2>1, Tuples DEF CatalogPaths, MarketplacePaths, Auth, Words
<1> QED BY <1>3 DEF Words

\* The second segment tells the prefixes apart.
LEMMA SecondSegment ==
  ASSUME NEW S, NEW asked \in Seq(S), NEW p \in CatalogPaths \cup MarketplacePaths \cup {Auth},
         AtOrBelow(p, asked)
  PROVE  asked[2] = p[2]
<1>1. ASSUME IsPrefix(p, asked) PROVE asked[2] = p[2]
  <2>1. SubSeq(p, 1, Len(p)) = SubSeq(asked, 1, Len(p)) /\ Len(p) <= Len(asked)
    BY <1>1 DEF IsPrefix
  <2>2. SubSeq(p, 1, Len(p))[2] = p[2] /\ SubSeq(asked, 1, Len(p))[2] = asked[2]
    BY Segments, <2>1
  <2> QED BY <2>1, <2>2
<1> QED BY <1>1 DEF AtOrBelow, Below

\* A path is at or below one prefix at most.
LEMMA OnePrefix ==
  ASSUME NEW S, NEW asked \in Seq(S),
         NEW p \in CatalogPaths \cup MarketplacePaths \cup {Auth}, AtOrBelow(p, asked),
         NEW q \in CatalogPaths \cup MarketplacePaths \cup {Auth}, AtOrBelow(q, asked)
  PROVE  p = q
<1>1. p[2] = q[2]
  BY SecondSegment
<1> QED BY <1>1 DEF CatalogPaths, MarketplacePaths, Auth

\* Every path is sent to the service that its label names, and counted as
\* unknown exactly if it is sent to none: routes.ts and observability.ts list
\* the same prefixes for the same services.
THEOREM TablesAgree ==
  ASSUME NEW S, NEW asked \in Seq(S)
  PROVE  /\ resolveGatewayRoute(asked).target = LabelService(metricRouteLabel(asked))
         /\ metricRouteLabel(asked) = Unknown <=> resolveGatewayRoute(asked) = NoRoute
<1> DEFINE prefixes == CatalogPaths \cup MarketplacePaths
           exact == Local \cup {Summary} \cup prefixes
           below == {p \in prefixes : Below(p, asked)}
           target == resolveGatewayRoute(asked).target
           label == metricRouteLabel(asked)
<1>1. ASSUME asked \in Local PROVE target = "gateway" /\ label = asked
  BY <1>1 DEF resolveGatewayRoute, metricRouteLabel
<1>2. ASSUME asked \in {Summary} \cup CatalogPaths PROVE target = "catalog" /\ label = asked
  <2>1. asked \notin Local
    BY <1>2 DEF Local, Summary, CatalogPaths
  <2> QED BY <1>2, <2>1 DEF resolveGatewayRoute, metricRouteLabel, AtOrBelow
<1>3. ASSUME asked \in MarketplacePaths PROVE target = "marketplace" /\ label = asked
  <2>1. asked \notin Local /\ asked # Summary
    BY <1>3 DEF Local, Summary, MarketplacePaths
  <2>2. ASSUME NEW p \in CatalogPaths, AtOrBelow(p, asked) PROVE FALSE
    <3>1. p = asked
      BY <1>3, <2>2, OnePrefix DEF AtOrBelow
    <3> QED BY <1>3, <3>1 DEF CatalogPaths, MarketplacePaths
  <2> QED BY <1>3, <2>1, <2>2 DEF resolveGatewayRoute, metricRouteLabel, AtOrBelow
<1>4. ASSUME asked \notin exact, AtOrBelow(Auth, asked)
      PROVE  target = "legacy" /\ label = Append(Auth, "*")
  <2>1. ASSUME NEW p \in prefixes, AtOrBelow(p, asked) PROVE FALSE
    <3>1. p = Auth
      BY <1>4, <2>1, OnePrefix
    <3> QED BY <3>1 DEF CatalogPaths, MarketplacePaths, Auth
  <2> QED BY <1>4, <2>1 DEF resolveGatewayRoute, metricRouteLabel
<1>5. ASSUME asked \notin exact, ~AtOrBelow(Auth, asked), NEW p \in prefixes, Below(p, asked)
      PROVE  /\ target = IF p \in CatalogPaths THEN "catalog" ELSE "marketplace"
             /\ label = Append(p, "*")
  <2>1. \A q \in prefixes : AtOrBelow(q, asked) <=> q = p
    BY <1>5, OnePrefix DEF AtOrBelow
  <2>2. below = {p}
    BY <1>5, <2>1 DEF AtOrBelow
  <2>3. label = Append(p, "*")
    BY <1>5, <2>2 DEF metricRouteLabel
  <2>4. target = IF p \in CatalogPaths THEN "catalog" ELSE "marketplace"
    BY <1>5, <2>1 DEF resolveGatewayRoute
  <2> QED BY <2>3, <2>4
<1>6. ASSUME asked \notin exact, ~AtOrBelow(Auth, asked), below = {}
      PROVE  resolveGatewayRoute(asked) = NoRoute /\ label = Unknown
  BY <1>6 DEF resolveGatewayRoute, metricRouteLabel, AtOrBelow
<1>7. /\ target = LabelService(label)
      /\ asked \in exact \/ AtOrBelow(Auth, asked) \/ below # {} => label # Unknown /\ target # "none"
  <2>1. CASE asked \in Local
    <3>1. asked # Unknown
      BY <2>1 DEF Local, Unknown
    <3> QED BY <1>1, <2>1, <3>1 DEF LabelService
  <2>2. CASE asked \in {Summary} \cup CatalogPaths
    <3>1. asked \notin Local /\ asked # Unknown
      BY <2>2 DEF Local, Summary, CatalogPaths, Unknown
    <3> QED BY <1>2, <2>2, <3>1 DEF LabelService
  <2>3. CASE asked \in MarketplacePaths
    <3>1. asked \notin Local /\ asked # Summary /\ asked # Unknown
      BY <2>3 DEF Local, Summary, MarketplacePaths, Unknown
    <3>2. \A p \in CatalogPaths : asked \notin {p, Append(p, "*")}
      <4>1. \A p \in CatalogPaths : Append(p, "*")[2] = p[2]
        BY Segments
      <4> QED BY <2>3, <4>1 DEF CatalogPaths, MarketplacePaths
    <3> QED BY <1>3, <2>3, <3>1, <3>2 DEF LabelService
  <2>4. CASE asked \notin exact /\ AtOrBelow(Auth, asked)
    BY <1>4, <2>4 DEF LabelService, Local, Summary, CatalogPaths, MarketplacePaths, Auth, Unknown
  <2>5. CASE asked \notin exact /\ ~AtOrBelow(Auth, asked) /\ below # {}
    <3>1. PICK p \in prefixes : Below(p, asked)
      BY <2>5
    <3>2. label # Unknown
      BY <1>5, <2>5, <3>1, StarIsKnown
    <3>3. Append(p, "*") \notin Local
      <4>1. \A l \in Local : l[2] # p[2]
        BY DEF Local, CatalogPaths, MarketplacePaths
      <4> QED BY <4>1, Segments
    <3>4. CASE p \in CatalogPaths
      BY <1>5, <2>5, <3>1, <3>2, <3>3, <3>4 DEF LabelService
    <3>5. CASE p \in MarketplacePaths
      <4>1. Append(p, "*") # Summary /\ p \notin CatalogPaths
        <5>1. Summary[2] # p[2] /\ p \notin CatalogPaths
          BY <3>5 DEF Summary, CatalogPaths, MarketplacePaths
        <5> QED BY <5>1, Segments
      <4>2. \A q \in CatalogPaths : Append(p, "*") \notin {q, Append(q, "*")}
        <5>1. \A q \in CatalogPaths : q[2] # p[2]
          BY <3>5 DEF CatalogPaths, MarketplacePaths
        <5> QED BY <5>1, Segments
      <4>3. target = "marketplace" /\ label = Append(p, "*")
        BY <1>5, <2>5, <3>1, <4>1
      <4> QED BY <3>2, <3>3, <3>5, <4>1, <4>2, <4>3 DEF LabelService
    <3> QED BY <3>1, <3>4, <3>5
  <2>6. CASE asked \notin exact /\ ~AtOrBelow(Auth, asked) /\ below = {}
    BY <1>6, <2>6 DEF LabelService, NoRoute, Unknown, Local, Summary, CatalogPaths,
      MarketplacePaths, Auth
  <2> QED BY <2>1, <2>2, <2>3, <2>4, <2>5, <2>6
<1> QED BY <1>6, <1>7 DEF NoRoute

-----------------------------------------------------------------------------
(* The inductive invariant *)

\* How far the two connections of a request are tells what has been said about
\* it: before the first 'finish' or 'close' nothing is logged, a response that
\* is over has released its exchange, and one that was destroyed has failed.
Consistent(r) ==
  /\ client[r] = "absent" => upstream[r] = "none" /\ response[r] = "open" /\ service[r] = "unaware"
  /\ client[r] # "absent" => path[r] \in Paths /\ (upstream[r] # "none" <=> Proxied(path[r]))
  /\ client[r] = "gone" => response[r] \in {"finished", "closed"}
  /\ response[r] # "open" => upstream[r] \in {"none", "whole", "over"}
  /\ response[r] = "open" => author[r] = "nobody" /\ failure[r] = None
  /\ response[r] \in {"ended", "finished"} => author[r] # "nobody"
  /\ response[r] = "ended" => failure[r] = None
  /\ response[r] = "destroyed" =>
       /\ upstream[r] = "over"
       /\ failure[r] \in {"upstream_aborted", "upstream_request_error"}
  /\ observed[r] # None <=> response[r] \in {"finished", "closed"}

\* What is being passed on, or has been, is what the service did; the gateway
\* itself answers a proxied request with 502 only.
Truthful(r) ==
  /\ upstream[r] \in {"head", "body", "whole"} \/ author[r] = "service" =>
       /\ status[r] = 200 => service[r] = "acted"
       /\ status[r] = 409 => service[r] = "refused"
  /\ Proxied(path[r]) /\ author[r] = "gateway" => status[r] = 502

GatewayInv ==
  /\ TypeOK /\ LogIsTrue
  /\ \A r \in Requests : Consistent(r) /\ Truthful(r)

\* A request that has not arrived is not spoken of.
LEMMA InitIsSound == Init => GatewayInv
<1> SUFFICES ASSUME Init PROVE GatewayInv
  OBVIOUS
<1>1. TypeOK
  BY DEF Init, TypeOK, Statuses
<1>2. LogIsTrue
  BY DEF Init, LogIsTrue, Logged
<1>3. ASSUME NEW r \in Requests PROVE Consistent(r) /\ Truthful(r)
  BY DEF Init, Consistent, Truthful
<1> QED
  BY <1>1, <1>2, <1>3 DEF GatewayInv

\* Counting keeps the metrics what they are.
LEMMA ObserveTypes ==
  ASSUME TypeOK, NEW r \in Requests, path[r] \in Paths, NEW code \in Statuses, observe(r, code)
  PROVE  /\ DOMAIN metrics' \subseteq Series
         /\ \A s \in DOMAIN metrics' : metrics'[s] \in [count : Nat, buckets : [1 .. Buckets -> Nat]]
<1> DEFINE States == [count : Nat, buckets : [1 .. Buckets -> Nat]]
           key == <<metricRouteLabel(path[r]), code>>
           state == IF key \in DOMAIN metrics THEN metrics[key] ELSE NewState
<1>1. key \in Series
  BY DEF Series
<1>2. NewState \in States
  BY DEF NewState
<1>3. state \in States
  BY <1>2 DEF TypeOK
<1> HIDE DEF state, key
<1>4. ASSUME NEW bucket \in 1 .. Buckets PROVE Counted(state, bucket) \in States
  <2>1. state.count + 1 \in Nat
    BY <1>3
  <2>2. ASSUME NEW b \in 1 .. Buckets
        PROVE  state.buckets[b] + (IF b >= bucket THEN 1 ELSE 0) \in Nat
    <3>1. state.buckets[b] \in Nat
      BY <1>3
    <3>2. (IF b >= bucket THEN 1 ELSE 0) \in Nat
      OBVIOUS
    <3> QED
      BY <3>1, <3>2
  <2> QED
    BY <2>1, <2>2 DEF Counted
<1>5. PICK bucket \in 1 .. Buckets :
        metrics' = [s \in DOMAIN metrics \cup {key} |->
                      IF s = key THEN Counted(state, bucket) ELSE metrics[s]]
  BY DEF observe, state, key
<1>6. DOMAIN metrics' \subseteq Series
  BY <1>1, <1>5 DEF TypeOK
<1>7. \A s \in DOMAIN metrics' : metrics'[s] \in States
  BY <1>4, <1>5 DEF TypeOK
<1> QED
  BY <1>6, <1>7

-----------------------------------------------------------------------------
(* What the steps have in common *)

RecordTypeOK ==
  /\ observed \in [Requests -> Entries \cup {None}]
  /\ DOMAIN metrics \subseteq Series
  /\ \A s \in DOMAIN metrics : metrics[s] \in [count : Nat, buckets : [1 .. Buckets -> Nat]]

\* What finalize writes for a request that has no log line yet.
Line(r, ended, code) ==
  [status |-> IF failure[r] # None THEN 502 ELSE IF ended THEN code ELSE 499,
   outcome |-> IF failure[r] # None THEN failure[r]
               ELSE IF ended THEN "completed" ELSE "downstream_closed"]

\* finalize writes one line, and leaves a request that has one alone.
LEMMA FinalizeWrites ==
  ASSUME TypeOK, NEW r \in Requests, path[r] \in Paths,
         NEW ended \in BOOLEAN, NEW code \in Statuses, finalize(r, ended, code)
  PROVE  /\ RecordTypeOK'
         /\ observed' = IF observed[r] # None THEN observed
                        ELSE [observed EXCEPT ![r] = Line(r, ended, code)]
<1>1. CASE observed[r] # None
  BY <1>1 DEF finalize, RecordTypeOK, TypeOK
<1>2. CASE observed[r] = None
  <2>1. Line(r, ended, code) \in Entries
    BY DEF Line, Entries, Statuses, Outcomes, TypeOK
  <2>2. Line(r, ended, code).status \in Statuses
    BY <2>1 DEF Entries
  <2>3. observed' = [observed EXCEPT ![r] = Line(r, ended, code)]
    BY <1>2 DEF finalize, Line
  <2>4. observe(r, Line(r, ended, code).status)
    BY <1>2 DEF finalize, Line
  <2> HIDE DEF Line
  <2> QED
    BY <1>2, <2>1, <2>2, <2>3, <2>4, ObserveTypes DEF RecordTypeOK, TypeOK
<1> QED
  BY <1>1, <1>2

\* A step that leaves a request alone keeps what is true of it.
Same(s) ==
  /\ path'[s] = path[s] /\ client'[s] = client[s] /\ upstream'[s] = upstream[s]
  /\ service'[s] = service[s] /\ status'[s] = status[s] /\ response'[s] = response[s]
  /\ author'[s] = author[s] /\ failure'[s] = failure[s] /\ observed'[s] = observed[s]

OneSound(r) == Consistent(r) /\ Truthful(r) /\ (observed[r] # None => LogSays(r))

LEMMA OthersStaySound ==
  ASSUME NEW s \in Requests, OneSound(s), Same(s)
  PROVE  OneSound(s)'
BY DEF OneSound, Same, Consistent, Truthful, LogSays, Proxied

LEMMA SoundTogether ==
  GatewayInv <=> TypeOK /\ \A r \in Requests : OneSound(r)
BY DEF GatewayInv, OneSound, LogIsTrue, Logged

\* It is enough to look at the request whose event it is.
LEMMA StepIsSound ==
  ASSUME GatewayInv, NEW r \in Requests, TypeOK', OneSound(r)',
         \A s \in Requests \ {r} : Same(s)
  PROVE  GatewayInv'
<1>1. ASSUME NEW s \in Requests PROVE OneSound(s)'
  BY OthersStaySound, SoundTogether
<1> QED
  BY <1>1, SoundTogether DEF GatewayInv, OneSound, LogIsTrue, Logged

-----------------------------------------------------------------------------
(* One lemma per event *)

LEMMA ArriveKeeps == ASSUME GatewayInv, NEW r \in Requests, Arrive(r) PROVE GatewayInv'
<1>1. TypeOK'
  BY DEF Arrive, GatewayInv, TypeOK, Reaches, responseVars, recordVars
<1>2. OneSound(r)'
  BY DEF Arrive, GatewayInv, TypeOK, Reaches, responseVars, recordVars, OneSound, Consistent, Truthful, Proxied
<1>3. \A s \in Requests \ {r} : Same(s)
  BY DEF Arrive, GatewayInv, TypeOK, Reaches, responseVars, recordVars, Same
<1> QED
  BY <1>1, <1>2, <1>3, StepIsSound

LEMMA UploadKeeps == ASSUME GatewayInv, NEW r \in Requests, UploadEnds(r) PROVE GatewayInv'
<1> USE DEF UploadEnds, clientVars, upstreamVars, responseVars, recordVars
<1>1. TypeOK'
  BY DEF GatewayInv, TypeOK
<1>2. OneSound(r)'
  BY DEF GatewayInv, TypeOK, OneSound, Consistent, Truthful, Proxied, LogIsTrue, LogSays, Logged
<1>3. \A s \in Requests \ {r} : Same(s)
  BY DEF GatewayInv, TypeOK, Same
<1> QED
  BY <1>1, <1>2, <1>3, StepIsSound

LEMMA DecisionKeeps == ASSUME GatewayInv, NEW r \in Requests, ServiceDecides(r) PROVE GatewayInv'
<1> USE DEF ServiceDecides, clientVars, upstreamVars, responseVars, recordVars
<1>1. TypeOK'
  BY DEF GatewayInv, TypeOK
<1>2. OneSound(r)'
  BY DEF GatewayInv, TypeOK, OneSound, Consistent, Truthful, Proxied, LogIsTrue, LogSays, Logged
<1>3. \A s \in Requests \ {r} : Same(s)
  BY DEF GatewayInv, TypeOK, Same
<1> QED
  BY <1>1, <1>2, <1>3, StepIsSound

LEMMA HeadKeeps == ASSUME GatewayInv, NEW r \in Requests, UpstreamHead(r) PROVE GatewayInv'
<1> USE DEF UpstreamHead, Reaches, Answers, Statuses, clientVars, upstreamVars, responseVars, recordVars
<1>1. TypeOK'
  BY DEF GatewayInv, TypeOK
<1>2. OneSound(r)'
  BY DEF GatewayInv, TypeOK, OneSound, Consistent, Truthful, Proxied, LogIsTrue, LogSays, Logged
<1>3. \A s \in Requests \ {r} : Same(s)
  BY DEF GatewayInv, TypeOK, Same
<1> QED
  BY <1>1, <1>2, <1>3, StepIsSound

LEMMA ChunkKeeps == ASSUME GatewayInv, NEW r \in Requests, UpstreamChunk(r) PROVE GatewayInv'
<1> USE DEF UpstreamChunk, Reaches, clientVars, upstreamVars, responseVars, recordVars
<1>1. TypeOK'
  BY DEF GatewayInv, TypeOK
<1>2. OneSound(r)'
  BY DEF GatewayInv, TypeOK, OneSound, Consistent, Truthful, Proxied, LogIsTrue, LogSays, Logged
<1>3. \A s \in Requests \ {r} : Same(s)
  BY DEF GatewayInv, TypeOK, Same
<1> QED
  BY <1>1, <1>2, <1>3, StepIsSound

LEMMA EndKeeps == ASSUME GatewayInv, NEW r \in Requests, UpstreamEnd(r) PROVE GatewayInv'
<1> USE DEF UpstreamEnd, Reaches, Becomes, clientVars, upstreamVars, responseVars, recordVars
<1>1. TypeOK'
  BY DEF GatewayInv, TypeOK
<1>2. OneSound(r)'
  BY DEF GatewayInv, TypeOK, OneSound, Consistent, Truthful, Proxied, LogIsTrue, LogSays, Logged
<1>3. \A s \in Requests \ {r} : Same(s)
  BY DEF GatewayInv, TypeOK, Same
<1> QED
  BY <1>1, <1>2, <1>3, StepIsSound

LEMMA AbortKeeps == ASSUME GatewayInv, NEW r \in Requests, UpstreamAborted(r) PROVE GatewayInv'
<1> USE DEF UpstreamAborted, Reaches, Becomes, terminateDownstream, markGatewayFailure, Outcomes, Ended, clientVars, upstreamVars, responseVars, recordVars
<1>1. TypeOK'
  BY DEF GatewayInv, TypeOK
<1>2. OneSound(r)'
  BY DEF GatewayInv, TypeOK, OneSound, Consistent, Truthful, Proxied, LogIsTrue, LogSays, Logged
<1>3. \A s \in Requests \ {r} : Same(s)
  BY DEF GatewayInv, TypeOK, Same
<1> QED
  BY <1>1, <1>2, <1>3, StepIsSound

\* The answer to an error is well typed, whichever it is.
AnswerTypeOK ==
  /\ status \in [Requests -> Statuses]
  /\ response \in [Requests -> {"open", "ended", "finished", "destroyed", "closed"}]
  /\ begun \subseteq Requests
  /\ author \in [Requests -> {"nobody", "service", "gateway", "mixed"}]
  /\ failure \in [Requests -> Outcomes \cup {None}]

LEMMA ErrorTypes == ASSUME TypeOK, NEW r \in Requests, AnswerError(r) PROVE AnswerTypeOK'
<1> USE DEF AnswerTypeOK, AnswerError, Becomes, markGatewayFailure, TypeOK
<1>1. CASE r \in begun
  <2>1. "upstream_request_error" \in Outcomes
    BY DEF Outcomes
  <2>2. failure' \in [Requests -> Outcomes \cup {None}]
    BY <1>1, <2>1
  <2>3. response' \in [Requests -> {"open", "ended", "finished", "destroyed", "closed"}]
    BY <1>1
  <2> QED
    BY <1>1, <2>2, <2>3
<1>2. CASE r \notin begun /\ response[r] # "open"
  BY <1>2
<1>3. CASE r \notin begun /\ response[r] = "open"
  <2>1. 502 \in Statuses
    BY DEF Statuses
  <2>2. status' \in [Requests -> Statuses] /\ begun' \subseteq Requests /\ UNCHANGED failure
    BY <1>3, <2>1
  <2>3. response' \in [Requests -> {"open", "ended", "finished", "destroyed", "closed"}]
    <3>1. response' = [response EXCEPT ![r] = "ended"]
      BY <1>3
    <3> QED
      BY <3>1
  <2>4. author' \in [Requests -> {"nobody", "service", "gateway", "mixed"}]
    BY <1>3
  <2> QED
    BY <2>2, <2>3, <2>4
<1> QED
  BY <1>1, <1>2, <1>3

LEMMA ErrorKeeps == ASSUME GatewayInv, NEW r \in Requests, UpstreamError(r) PROVE GatewayInv'
<1> USE DEF UpstreamError, Reaches, clientVars, upstreamVars, responseVars, recordVars
<1>1. TypeOK'
  <2>1. AnswerTypeOK'
    BY ErrorTypes DEF GatewayInv
  <2> QED
    BY <2>1 DEF GatewayInv, TypeOK, AnswerTypeOK
<1> USE DEF Becomes, AnswerError, markGatewayFailure, Outcomes, Statuses
<1>2. OneSound(r)'
  BY DEF GatewayInv, TypeOK, OneSound, Consistent, Truthful, Proxied, LogIsTrue, LogSays, Logged
<1>3. \A s \in Requests \ {r} : Same(s)
  BY DEF GatewayInv, TypeOK, Same
<1> QED
  BY <1>1, <1>2, <1>3, StepIsSound

LEMMA ProbeKeeps == ASSUME GatewayInv, NEW r \in Requests, NEW d \in Dependencies, Probe(r, d) PROVE GatewayInv'
<1> USE DEF Probe, clientVars, upstreamVars, responseVars, recordVars
<1>1. TypeOK'
  BY DEF GatewayInv, TypeOK
<1>2. OneSound(r)'
  BY DEF GatewayInv, TypeOK, OneSound, Consistent, Truthful, Proxied, LogIsTrue, LogSays, Logged
<1>3. \A s \in Requests \ {r} : Same(s)
  BY DEF GatewayInv, TypeOK, Same
<1> QED
  BY <1>1, <1>2, <1>3, StepIsSound

LEMMA LocalKeeps == ASSUME GatewayInv, NEW r \in Requests, AnswerLocally(r) PROVE GatewayInv'
<1> USE DEF AnswerLocally, Becomes, LocalAnswers, Statuses, clientVars, upstreamVars, responseVars, recordVars
<1>1. TypeOK'
  BY DEF GatewayInv, TypeOK
<1>2. OneSound(r)'
  BY DEF GatewayInv, TypeOK, OneSound, Consistent, Truthful, Proxied, LogIsTrue, LogSays, Logged
<1>3. \A s \in Requests \ {r} : Same(s)
  BY DEF GatewayInv, TypeOK, Same
<1> QED
  BY <1>1, <1>2, <1>3, StepIsSound

LEMMA FinishKeeps == ASSUME GatewayInv, NEW r \in Requests, Finish(r) PROVE GatewayInv'
<1>0. /\ RecordTypeOK'
      /\ observed' = IF observed[r] # None THEN observed
                     ELSE [observed EXCEPT ![r] = Line(r, TRUE, status[r])]
  <2>1. TypeOK /\ path[r] \in Paths /\ status[r] \in Statuses
    BY DEF Finish, GatewayInv, TypeOK, Consistent
  <2>2. finalize(r, TRUE, status[r])
    BY DEF Finish
  <2> QED
    BY <2>1, <2>2, FinalizeWrites
<1> USE DEF Finish, Becomes, clientVars, upstreamVars, responseVars, recordVars
<1>1. TypeOK'
  BY <1>0 DEF RecordTypeOK, GatewayInv, TypeOK
<1>2. OneSound(r)'
  BY <1>0, NoneAssumption DEF RecordTypeOK, Entries, Outcomes, Line, GatewayInv, TypeOK, OneSound, Consistent, Truthful, Proxied, LogIsTrue, LogSays, Logged
<1>3. \A s \in Requests \ {r} : Same(s)
  BY <1>0 DEF GatewayInv, TypeOK, Same
<1> QED
  BY <1>1, <1>2, <1>3, StepIsSound

LEMMA CloseKeeps == ASSUME GatewayInv, NEW r \in Requests, CloseFinished(r) PROVE GatewayInv'
<1>0. /\ RecordTypeOK'
      /\ observed' = IF observed[r] # None THEN observed
                     ELSE [observed EXCEPT ![r] = Line(r, TRUE, status[r])]
  <2>1. TypeOK /\ path[r] \in Paths /\ status[r] \in Statuses
    BY DEF CloseFinished, GatewayInv, TypeOK, Consistent
  <2>2. finalize(r, TRUE, status[r])
    BY DEF CloseFinished
  <2> QED
    BY <2>1, <2>2, FinalizeWrites
<1> USE DEF CloseFinished, Becomes, clientVars, upstreamVars, responseVars, recordVars
<1>1. TypeOK'
  BY <1>0 DEF RecordTypeOK, GatewayInv, TypeOK
<1>2. OneSound(r)'
  BY <1>0, NoneAssumption DEF RecordTypeOK, Entries, Outcomes, Line, GatewayInv, TypeOK, OneSound, Consistent, Truthful, Proxied, LogIsTrue, LogSays, Logged
<1>3. \A s \in Requests \ {r} : Same(s)
  BY <1>0 DEF GatewayInv, TypeOK, Same
<1> QED
  BY <1>1, <1>2, <1>3, StepIsSound

LEMMA CutKeeps == ASSUME GatewayInv, NEW r \in Requests, CloseDestroyed(r) PROVE GatewayInv'
<1>0. /\ RecordTypeOK'
      /\ observed' = IF observed[r] # None THEN observed
                     ELSE [observed EXCEPT ![r] = Line(r, FALSE, status[r])]
  <2>1. TypeOK /\ path[r] \in Paths /\ status[r] \in Statuses
    BY DEF CloseDestroyed, GatewayInv, TypeOK, Consistent
  <2>2. finalize(r, FALSE, status[r])
    BY DEF CloseDestroyed
  <2> QED
    BY <2>1, <2>2, FinalizeWrites
<1> USE DEF CloseDestroyed, Becomes, clientVars, upstreamVars, responseVars, recordVars
<1>1. TypeOK'
  BY <1>0 DEF RecordTypeOK, GatewayInv, TypeOK
<1>2. OneSound(r)'
  <2>1. /\ observed[r] = None /\ upstream[r] = "over"
        /\ failure[r] \in {"upstream_aborted", "upstream_request_error"}
    BY DEF GatewayInv, Consistent
  <2>2. observed'[r] = [status |-> 502, outcome |-> failure[r]]
    BY <1>0, <2>1, NoneAssumption DEF Line, Outcomes, GatewayInv, TypeOK
  <2>3. LogSays(r)'
    BY <2>1, <2>2 DEF LogSays, GatewayInv, TypeOK
  <2>4. observed'[r] # None
    BY <2>1, <2>2, NoneAssumption DEF Entries, Statuses, Outcomes
  <2>5. Consistent(r)' /\ Truthful(r)'
    BY <2>1, <2>4 DEF GatewayInv, TypeOK, Consistent, Truthful, Proxied
  <2> QED
    BY <2>3, <2>5 DEF OneSound
<1>3. \A s \in Requests \ {r} : Same(s)
  BY <1>0 DEF GatewayInv, TypeOK, Same
<1> QED
  BY <1>1, <1>2, <1>3, StepIsSound

LEMMA LeaveKeeps == ASSUME GatewayInv, NEW r \in Requests, ClientLeaves(r) PROVE GatewayInv'
<1> USE DEF ClientLeaves, ReleaseUpstream, Reaches, Becomes, Ended, clientVars, upstreamVars, responseVars, recordVars
<1>1. CASE response[r] \in {"open", "ended", "destroyed"}
  <2>1. TypeOK /\ path[r] \in Paths /\ status[r] \in Statuses /\ observed[r] = None
    BY <1>1 DEF GatewayInv, TypeOK, Consistent
  <2>2. Ended(r) \in BOOLEAN /\ finalize(r, Ended(r), status[r])
    BY <1>1
  <2>3. RecordTypeOK' /\ observed' = [observed EXCEPT ![r] = Line(r, Ended(r), status[r])]
    BY <2>1, <2>2, FinalizeWrites
  <2>4. TypeOK'
    BY <1>1, <2>3 DEF RecordTypeOK, GatewayInv, TypeOK
  <2>5. Line(r, Ended(r), status[r]) # None
    BY <2>1, NoneAssumption DEF Line, Entries, Statuses, Outcomes, TypeOK
  <2>6. LogSays(r)'
    <3>1. CASE response[r] = "open"
      BY <2>3, <3>1 DEF Line, LogSays, GatewayInv, TypeOK, Consistent
    <3>2. CASE response[r] = "ended"
      BY <2>3, <3>2 DEF Line, LogSays, GatewayInv, TypeOK, Consistent
    <3>3. CASE response[r] = "destroyed"
      <4>1. upstream[r] = "over" /\ failure[r] \in {"upstream_aborted", "upstream_request_error"}
        BY <3>3 DEF GatewayInv, Consistent
      <4>2. observed'[r] = [status |-> 502, outcome |-> failure[r]]
        BY <2>1, <2>3, <4>1, NoneAssumption DEF Line, Outcomes, TypeOK
      <4>3. upstream'[r] = "over" /\ client'[r] = "gone"
        BY <4>1 DEF GatewayInv, TypeOK
      <4> QED
        BY <4>1, <4>2, <4>3 DEF LogSays
    <3> QED
      BY <1>1, <3>1, <3>2, <3>3
  <2>7. Consistent(r)' /\ Truthful(r)'
    BY <1>1, <2>3, <2>5 DEF GatewayInv, TypeOK, Consistent, Truthful, Proxied
  <2>8. \A s \in Requests \ {r} : Same(s)
    BY <1>1, <2>3 DEF GatewayInv, TypeOK, Same
  <2> QED
    BY <2>4, <2>6, <2>7, <2>8, StepIsSound DEF OneSound
<1>2. CASE response[r] \notin {"open", "ended", "destroyed"}
  <2>1. TypeOK'
    BY <1>2 DEF GatewayInv, TypeOK
  <2>2. OneSound(r)'
    BY <1>2 DEF GatewayInv, TypeOK, OneSound, Consistent, Truthful, Proxied, LogIsTrue, LogSays, Logged
  <2>3. \A s \in Requests \ {r} : Same(s)
    BY <1>2 DEF GatewayInv, TypeOK, Same
  <2> QED
    BY <2>1, <2>2, <2>3, StepIsSound
<1> QED
  BY <1>1, <1>2

LEMMA NextKeeps == GatewayInv /\ [Next]_vars => GatewayInv'
<1> SUFFICES ASSUME GatewayInv, [Next]_vars PROVE GatewayInv'
  OBVIOUS
<1>1. ASSUME NEW r \in Requests, NodeStep(r) PROVE GatewayInv'
  BY <1>1, FinishKeeps, CloseKeeps, CutKeeps, LocalKeeps, ProbeKeeps DEF NodeStep
<1>2. ASSUME NEW r \in Requests, UpstreamStep(r) PROVE GatewayInv'
  BY <1>2, HeadKeeps, ChunkKeeps, EndKeeps, AbortKeeps, ErrorKeeps DEF UpstreamStep
<1>3. ASSUME NEW r \in Requests, ClientStep(r) PROVE GatewayInv'
  BY <1>3, ArriveKeeps, UploadKeeps, LeaveKeeps DEF ClientStep
<1>4. CASE UNCHANGED vars
  <2>1. TypeOK'
    BY <1>4 DEF vars, clientVars, upstreamVars, responseVars, recordVars, GatewayInv, TypeOK
  <2>2. \A s \in Requests : Same(s)
    BY <1>4 DEF vars, clientVars, upstreamVars, responseVars, recordVars, Same
  <2>3. \A s \in Requests : OneSound(s)'
    BY <2>2, OthersStaySound, SoundTogether
  <2> QED
    BY <2>1, <2>3 DEF GatewayInv, OneSound, LogIsTrue, Logged
<1> QED
  BY <1>1, <1>2, <1>3, <1>4, DecisionKeeps DEF Next

-----------------------------------------------------------------------------
(* The theorems *)

\* Every variable of the gateway keeps its type, in every interleaving of the
\* events of all requests (proxy.ts, observability.ts).
THEOREM TypeCorrect == Spec => []TypeOK
<1>1. GatewayInv => TypeOK
  BY DEF GatewayInv
<1> QED
  BY <1>1, InitIsSound, NextKeeps, PTL DEF Spec

\* The access log never claims more than what happened (observability.ts).
THEOREM LogTellsTheTruth == Spec => []LogIsTrue
<1>1. GatewayInv => LogIsTrue
  BY DEF GatewayInv
<1> QED
  BY <1>1, InitIsSound, NextKeeps, PTL DEF Spec

\* No exchange with a service outlives its client (proxy.ts).
THEOREM ExchangesAreReleased == Spec => []NoOrphanExchange
<1>1. GatewayInv => NoOrphanExchange
  BY DEF GatewayInv, Consistent, NoOrphanExchange
<1> QED
  BY <1>1, InitIsSound, NextKeeps, PTL DEF Spec

-----------------------------------------------------------------------------
(* The promise of HttpCall *)

\* What every event but an arrival and a decision of the service leaves alone:
\* the effect, and what has been logged already.
Reports(r) ==
  /\ service' = service /\ path' = path
  /\ client[r] # "absent" /\ client'[r] # "absent"
  /\ observed[r] # None =>
       observed'[r] = observed[r] /\ author'[r] = author[r] /\ status'[r] = status[r]
  /\ \A s \in Requests \ {r} : Same(s)

LEMMA QuietSteps ==
  ASSUME GatewayInv, NEW r \in Requests,
         \/ UploadEnds(r) \/ UpstreamHead(r) \/ UpstreamChunk(r)
         \/ \E d \in Dependencies : Probe(r, d)
  PROVE  Reports(r)
BY DEF UploadEnds, UpstreamHead, UpstreamChunk, Probe, Reaches, Reports, Same, GatewayInv, TypeOK,
       Consistent, clientVars, upstreamVars, responseVars, recordVars

LEMMA EndingSteps ==
  ASSUME GatewayInv, NEW r \in Requests, UpstreamEnd(r) \/ UpstreamAborted(r) \/ AnswerLocally(r)
  PROVE  Reports(r)
BY DEF UpstreamEnd, UpstreamAborted, AnswerLocally, terminateDownstream, markGatewayFailure, Reaches,
       Becomes, Reports, Same, GatewayInv, TypeOK, Consistent,
       clientVars, upstreamVars, responseVars, recordVars

LEMMA ErrorReports == ASSUME GatewayInv, NEW r \in Requests, UpstreamError(r) PROVE Reports(r)
BY DEF UpstreamError, AnswerError, markGatewayFailure, Reaches, Becomes, Reports, Same, GatewayInv,
       TypeOK, Consistent, clientVars, upstreamVars, responseVars, recordVars

\* finalize changes no line that is written and none of another request.
LEMMA FinalizeReports ==
  ASSUME TypeOK, NEW r \in Requests, NEW ended \in BOOLEAN, NEW code, finalize(r, ended, code)
  PROVE  /\ observed[r] # None => observed'[r] = observed[r]
         /\ \A s \in Requests \ {r} : observed'[s] = observed[s]
BY DEF TypeOK, finalize

LEMMA ClosingSteps ==
  ASSUME GatewayInv, NEW r \in Requests, Finish(r) \/ CloseFinished(r) \/ CloseDestroyed(r)
  PROVE  Reports(r)
<1>1. /\ observed[r] # None => observed'[r] = observed[r]
      /\ \A s \in Requests \ {r} : observed'[s] = observed[s]
  BY FinalizeReports DEF Finish, CloseFinished, CloseDestroyed, GatewayInv
<1> QED
  <2>1. client[r] # "absent" /\ client'[r] # "absent"
    BY DEF Finish, CloseFinished, CloseDestroyed, GatewayInv, TypeOK, Consistent, clientVars
  <2>2. service' = service /\ path' = path /\ author' = author /\ status' = status
    BY DEF Finish, CloseFinished, CloseDestroyed, clientVars, upstreamVars
  <2>3. ASSUME NEW s \in Requests \ {r} PROVE client'[s] = client[s] /\ response'[s] = response[s]
    BY DEF Finish, CloseFinished, CloseDestroyed, Becomes, GatewayInv, TypeOK, clientVars
  <2>4. upstream' = upstream /\ failure' = failure
    BY DEF Finish, CloseFinished, CloseDestroyed, upstreamVars
  <2> QED
    BY <1>1, <2>1, <2>2, <2>3, <2>4 DEF Reports, Same

LEMMA LeaveReports == ASSUME GatewayInv, NEW r \in Requests, ClientLeaves(r) PROVE Reports(r)
<1>1. /\ observed[r] # None => observed'[r] = observed[r]
      /\ \A s \in Requests \ {r} : observed'[s] = observed[s]
  <2>1. CASE finalize(r, Ended(r), status[r])
    <3>1. Ended(r) \in BOOLEAN /\ TypeOK
      BY DEF Ended, GatewayInv
    <3> QED
      BY <2>1, <3>1, FinalizeReports
  <2>2. CASE observed' = observed
    BY <2>2
  <2> QED
    BY <2>1, <2>2 DEF ClientLeaves
<1> QED
  BY <1>1 DEF ClientLeaves, ReleaseUpstream, Reaches, Becomes, Reports, Same, GatewayInv, TypeOK,
              Consistent, clientVars, upstreamVars, responseVars, recordVars

\* What is told of a request that is left alone does not change.
LEMMA SameIsTold ==
  ASSUME NEW s \in Requests, Same(s)
  PROVE  Told(s)' = Told(s) /\ Effect(s)' = Effect(s)
BY DEF Same, Told, Effect, Proxied

\* The line of a request, once written, tells "done" or "refused" only with the
\* effect that belongs to it.
ToldTruly(r) ==
  /\ Told(r) \in {"unsent", "pending", "done", "refused", "error", "cut"}
  /\ Told(r) = "done" => Effect(r) = "acted"
  /\ Told(r) = "refused" => Effect(r) = "refused"

NothingFalseTold == \A r \in Requests : ToldTruly(r)

LEMMA ToldIsTrue == GatewayInv => NothingFalseTold
<1> SUFFICES ASSUME GatewayInv, NEW r \in Requests PROVE ToldTruly(r)
  BY DEF NothingFalseTold
<1>1. Told(r) \in {"unsent", "pending", "done", "refused", "error", "cut"}
  BY DEF Told
<1>2. ASSUME Told(r) \in {"done", "refused"}
      PROVE  author[r] = "service" /\ status[r] = IF Told(r) = "done" THEN 200 ELSE 409
  BY <1>2 DEF Told, GatewayInv, TypeOK, LogIsTrue, Logged, LogSays, Truthful
<1> QED
  BY <1>1, <1>2 DEF GatewayInv, Truthful, Effect, ToldTruly

LEMMA ReportsTell ==
  ASSUME GatewayInv, GatewayInv', NEW r \in Requests, Reports(r)
  PROVE  [H!Next]_H!vars
<1>1. AllEffects' = AllEffects
  BY DEF Reports, AllEffects, Effect
<1>2. \A s \in Requests \ {r} : Told(s)' = Told(s)
  BY SameIsTold DEF Reports
<1>3. Told(r)' = Told(r) \/ (Told(r) = "pending" /\ Told(r)' \in {"done", "refused", "error", "cut"})
  BY DEF Reports, Told, Proxied
<1>4. /\ Told(r)' = "done" => Effect(r) = "acted"
      /\ Told(r)' = "refused" => Effect(r) = "refused"
  <2>1. Effect(r)' = Effect(r)
    BY DEF Reports, Effect
  <2>2. /\ Told(r)' = "done" => Effect(r)' = "acted"
        /\ Told(r)' = "refused" => Effect(r)' = "refused"
    <3>1. NothingFalseTold'
      BY ToldIsTrue, PTL
    <3> QED
      BY <3>1 DEF NothingFalseTold, ToldTruly
  <2> QED
    BY <2>1, <2>2
<1>5. AllTold' = [AllTold EXCEPT ![r] = Told(r)']
  BY <1>2 DEF AllTold
<1>6. CASE Told(r)' = Told(r)
  BY <1>1, <1>5, <1>6 DEF H!vars, AllTold
<1>7. CASE Told(r) = "pending" /\ Told(r)' \in {"done", "refused", "error", "cut"}
  <2>1. H!Tell(r, Told(r)')
    BY <1>1, <1>4, <1>5, <1>7 DEF H!Tell, AllTold, AllEffects
  <2> QED
    BY <1>7, <2>1 DEF H!Next, H!Answered
<1> QED
  BY <1>3, <1>6, <1>7

LEMMA ArriveTells == ASSUME GatewayInv, NEW r \in Requests, Arrive(r) PROVE [H!Next]_H!vars
<1> USE DEF Arrive, Reaches, responseVars, recordVars
<1>1. AllEffects' = AllEffects
  BY DEF AllEffects, Effect
<1>2. \A s \in Requests \ {r} : Told(s)' = Told(s)
  BY SameIsTold DEF Same, GatewayInv, TypeOK
<1>3. Told(r) = "unsent" /\ Told(r)' \in {"unsent", "pending"}
  BY DEF Told, GatewayInv, TypeOK, Consistent
<1>4. AllTold' = [AllTold EXCEPT ![r] = Told(r)']
  BY <1>2 DEF AllTold
<1>5. CASE Told(r)' = "unsent"
  BY <1>1, <1>3, <1>4, <1>5 DEF H!vars, AllTold
<1>6. CASE Told(r)' = "pending"
  BY <1>1, <1>3, <1>4, <1>6 DEF H!Next, H!Send, AllTold
<1> QED
  BY <1>3, <1>5, <1>6

LEMMA DecisionServes == ASSUME GatewayInv, NEW r \in Requests, ServiceDecides(r) PROVE [H!Next]_H!vars
<1> USE DEF ServiceDecides, clientVars, responseVars, recordVars
<1>1. AllTold' = AllTold
  BY DEF AllTold, Told, Proxied
<1>2. Told(r) # "unsent"
  BY DEF Told, GatewayInv, Consistent
<1>3. Effect(r) = "none" /\ Effect(r)' \in {"acted", "refused"}
  BY DEF Effect, GatewayInv, TypeOK
<1>4. \A s \in Requests \ {r} : Effect(s)' = Effect(s)
  BY DEF Effect, GatewayInv, TypeOK
<1>5. AllEffects' = [AllEffects EXCEPT ![r] = Effect(r)']
  BY <1>4 DEF AllEffects
<1>6. H!Serve(r)
  BY <1>1, <1>2, <1>3, <1>5 DEF H!Serve, AllTold, AllEffects
<1> QED
  BY <1>6 DEF H!Next

\* Whatever is lost, late or cut off: "done" is only told of what a service has
\* done, and "refused" of what it will not do; told once, it stays told.
THEOREM GatewayKeepsHttpCall == Spec => KeepsHttpCall
<1>1. Init => H!Init
  BY DEF Init, H!Init, AllTold, AllEffects, Told, Effect
<1>2. GatewayInv /\ GatewayInv' /\ [Next]_vars => [H!Next]_H!vars
  <2> SUFFICES ASSUME GatewayInv, GatewayInv', [Next]_vars PROVE [H!Next]_H!vars
    OBVIOUS
  <2>1. ASSUME NEW r \in Requests, NodeStep(r) PROVE [H!Next]_H!vars
    BY <2>1, QuietSteps, EndingSteps, ClosingSteps, ReportsTell DEF NodeStep
  <2>2. ASSUME NEW r \in Requests, UpstreamStep(r) PROVE [H!Next]_H!vars
    BY <2>2, QuietSteps, EndingSteps, ErrorReports, ReportsTell DEF UpstreamStep
  <2>3. ASSUME NEW r \in Requests, ClientStep(r) PROVE [H!Next]_H!vars
    BY <2>3, ArriveTells, QuietSteps, LeaveReports, ReportsTell DEF ClientStep
  <2>4. CASE UNCHANGED vars
    BY <2>4 DEF vars, clientVars, upstreamVars, responseVars, recordVars, H!vars, AllTold, AllEffects,
               Told, Effect, Proxied
  <2> QED
    BY <2>1, <2>2, <2>3, <2>4, DecisionServes DEF Next
<1> QED
  BY <1>1, <1>2, InitIsSound, NextKeeps, PTL DEF Spec, KeepsHttpCall

-----------------------------------------------------------------------------
(* The metrics *)

\* A step that writes the log line of one request and counts it, and a step
\* that does neither.
LogsOne(r) ==
  /\ path' = path /\ path[r] \in Paths /\ observed[r] = None
  /\ \E line \in Entries :
       observed' = [observed EXCEPT ![r] = line] /\ observe(r, line.status)

LogsNothing ==
  observed' = observed /\ metrics' = metrics /\ \A r \in Logged : path'[r] = path[r]

LEMMA FinalizeLogs ==
  ASSUME TypeOK, NEW r \in Requests, path[r] \in Paths, UNCHANGED path,
         NEW ended \in BOOLEAN, NEW code \in Statuses, finalize(r, ended, code)
  PROVE  LogsOne(r) \/ LogsNothing
<1>1. CASE observed[r] # None
  BY <1>1 DEF finalize, LogsNothing
<1>2. CASE observed[r] = None
  <2>1. Line(r, ended, code) \in Entries
    BY DEF Line, Entries, Statuses, Outcomes, TypeOK
  <2>2. /\ observed' = [observed EXCEPT ![r] = Line(r, ended, code)]
        /\ observe(r, Line(r, ended, code).status)
    BY <1>2 DEF finalize, Line
  <2> HIDE DEF Line
  <2> QED
    BY <1>2, <2>1, <2>2 DEF LogsOne
<1> QED
  BY <1>1, <1>2

\* One more request in a bucket leaves the buckets cumulative.
LEMMA CountedCumulates ==
  ASSUME NEW state \in [count : Nat, buckets : [1 .. Buckets -> Nat]], Cumulative(state),
         NEW bucket \in 1 .. Buckets
  PROVE  Cumulative(Counted(state, bucket)) /\ Counted(state, bucket).count = state.count + 1
<1>1. Buckets \in 1 .. Buckets /\ Buckets >= bucket
  BY GatewayAssumption
<1>2. Counted(state, bucket).buckets[Buckets] = state.count + 1
  BY <1>1 DEF Counted, Cumulative
<1>3. ASSUME NEW b \in 1 .. Buckets - 1
      PROVE  Counted(state, bucket).buckets[b] <= Counted(state, bucket).buckets[b + 1]
  <2>1. b \in 1 .. Buckets /\ b + 1 \in 1 .. Buckets /\ b \in Int
    BY GatewayAssumption
  <2>2. state.buckets[b] <= state.buckets[b + 1]
    BY DEF Cumulative
  <2>3. state.buckets[b] \in Nat /\ state.buckets[b + 1] \in Nat
    BY <2>1
  <2>4. (IF b >= bucket THEN 1 ELSE 0) <= (IF b + 1 >= bucket THEN 1 ELSE 0)
    BY <2>1
  <2>5. state.buckets[b] + (IF b >= bucket THEN 1 ELSE 0)
          <= state.buckets[b + 1] + (IF b + 1 >= bucket THEN 1 ELSE 0)
    BY <2>2, <2>3, <2>4
  <2> QED
    BY <2>1, <2>5 DEF Counted
<1> QED
  BY <1>2, <1>3 DEF Cumulative, Counted

LEMMA NewIsCumulative ==
  NewState \in [count : Nat, buckets : [1 .. Buckets -> Nat]] /\ Cumulative(NewState)
<1>1. Buckets \in 1 .. Buckets /\ \A b \in 1 .. Buckets - 1 : b \in 1 .. Buckets /\ b + 1 \in 1 .. Buckets
  BY GatewayAssumption
<1> QED
  BY <1>1 DEF NewState, Cumulative

MetricsInv == MetricsAgree /\ IsFiniteSet(Logged)

LEMMA CountKeeps ==
  ASSUME TypeOK, MetricsInv, NEW r \in Requests, LogsOne(r)
  PROVE  MetricsInv'
<1>1. PICK line \in Entries : observed' = [observed EXCEPT ![r] = line] /\ observe(r, line.status)
  BY DEF LogsOne
<1> DEFINE key == <<metricRouteLabel(path[r]), line.status>>
           state == IF key \in DOMAIN metrics THEN metrics[key] ELSE NewState
           In(s) == {q \in Logged : Under(q) = s}
           Then(s) == {q \in Logged' : Under(q)' = s}
<1>2. PICK bucket \in 1 .. Buckets :
        metrics' = [s \in DOMAIN metrics \cup {key} |->
                      IF s = key THEN Counted(state, bucket) ELSE metrics[s]]
  BY <1>1 DEF observe
<1>3. line # None /\ r \notin Logged
  BY NoneAssumption DEF LogsOne, Logged
<1>4. Logged' = Logged \cup {r}
  BY <1>1, <1>3 DEF Logged, TypeOK
<1>5. Under(r)' = key /\ \A q \in Logged : Under(q)' = Under(q)
  BY <1>1, <1>3 DEF Under, Label, LogsOne, TypeOK, Logged
<1>6. /\ Then(key) = In(key) \cup {r}
      /\ \A s : s # key => Then(s) = In(s)
  BY <1>4, <1>5
<1>7. IsFiniteSet(Logged')
  BY <1>4, FS_AddElement DEF MetricsInv
<1>8. IsFiniteSet(In(key)) /\ r \notin In(key)
  BY <1>3, FS_Subset DEF MetricsInv
<1>9. Cardinality(Then(key)) = Cardinality(In(key)) + 1
  BY <1>6, <1>8, FS_AddElement
<1>10. /\ state \in [count : Nat, buckets : [1 .. Buckets -> Nat]] /\ Cumulative(state)
       /\ state.count = Cardinality(In(key))
  <2>1. CASE key \in DOMAIN metrics
    BY <2>1 DEF TypeOK, MetricsInv, MetricsAgree
  <2>2. CASE key \notin DOMAIN metrics
    <3>1. In(key) = {}
      BY <2>2 DEF MetricsInv, MetricsAgree
    <3>2. NewState.count = 0
      BY DEF NewState
    <3> QED
      BY <2>2, <3>1, <3>2, NewIsCumulative, FS_EmptySet
  <2> QED
    BY <2>1, <2>2
<1>11. Cumulative(metrics'[key]) /\ metrics'[key].count = Cardinality(Then(key))
  BY <1>2, <1>9, <1>10, CountedCumulates
<1>12. DOMAIN metrics' = DOMAIN metrics \cup {key} /\ \A s \in DOMAIN metrics \ {key} : metrics'[s] = metrics[s]
  BY <1>2
<1>13. \A q \in Logged' : Under(q)' \in DOMAIN metrics'
  BY <1>4, <1>5, <1>12 DEF MetricsInv, MetricsAgree
<1>14. ASSUME NEW s \in DOMAIN metrics'
       PROVE  metrics'[s].count = Cardinality(Then(s)) /\ Cumulative(metrics'[s])
  <2>1. CASE s = key
    BY <1>11, <2>1
  <2>2. CASE s # key
    <3>1. s \in DOMAIN metrics /\ metrics'[s] = metrics[s] /\ Then(s) = In(s)
      BY <1>6, <1>12, <2>2
    <3>2. metrics[s].count = Cardinality(In(s)) /\ Cumulative(metrics[s])
      BY <3>1 DEF MetricsInv, MetricsAgree
    <3> QED
      BY <3>1, <3>2
  <2> QED
    BY <2>1, <2>2
<1> QED
  BY <1>7, <1>13, <1>14 DEF MetricsInv, MetricsAgree, Cumulative

LEMMA QuietKeeps == ASSUME MetricsInv, LogsNothing PROVE MetricsInv'
<1>1. Logged' = Logged /\ \A r \in Logged : Under(r)' = Under(r)
  BY DEF LogsNothing, Logged, Under, Label
<1>2. \A s : {r \in Logged' : Under(r)' = s} = {r \in Logged : Under(r) = s}
  BY <1>1
<1> QED
  BY <1>1, <1>2 DEF LogsNothing, MetricsInv, MetricsAgree, Cumulative

LEMMA ClosingLogs ==
  ASSUME GatewayInv, NEW r \in Requests,
         Finish(r) \/ CloseFinished(r) \/ CloseDestroyed(r) \/ ClientLeaves(r)
  PROVE  LogsOne(r) \/ LogsNothing
<1>1. UNCHANGED path
  BY DEF Finish, CloseFinished, CloseDestroyed, ClientLeaves, clientVars
<1>2. TypeOK /\ path[r] \in Paths /\ status[r] \in Statuses /\ Ended(r) \in BOOLEAN
  <2>1. client[r] # "absent"
    BY DEF Finish, CloseFinished, CloseDestroyed, ClientLeaves, GatewayInv, Consistent
  <2> QED
    BY <2>1 DEF Ended, GatewayInv, TypeOK, Consistent
<1>3. \/ \E ended \in BOOLEAN : finalize(r, ended, status[r])
      \/ observed' = observed /\ metrics' = metrics
  BY <1>2 DEF Finish, CloseFinished, CloseDestroyed, ClientLeaves
<1> QED
  BY <1>1, <1>2, <1>3, FinalizeLogs DEF LogsNothing

LEMMA OtherStepsLogNothing ==
  ASSUME GatewayInv, NEW r \in Requests,
         \/ UpstreamStep(r) \/ ServiceDecides(r) \/ UploadEnds(r) \/ AnswerLocally(r)
         \/ \E d \in Dependencies : Probe(r, d)
  PROVE  LogsNothing
BY DEF UpstreamStep, UpstreamHead, UpstreamChunk, UpstreamEnd, UpstreamAborted, UpstreamError,
       ServiceDecides, UploadEnds, AnswerLocally, Probe, LogsNothing, clientVars, recordVars

LEMMA ArrivalLogsNothing == ASSUME GatewayInv, NEW r \in Requests, Arrive(r) PROVE LogsNothing
BY DEF Arrive, LogsNothing, Logged, GatewayInv, TypeOK, Consistent, recordVars

LEMMA MetricsStep == GatewayInv /\ MetricsInv /\ [Next]_vars => MetricsInv'
<1> SUFFICES ASSUME GatewayInv, MetricsInv, [Next]_vars PROVE MetricsInv'
  OBVIOUS
<1>1. ASSUME NEW r \in Requests,
             NodeStep(r) \/ UpstreamStep(r) \/ ServiceDecides(r) \/ ClientStep(r)
      PROVE  LogsOne(r) \/ LogsNothing
  BY <1>1, ClosingLogs, OtherStepsLogNothing, ArrivalLogsNothing DEF NodeStep, ClientStep
<1>2. CASE UNCHANGED vars
  BY <1>2, QuietKeeps DEF vars, clientVars, recordVars, LogsNothing
<1> QED
  BY <1>1, <1>2, CountKeeps, QuietKeeps DEF Next, GatewayInv

\* Every answered request is counted once and under what was logged of it, and
\* the histograms stay cumulative, whatever ends first and however often
\* 'finish' and 'close' fire (observability.ts).
THEOREM MetricsCountOnce == Spec => []MetricsAgree
<1>1. Init => MetricsInv
  <2> SUFFICES ASSUME Init PROVE MetricsInv
    OBVIOUS
  <2>1. Logged = {} /\ DOMAIN metrics = {}
    BY DEF Init, Logged
  <2> QED
    BY <2>1, FS_EmptySet DEF MetricsInv, MetricsAgree
<1>2. MetricsInv => MetricsAgree
  BY DEF MetricsInv
<1> QED
  BY <1>1, <1>2, InitIsSound, NextKeeps, MetricsStep, PTL DEF Spec
=============================================================================
