---------------------------- MODULE GatewayRoutes ----------------------------
(***************************************************************************)
(* The two tables of the gateway that must agree: where a path is sent     *)
(* (routes.ts) and under which label it is counted (observability.ts).     *)
(* A path is the sequence of its segments; the query string plays no part. *)
(***************************************************************************)
EXTENDS Sequences, SequencesExt

NoRoute == [target |-> "none", path |-> <<>>]
Unknown == <<"unknown">>

\* path.startsWith(prefix + '/')
Below(prefix, path) == IsPrefix(prefix, path) /\ Len(path) > Len(prefix)
AtOrBelow(prefix, path) == path = prefix \/ Below(prefix, path)

Local == {<<"api", "health", "live">>, <<"api", "health", "ready">>, <<"api", "metrics">>}
Summary == <<"api", "admin", "catalog", "summary">>
CatalogPaths == {<<"api", "listings">>, <<"api", "moderation", "listings">>}
MarketplacePaths == {<<"api", "proposals">>, <<"api", "transactions">>}
Auth == <<"api", "auth">>

\* Only the services that were extracted lose the prefix /api.
resolveGatewayRoute(path) ==
  IF path \in Local THEN [target |-> "gateway", path |-> path]
  ELSE IF path = Summary \/ \E p \in CatalogPaths : AtOrBelow(p, path)
  THEN [target |-> "catalog", path |-> Tail(path)]
  ELSE IF \E p \in MarketplacePaths : AtOrBelow(p, path)
  THEN [target |-> "marketplace", path |-> Tail(path)]
  ELSE IF AtOrBelow(Auth, path) THEN [target |-> "legacy", path |-> path]
  ELSE NoRoute

\* A label stands for one path or for everything below a prefix ("*").
metricRouteLabel(path) ==
  IF path \in Local \cup {Summary} \cup CatalogPaths \cup MarketplacePaths THEN path
  ELSE IF AtOrBelow(Auth, path) THEN Append(Auth, "*")
  ELSE LET below == {p \in CatalogPaths \cup MarketplacePaths : Below(p, path)} IN
       IF below = {} THEN Unknown ELSE Append(CHOOSE p \in below : TRUE, "*")
=============================================================================
