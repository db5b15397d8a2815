------------------------------ MODULE MCGateway ------------------------------
(***************************************************************************)
(* Small instances of Gateway.                                             *)
(***************************************************************************)
EXTENDS Gateway

CONSTANTS r1, r2,   \* requests
          d1, d2    \* dependencies

\* One path of each kind: of a service, of the gateway, and one that only looks
\* like a route.
MCPaths == {<<"api", "listings", "x">>, <<"api", "health", "ready">>,
            <<"api", "admin", "users">>}
=============================================================================
