----------------------------- MODULE AccessGuards -----------------------------
(***************************************************************************)
(* Who may do what: the links the header offers to an identity, and the    *)
(* guards the services put before the calls the linked pages make.  A      *)
(* token carries the roles of the account when it was issued; the pages    *)
(* always send it as a well-formed bearer header.                          *)
(***************************************************************************)
EXTENDS Naturals

AppRoles == {"USER", "MODERATOR", "ADMIN"}
PagesOffered == {"listings", "exchanges", "moderation", "admin"}

\* /espace shows the listings and the exchanges of a member.
MemberPages(identity) == IF identity.authenticated THEN {"listings", "exchanges"} ELSE {}

canModerate(identity) == identity.authenticated /\ identity.roles \cap {"MODERATOR", "ADMIN"} # {}
canAccessAdmin(identity) == identity.authenticated /\ "ADMIN" \in identity.roles

\* Variant with a bug: every member is offered the moderation.
OffersAllModeration(identity) ==
  MemberPages(identity)
    \cup (IF identity.authenticated THEN {"moderation"} ELSE {})
    \cup (IF canAccessAdmin(identity) THEN {"admin"} ELSE {})

headerLinks(identity) ==
  MemberPages(identity)
    \cup (IF canModerate(identity) THEN {"moderation"} ELSE {})
    \cup (IF canAccessAdmin(identity) THEN {"admin"} ELSE {})

\* The @Roles of the controllers; the Marketplace service asks for none.
Required(page) ==
  CASE page = "listings" -> AppRoles
    [] page = "exchanges" -> {}
    [] page = "moderation" -> {"MODERATOR", "ADMIN"}
    [] page = "admin" -> {"ADMIN"}

verify(token) == token.life # "expired"
RolesGuard(token, required) == required = {} \/ required \cap token.roles # {}

\* JwtAuthGuard, then RolesGuard.
Verdict(token, page) ==
  IF ~verify(token) THEN "unauthorized"
  ELSE IF ~RolesGuard(token, Required(page)) THEN "forbidden" ELSE "served"
=============================================================================
