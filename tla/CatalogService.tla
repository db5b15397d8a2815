--------------------------- MODULE CatalogService ---------------------------
(***************************************************************************)
(* The Catalog service as the Marketplace service sees it: the moderation  *)
(* status and the availability of every listing, and the internal HTTP API *)
(* reserve / complete / release.  A call is a small state machine of its   *)
(* own, because the caller may stop waiting (fetch aborts after 3 s) while *)
(* the server goes on, and because complete and release read the listing   *)
(* and write it in two separate statements.                                *)
(***************************************************************************)
CONSTANTS
  Listings,   \* ids of the listings
  Callers,    \* HTTP requests of the Marketplace service that call Catalog
  Editable,   \* the listings that owners edit and moderators review
  Faults      \* the faults that may happen, a subset of FaultKinds

FaultKinds == {"network", "crash", "txfail", "ackloss"}

ASSUME CatalogAssumption == /\ Editable \subseteq Listings
                            /\ Faults \subseteq FaultKinds

VARIABLES
  listingStatus,  \* Listing.status
  availability,   \* Listing.availabilityStatus
  editing,        \* listings with an updateOwned between its read and its write
  call            \* progress of the call <<caller, operation, listing>>

catalogVars == <<listingStatus, availability, editing, call>>

ListingStatus == {"PENDING", "APPROVED", "REJECTED"}
ListingAvailabilityStatus == {"AVAILABLE", "RESERVED", "COMPLETED"}

Operations == {"reserve", "complete", "release"}

\* "checked": the handler has read a RESERVED listing and has not written yet.
CallStates == {"none", "sent", "checked", "ok", "conflict"}

CatalogTypeOK ==
  /\ listingStatus \in [Listings -> ListingStatus]
  /\ availability \in [Listings -> ListingAvailabilityStatus]
  /\ editing \subseteq Listings
  /\ call \in [Callers \X Operations \X Listings -> CallStates]

\* Listings that have been published already, and drafts that wait for review.
CatalogInit ==
  /\ listingStatus = [l \in Listings |->
                        IF l \in Editable THEN "PENDING" ELSE "APPROVED"]
  /\ availability = [l \in Listings |-> "AVAILABLE"]
  /\ editing = {}
  /\ call = [c \in Callers \X Operations \X Listings |-> "none"]

\* What both assertApprovedAndAvailable and the reserve statement ask.
ApprovedAndAvailable(l) ==
  listingStatus[l] = "APPROVED" /\ availability[l] = "AVAILABLE"

-----------------------------------------------------------------------------
(* The internal API, on the server. *)

Reply(c, op, l, answer) == call' = [call EXCEPT ![<<c, op, l>>] = answer]

\* Variant with a bug: the UPDATE filters on the status and not on availability.
ReserveAnyway(c, l) ==
  /\ call[<<c, "reserve", l>>] = "sent"
  /\ listingStatus[l] = "APPROVED"
  /\ availability' = [availability EXCEPT ![l] = "RESERVED"]
  /\ Reply(c, "reserve", l, "ok")
  /\ UNCHANGED <<listingStatus, editing>>

\* One conditional UPDATE decides; its count is the answer.
ServeReserve(c, l) ==
  /\ call[<<c, "reserve", l>>] = "sent"
  /\ \/ /\ ApprovedAndAvailable(l)
        /\ availability' = [availability EXCEPT ![l] = "RESERVED"]
        /\ Reply(c, "reserve", l, "ok")
     \/ /\ ~ApprovedAndAvailable(l)
        /\ Reply(c, "reserve", l, "conflict")
        /\ UNCHANGED availability
  /\ UNCHANGED <<listingStatus, editing>>

\* Variant with a bug: "already in the wanted state" is a conflict too.
CheckReservedOnly(c, op, l, goal) ==
  /\ call[<<c, op, l>>] = "sent"
  /\ Reply(c, op, l, IF availability[l] = "RESERVED" THEN "checked" ELSE "conflict")
  /\ UNCHANGED <<listingStatus, availability, editing>>

\* complete and release first look at the listing: already in the wanted
\* state is success, RESERVED goes on to the write, anything else is a 409.
CheckBeforeWrite(c, op, l, goal) ==
  /\ call[<<c, op, l>>] = "sent"
  /\ \/ availability[l] = goal /\ Reply(c, op, l, "ok")
     \/ availability[l] = "RESERVED" /\ Reply(c, op, l, "checked")
     \/ availability[l] \notin {goal, "RESERVED"} /\ Reply(c, op, l, "conflict")
  /\ UNCHANGED <<listingStatus, availability, editing>>

\* The write that follows is by id only: nothing is checked again.
WriteAfterCheck(c, op, l, goal) ==
  /\ call[<<c, op, l>>] = "checked"
  /\ availability' = [availability EXCEPT ![l] = goal]
  /\ Reply(c, op, l, "ok")
  /\ UNCHANGED <<listingStatus, editing>>

ServeComplete(c, l) == \/ CheckBeforeWrite(c, "complete", l, "COMPLETED")
                       \/ WriteAfterCheck(c, "complete", l, "COMPLETED")

ServeRelease(c, l) == \/ CheckBeforeWrite(c, "release", l, "AVAILABLE")
                      \/ WriteAfterCheck(c, "release", l, "AVAILABLE")

Serve(c, l) == ServeReserve(c, l) \/ ServeComplete(c, l) \/ ServeRelease(c, l)

\* The request never arrives, or Catalog stops before it has written.  A lost
\* answer needs no action: the caller simply stops waiting (see TimeOut).
LoseCall(c, op, l) ==
  /\ "network" \in Faults
  /\ call[<<c, op, l>>] \in {"sent", "checked"}
  /\ Reply(c, op, l, "none")
  /\ UNCHANGED <<listingStatus, availability, editing>>

-----------------------------------------------------------------------------
(* The internal API, in the caller (CatalogClientService.requestListing). *)

\* call with the request of c put on the wire, for actions that may also
\* consume an answer in the same step.
Sent(calls, c, op, l) == [calls EXCEPT ![<<c, op, l>>] = "sent"]

\* call once the caller has read the answer.
Consumed(calls, c, op, l) == [calls EXCEPT ![<<c, op, l>>] = "none"]

Answered(c, op, l, answer) == call[<<c, op, l>>] = answer

\* The 3 s abort or a broken connection; the call itself may live on.
TimeOut == "network" \in Faults

-----------------------------------------------------------------------------
(* Moderation and edits, as far as they touch the status (ListingsService). *)

Approve(l) ==
  /\ l \in Editable
  /\ listingStatus[l] = "PENDING"
  /\ listingStatus' = [listingStatus EXCEPT ![l] = "APPROVED"]
  /\ UNCHANGED <<availability, editing, call>>

RejectListing(l) ==
  /\ l \in Editable
  /\ listingStatus[l] = "PENDING"
  /\ listingStatus' = [listingStatus EXCEPT ![l] = "REJECTED"]
  /\ UNCHANGED <<availability, editing, call>>

\* updateOwned refuses an APPROVED listing on what it reads first (at most one
\* edit of a listing is under way: the bound of the model) ...
UpdateOwnedRead(l) ==
  /\ l \in Editable \ editing
  /\ listingStatus[l] # "APPROVED"
  /\ editing' = editing \cup {l}
  /\ UNCHANGED <<listingStatus, availability, call>>

\* ... and then writes PENDING by id, whatever the status is by now.
UpdateOwnedWrite(l) ==
  /\ l \in editing
  /\ editing' = editing \ {l}
  /\ listingStatus' = [listingStatus EXCEPT ![l] = "PENDING"]
  /\ UNCHANGED <<availability, call>>

Moderation(l) == \/ Approve(l) \/ RejectListing(l)
                 \/ UpdateOwnedRead(l) \/ UpdateOwnedWrite(l)

CatalogStep ==
  \/ \E c \in Callers, l \in Listings : Serve(c, l)
  \/ \E c \in Callers, op \in Operations, l \in Listings : LoseCall(c, op, l)
  \/ \E l \in Listings : Moderation(l)
=============================================================================
