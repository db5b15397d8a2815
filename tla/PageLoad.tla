------------------------------ MODULE PageLoad -------------------------------
(***************************************************************************)
(* The effects that read what a page shows: "summary" (the figures of the  *)
(* administration), "detail" (a listing), "offers" (what a member may give *)
(* for it) and "home".  Every run of the effect makes its own call, and    *)
(* the cleanup of the one before has made its answer void (active =        *)
(* false).  Each page has flags of its own for what came of the call.  The *)
(* home page shows what it has read page by page, through a filter.        *)
(***************************************************************************)
EXTENDS Integers, FiniteSets

CONSTANTS
  MaxRuns,        \* bound: how often the effect runs
  MaxListings,    \* bound: how many listings the home page is answered
  HOME_PAGE_SIZE

ASSUME PageLoadAssumption ==
  /\ MaxRuns \in Nat \ {0}
  /\ MaxListings \in Nat /\ HOME_PAGE_SIZE \in Nat \ {0}

VARIABLES
  current,       \* the run of the effect whose answer is wanted
  answers,       \* the answer to the call of a run
  handled,       \* the runs whose callbacks have been called
  screen,        \* what is shown, and for each part the run it comes from
  listings,      \* the published listings the home page has
  matching,      \* those its search and its type of exchange are for
  requestedPage  \* page

loadVars == <<current, answers, handled, screen>>
homeVars == <<listings, matching, requestedPage>>
Runs == 1 .. MaxRuns
Published == 1 .. MaxListings   \* in the order of the answer

LoadTypeOK ==
  /\ current \in Runs
  /\ answers \in [Runs -> {"none", "sent", "done", "missing", "failed"}]
  /\ handled \subseteq Runs
  /\ screen \in [loading : BOOLEAN,
                 data : 0 .. MaxRuns, error : 0 .. MaxRuns, notFound : 0 .. MaxRuns]

\* Two of the effects make no call unless somebody is signed in (who is an
\* administrator, who looks at a swap).
Asked(p) == IF p \in {"summary", "offers"} THEN {"none", "sent"} ELSE {"sent"}

LoadInit(p) ==
  /\ current = 1
  /\ \E asked \in Asked(p) : answers = [n \in Runs |-> IF n = 1 THEN asked ELSE "none"]
  /\ handled = {}
  /\ screen = [loading |-> p # "offers", data |-> 0, error |-> 0, notFound |-> 0]

\* What a page makes of its flags.
OnScreen ==
  IF screen.loading THEN [shows |-> "loading", run |-> 0]
  ELSE IF screen.notFound # 0 THEN [shows |-> "missing", run |-> screen.notFound]
  ELSE IF screen.error # 0 THEN [shows |-> "failed", run |-> screen.error]
  ELSE [shows |-> "done", run |-> screen.data]

Restarts(asked) ==
  /\ current < MaxRuns
  /\ current' = current + 1
  /\ answers' = [answers EXCEPT ![current + 1] = asked]
  /\ UNCHANGED handled

\* The id, the listing or the identity changes: what is shown stays.
DependencyChanges(p) ==
  /\ p # "home"
  /\ \E asked \in Asked(p) : Restarts(asked)
  /\ UNCHANGED screen

\* "Actualiser", disabled while the figures load, and "Réessayer".
Retry(p) ==
  /\ \/ p = "summary" /\ ~screen.loading /\ answers[current] # "none"
     \/ p = "home" /\ OnScreen.shows = "failed"
  /\ Restarts("sent")
  /\ screen' = [loading |-> TRUE, data |-> 0, error |-> 0, notFound |-> screen.notFound]

\* To submit the form of a proposal clears its one error, of a load as well.
ClearError(p) ==
  /\ p = "offers" /\ (screen.data # 0 \/ answers[current] = "none")
  /\ screen' = [screen EXCEPT !.error = 0]
  /\ UNCHANGED <<current, answers, handled>>

\* Only the page of a listing tells a 404 from another error.
ServeLoad(p, n) ==
  /\ answers[n] = "sent"
  /\ \E how \in {"done", "failed"} \cup (IF p = "detail" THEN {"missing"} ELSE {}) :
       answers' = [answers EXCEPT ![n] = how]
  /\ UNCHANGED <<current, handled, screen>>

\* Variant with a bug: no cleanup.
StaysActive(n) == n <= current

active(n) == n = current

\* The callbacks.  A success of the offers leaves the error of a former run; a
\* failure on the page of a listing leaves its 404, and both leave the data.
Shows(p, n) ==
  CASE answers[n] = "done" ->
         [loading |-> FALSE, data |-> n, notFound |-> 0,
          error |-> IF p = "offers" THEN screen.error ELSE 0]
    [] answers[n] = "missing" ->
         [loading |-> FALSE, data |-> screen.data, notFound |-> n, error |-> 0]
    [] OTHER ->
         [loading |-> FALSE, notFound |-> screen.notFound, error |-> n,
          data |-> IF p \in {"detail", "offers"} THEN screen.data ELSE 0]

ShowAnswer(p, n) ==
  /\ answers[n] \in {"done", "missing", "failed"} /\ n \notin handled
  /\ handled' = handled \cup {n}
  /\ screen' = IF active(n) THEN Shows(p, n) ELSE screen
  /\ UNCHANGED <<current, answers>>

LoadAnswers(p, n) == ServeLoad(p, n) \/ ShowAnswer(p, n)
LoadNext(p) ==
  DependencyChanges(p) \/ Retry(p) \/ ClearError(p) \/ \E n \in Runs : LoadAnswers(p, n)

-----------------------------------------------------------------------------
(* The home page *)

HomeTypeOK == listings \subseteq Published /\ matching \subseteq Published /\ requestedPage \in Nat
HomeInit == listings = {} /\ matching = Published /\ requestedPage = 1

filtered == listings \cap matching

\* paginateListings: how many pages there are (at least one), which of them is
\* shown when another is asked for, and what is on it, from start to end.
Pages(total) == IF total = 0 THEN 1 ELSE (total + HOME_PAGE_SIZE - 1) \div HOME_PAGE_SIZE
ShownPage(total) ==
  IF requestedPage > Pages(total) THEN Pages(total) ELSE IF requestedPage < 1 THEN 1 ELSE requestedPage
Place(a, all) == Cardinality({b \in all : b <= a})
ItemsOn(p, all) == {a \in all : Place(a, all) \in (p - 1) * HOME_PAGE_SIZE + 1 .. p * HOME_PAGE_SIZE}

paginationNumbers(currentPage, total) ==
  {1, total, currentPage - 1, currentPage, currentPage + 1} \cap 1 .. total

ShowListings(n) ==
  /\ ShowAnswer("home", n)
  /\ IF ~active(n) THEN UNCHANGED listings
     ELSE IF answers[n] = "done" THEN listings' \in SUBSET Published ELSE listings' = {}
  /\ UNCHANGED <<matching, requestedPage>>

\* "Réessayer" is all that runs the effect again.
RetryListings == Retry("home") /\ UNCHANGED homeVars

\* Variant with a bug: the filter keeps the page.
FilterKeepsPage ==
  /\ matching' \in SUBSET Published
  /\ UNCHANGED <<loadVars, listings, requestedPage>>

\* Both parts of the filter can be used while the page loads.
UpdateFilter ==
  /\ matching' \in SUBSET Published
  /\ requestedPage' = 1
  /\ UNCHANGED <<loadVars, listings>>

\* The numbers, "Précédent" and "Suivant", of which there are none on one page.
SetPage(n) ==
  LET pages == Pages(Cardinality(filtered))
      currentPage == ShownPage(Cardinality(filtered)) IN
  /\ OnScreen.shows = "done" /\ pages > 1
  /\ n \in paginationNumbers(currentPage, pages)
  /\ requestedPage' = n
  /\ UNCHANGED <<loadVars, listings, matching>>

HomeNext ==
  \/ RetryListings \/ UpdateFilter
  \/ \E n \in Runs : (ServeLoad("home", n) /\ UNCHANGED homeVars) \/ ShowListings(n)
  \/ \E n \in 1 .. MaxListings : SetPage(n)
=============================================================================
