----------------------------- MODULE Catalogue ------------------------------
(***************************************************************************)
(* The resource catalogue of the web application.  It asks for the user's  *)
(* memberships once, and then for a page of resources whenever one of the  *)
(* choices that its effect depends on changes: organization, search, page  *)
(* and tab.  All organizations together are read one after the other,      *)
(* while resources change, and are put together in the browser.            *)
(***************************************************************************)
EXTENDS Naturals, FiniteSets

CONSTANTS
    CatalogueOrgs,      \* numbers, in the order of the memberships
    Items,              \* resources; numbers, in the order of their names
    Matching,           \* the items that the search finds
    RESOURCE_PAGE_SIZE,
    MaxMoves,           \* bound: what the user does
    MaxShifts           \* bound: what changes elsewhere, and requests that fail

ASSUME CatalogueAssumption ==
    /\ CatalogueOrgs \cup Items \subseteq Nat \ {0}
    /\ IsFiniteSet(CatalogueOrgs) /\ IsFiniteSet(Items)
    /\ Matching \subseteq Items
    /\ RESOURCE_PAGE_SIZE \in Nat \ {0} /\ {MaxMoves, MaxShifts} \subseteq Nat

VARIABLES
    access,     \* [Items -> the organizations that may use it, and its status]
    memberships, \* the organizations of the user's approved memberships
    shelf,      \* the state of the component; repeated marks a choice that was no choice
    asking,     \* the request for resources that is under way, or NoRequest
    moves, shifts

catalogueVars == <<access, memberships, shelf, asking, moves, shifts>>

ALL_ORGANIZATIONS == 0
NoRequest == [orgs |-> {}, pending |-> FALSE]
Tabs == {"ACTIVE", "INACTIVE"}
NothingShown == [question |-> NoRequest, rows |-> {}, page |-> 0, totalPages |-> 0,
                 total |-> 0]

Move == moves < MaxMoves /\ moves' = moves + 1
Shift == shifts < MaxShifts /\ shifts' = shifts + 1

-----------------------------------------------------------------------------
(* The resource service                                                    *)

\* findAll and its where clause.
findAll(o, q) ==
    {i \in Items : /\ o \in access[i].orgs /\ access[i].status = q.tab
                   /\ q.search => i \in Matching}

totalPages(items) ==
    (Cardinality(items) + RESOURCE_PAGE_SIZE - 1) \div RESOURCE_PAGE_SIZE

\* skip and take, of the items in their order.
PageOf(items, n) ==
    {i \in items : Cardinality({j \in items : j < i}) \div RESOURCE_PAGE_SIZE = n - 1}

\* Resources are created, shared and removed, and memberships end.
changeAccess(i, orgs, tab) ==
    /\ Shift
    /\ access' = [access EXCEPT ![i] = [orgs |-> orgs, status |-> tab]]
    /\ UNCHANGED <<memberships, shelf, asking, moves>>

-----------------------------------------------------------------------------
(* Questions                                                               *)

Choices(s) ==
    [combined |-> s.selected = ALL_ORGANIZATIONS, page |-> s.page,
     orgs |-> IF s.selected = ALL_ORGANIZATIONS THEN s.orgs ELSE {s.selected},
     search |-> s.search, tab |-> s.tab, pending |-> TRUE]

\* getAccessibleResources is called for each organization.
NewQuestion(s) == [question |-> Choices(s), read |-> [o \in {} |-> {}], pending |-> TRUE]

\* The effect runs again when one of its dependencies changes; the request of
\* its last run is aborted then.
KeepAsking(s, attempt) ==
    IF asking.pending THEN asking ELSE NewQuestion(s)
Effect(s, attempt) ==
    IF attempt \/ Choices(s) # Choices(shelf) THEN NewQuestion(s) ELSE asking

Choose(s, attempt) ==
    /\ shelf.members = "loaded" /\ shelf.orgs # {} /\ Move
    /\ shelf' = [s EXCEPT !.status = "loading", !.shown = NothingShown]
    /\ asking' = Effect(s, attempt)
    /\ UNCHANGED <<access, memberships, shifts>>

-----------------------------------------------------------------------------
(* The user                                                                *)

\* What was repeated before no longer matters.
Fresh == [shelf EXCEPT !.repeated = FALSE]

\* Nothing here looks at what is selected: whether the select and the tabs of the
\* library report the value they already have is left open.
changeOrganization(o) ==
    /\ o \in shelf.orgs \cup {ALL_ORGANIZATIONS}
    /\ Choose([shelf EXCEPT !.selected = o, !.page = 1,
                  !.repeated = o = shelf.selected /\ shelf.page = 1], FALSE)

applySearch(text) == Choose([Fresh EXCEPT !.page = 1, !.search = text], TRUE)

clearSearch ==
    /\ shelf.search
    /\ Choose([Fresh EXCEPT !.page = 1, !.search = FALSE], TRUE)

changeTab(tab) ==
    Choose([shelf EXCEPT !.page = 1, !.tab = tab,
               !.repeated = tab = shelf.tab /\ shelf.page = 1], FALSE)

\* The buttons of CatalogueResults know the page of the answer.
HasNextUnlessPast(shown) == shown.rows # {} /\ shown.page <= shown.totalPages
HasNext(shown) == shown.rows # {} /\ shown.page < shown.totalPages
HasPrevious(shown) == shown.page > 1

changePage(n) ==
    /\ shelf.status = "loaded"
    /\ \/ n = shelf.shown.page + 1 /\ HasNext(shelf.shown)
       \/ n + 1 = shelf.shown.page /\ HasPrevious(shelf.shown)
    /\ Choose([Fresh EXCEPT !.page = n], FALSE)

retryCatalogue ==
    /\ shelf.status = "error"
    /\ Choose(Fresh, TRUE)

retryMemberships ==
    /\ shelf.members = "error" /\ Move
    /\ shelf' = [shelf EXCEPT !.members = "loading"]
    /\ UNCHANGED <<access, memberships, asking, shifts>>

-----------------------------------------------------------------------------
(* Answers                                                                 *)

loadMemberships ==
    /\ shelf.members = "loading"
    /\ LET s == [shelf EXCEPT
                    !.members = "loaded", !.orgs = memberships,
                    !.selected = IF @ \in memberships THEN @ ELSE ALL_ORGANIZATIONS,
                    !.status = IF memberships # {} THEN "loading" ELSE @]
       IN  shelf' = s /\ asking' = NewQuestion(s)
    /\ UNCHANGED <<access, memberships, moves, shifts>>

failMemberships ==
    /\ shelf.members = "loading" /\ Shift
    /\ shelf' = [shelf EXCEPT !.members = "error"]
    /\ UNCHANGED <<access, memberships, asking, moves>>

\* Bound: an organization has one page of AGGREGATE_RESOURCE_PAGE_SIZE.
getAccessibleResources(o) ==
    /\ asking.pending
    /\ LET read == asking.read
       IN  /\ o \in asking.question.orgs \ DOMAIN read
           /\ asking' = [asking EXCEPT !.read =
                  [p \in DOMAIN read \cup {o} |->
                      IF p = o THEN findAll(o, asking.question) ELSE read[p]]]
    /\ UNCHANGED <<access, memberships, shelf, moves, shifts>>

AllRead(read) == UNION {read[o] : o \in DOMAIN read}
\* The first organization through which the user may see the item.
EveryRow(read) == UNION {{<<i, o>> : i \in read[o]} : o \in DOMAIN read}
FirstRows(read) ==
    {x \in EveryRow(read) : \A p \in DOMAIN read : p < x[2] => x[1] \notin read[p]}

\* The page that was asked for, or the last one there is.
UnclampedPage(items, n) == n
ClampedPage(items, n) ==
    LET last == IF items = {} THEN 1 ELSE totalPages(items)
    IN  IF n > last THEN last ELSE n

getCombinedCatalogue(read, q) ==
    LET items == AllRead(read)
        page == ClampedPage(items, q.page)
        slice == PageOf(items, page)
    IN  [question |-> q, rows |-> {x \in FirstRows(read) : x[1] \in slice},
         page |-> page, totalPages |-> totalPages(items), total |-> Cardinality(items)]

getOneCatalogue(read, q) ==
    LET items == AllRead(read)
        slice == PageOf(items, q.page)
    IN  [question |-> q, rows |-> {x \in EveryRow(read) : x[1] \in slice},
         page |-> q.page, totalPages |-> totalPages(items), total |-> Cardinality(items)]

answerCatalogue ==
    /\ asking.pending /\ DOMAIN asking.read = asking.question.orgs
    /\ shelf' = [shelf EXCEPT
          !.status = "loaded", !.repeated = FALSE,
          !.shown = IF asking.question.combined
                    THEN getCombinedCatalogue(asking.read, asking.question)
                    ELSE getOneCatalogue(asking.read, asking.question)]
    /\ asking' = NoRequest
    /\ UNCHANGED <<access, memberships, moves, shifts>>

failCatalogue ==
    /\ asking.pending /\ Shift
    /\ shelf' = [shelf EXCEPT !.status = "error", !.repeated = FALSE, !.shown = NothingShown]
    /\ asking' = NoRequest
    /\ UNCHANGED <<access, memberships, moves>>

-----------------------------------------------------------------------------
CatalogueInit ==
    /\ access = [i \in Items |-> [orgs |-> CatalogueOrgs, status |-> "ACTIVE"]]
    /\ memberships \in {{}, CatalogueOrgs}
    /\ shelf = [members |-> "loading", orgs |-> {}, selected |-> ALL_ORGANIZATIONS,
                search |-> FALSE, page |-> 1, tab |-> "ACTIVE", status |-> "idle",
                repeated |-> FALSE, shown |-> NothingShown]
    /\ asking = NoRequest
    /\ moves = 0 /\ shifts = 0

CatalogueNext ==
    \/ \E i \in Items, orgs \in SUBSET CatalogueOrgs, tab \in Tabs : changeAccess(i, orgs, tab)
    \/ loadMemberships \/ failMemberships \/ retryMemberships
    \/ \E o \in CatalogueOrgs \cup {ALL_ORGANIZATIONS} : changeOrganization(o)
    \/ \E text \in BOOLEAN : applySearch(text)
    \/ clearSearch \/ retryCatalogue
    \/ \E tab \in Tabs : changeTab(tab)
    \/ \E n \in 1 .. Cardinality(Items) + 1 : changePage(n)
    \/ \E o \in CatalogueOrgs : getAccessibleResources(o)
    \/ answerCatalogue \/ failCatalogue

CatalogueSpec == CatalogueInit /\ [][CatalogueNext]_catalogueVars

-----------------------------------------------------------------------------
(* Correctness                                                             *)

\* The resources that are shown answer the choices that are shown: the answer to
\* an earlier choice never replaces a later one.
AnswersTheLastQuestion ==
    shelf.status = "loaded" => shelf.shown.question = Choices(shelf)

\* Every handler that shows the skeleton makes the effect run again, also when
\* the page was clamped and a button asks for the page the state already has.  The
\* exception is the choice, on the first page, of what is selected already.
SkeletonsEnd ==
    /\ shelf.status = "loading" => asking.pending \/ shelf.repeated
    /\ shelf.status = "error" => ~asking.pending

\* A resource that several organizations share, even while it is moved between
\* the reads, is listed once, and a page past the end shows the last one.
EachResourceOnce ==
    shelf.status = "loaded" /\ shelf.shown.question.combined =>
        /\ \A x, y \in shelf.shown.rows : x[1] = y[1] => x = y
        /\ shelf.shown.total > 0 => shelf.shown.rows # {}

\* The catalogue answers the question on the screen, ends, and repeats nothing.
CatalogueIsSound == AnswersTheLastQuestion /\ SkeletonsEnd /\ EachResourceOnce

=============================================================================
