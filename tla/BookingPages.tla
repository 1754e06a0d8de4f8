---------------------------- MODULE BookingPages ----------------------------
(***************************************************************************)
(* The pages of the web application that show bookings, the lists that the *)
(* booking service keeps for ten minutes, and the live events that tell a  *)
(* page to ask again.                                                      *)
(*                                                                         *)
(* A change commits, is published, and only then evicts lists: those of    *)
(* the user who made it.  A page asks once when it opens and once for each *)
(* event that reaches it; asking again aborts the older question, whose    *)
(* answer then reaches nobody, although the service still works on it.     *)
(***************************************************************************)
EXTENDS Naturals, FiniteSets

CONSTANTS
    Bookings,       \* a booking is known by its slot; bound: each is booked once
    FirstSlots,     \* the slots in one answer: the first hundred from now on
    Owner, Admin,   \* who books, and who administers the resource
    Gets, Calls,    \* questions and changes that are under way
    MaxCalls,       \* bound: [pages that are open together -> changes asked for]
    None,
    MaxFaults       \* bound: requests, publications and services that fail

Callers == {Owner, Admin}
PageSets == DOMAIN MaxCalls
Pages == {"mine", "card", "upcoming", "dialog", "org", "history"}
Keys == {<<"me", Owner>>, <<"org", Admin>>}     \* the lists that the pages ask for
Statuses == {"AVAILABLE", "CONFIRMED", "CANCELLED", "COMPLETED"}

ASSUME BookingPagesAssumption ==
    /\ Owner # Admin /\ None \notin Bookings \cup Keys \cup Statuses
    /\ FirstSlots \subseteq Bookings
    /\ MaxCalls \in [PageSets -> Nat] /\ PageSets \subseteq SUBSET Pages
    /\ MaxFaults \in Nat

VARIABLES
    status,         \* [Bookings -> Statuses], the rows of the database
    changedBy,      \* history: who changed a booking last
    cache,          \* [Keys -> rows or None]
    page,           \* [Pages -> status, and the rows that are shown]
    dialog,         \* ResourceBookingDialog
    get,            \* [Gets -> question or Unused]
    call,           \* [Calls -> change or Unused]
    event,          \* bookings whose event is published and on its way
    missed,         \* history: events that passed a page since it asked
    outdated,       \* history: rows of a page's answer that were old in the cache
    crossed,        \* history: rows of the cache that were old when stored
    unevicted,      \* history: changes whose service died before the eviction
    refunded,       \* history: cancellations that the page was told of
    calls, faults   \* counters of the bounded events

bookingServer == <<status, changedBy, cache, event, crossed, unevicted>>
bookingPages == <<page, dialog, missed, outdated, refunded>>
bookingVars == <<bookingServer, bookingPages, get, call, calls, faults>>

Unused == [stage |-> "idle"]
Fault == faults < MaxFaults /\ faults' = faults + 1

-----------------------------------------------------------------------------
(* Questions                                                               *)

\* The URL and the user name a cached list.
UserCacheKey(url, user) == <<url, user>>
getMyBookings == UserCacheKey("me", Owner)
getOrganizationBookings == UserCacheKey("org", Admin)
\* The URL of the slots holds the present time, and that of the points is not
\* kept: no answer is found again.
getResourceSlots == None
getCurrentUserPoints == None

Question(p) ==
    CASE p \in {"mine", "upcoming"} -> getMyBookings
      [] p \in {"org", "history"} -> getOrganizationBookings
      [] p = "dialog" -> getResourceSlots
      [] p = "card" -> getCurrentUserPoints

IsOpen(p) == page[p].status \notin {"closed", "left"}
Asks(p) == {g \in Gets : get[g] # Unused /\ get[g].page = p}

Tidy(r) == IF r.page = "nobody" /\ r.stage = "done" THEN Unused ELSE r
Without(questions, p) ==
    [g \in Gets |-> IF g \in Asks(p) THEN Tidy([get[g] EXCEPT !.page = "nobody"])
                    ELSE questions[g]]
Abort(p) == Without(get, p)

Asking(p, g) == [Abort(p) EXCEPT ![g] = [page |-> p, key |-> Question(p),
                                         stage |-> "asked", rows |-> None]]
\* An effect runs again: the older question is aborted and a new one is asked.
Ask(p, g) ==
    /\ get[g] = Unused
    /\ get' = Asking(p, g)
    /\ missed' = {x \in missed : x[1] # p}
    /\ outdated' = {x \in outdated : x[1] # p}

Rows(rows, shown) ==
    [b \in Bookings |-> IF rows[b] \in shown THEN rows[b] ELSE None]
HistoryBookings(rows) == Rows(rows, {"CONFIRMED", "CANCELLED", "COMPLETED"})
UpcomingBookings(rows) == Rows(rows, {"CONFIRMED"})
availableFutureSlots(rows) ==
    [b \in Bookings |-> IF b \in FirstSlots THEN Rows(rows, {"AVAILABLE", "CANCELLED"})[b]
                       ELSE None]

View(p, rows) ==
    CASE p = "upcoming" -> UpcomingBookings(rows)
      [] p = "dialog" -> availableFutureSlots(rows)
      [] OTHER -> HistoryBookings(rows)

Shown(p, b) == page[p].rows[b]
NoRows == [b \in Bookings |-> None]

-----------------------------------------------------------------------------
(* The cache of the booking service                                        *)

OutdatedRows(g) ==
    {<<get[g].page, b>> : b \in {x \in Bookings : /\ get[g].page # "nobody"
                                                 /\ cache[get[g].key][x] # status[x]}}

lookUp(g) ==
    /\ get[g].stage = "asked"
    /\ IF get[g].key # None /\ cache[get[g].key] # None
       THEN /\ get' = [get EXCEPT ![g] =
                          Tidy([@ EXCEPT !.stage = "done", !.rows = cache[get[g].key]])]
            /\ outdated' = outdated \cup OutdatedRows(g)
       ELSE /\ get' = [get EXCEPT ![g].stage = "missed"]
            /\ UNCHANGED outdated
    /\ UNCHANGED <<bookingServer, page, dialog, missed, refunded,
                   call, calls, faults>>

\* getUserBookings, getOrgBookings, list of slots, getPointsBalance.
findRows(g) ==
    /\ get[g].stage = "missed"
    /\ get' = [get EXCEPT ![g] =
                  Tidy([@ EXCEPT !.rows = status,
                                 !.stage = IF get[g].key = None THEN "done" ELSE "read"])]
    /\ UNCHANGED <<bookingServer, bookingPages, call, calls, faults>>

\* The interceptor stores what was read, at any time after it was read.
storeRows(g) ==
    /\ get[g].stage = "read"
    /\ LET key == get[g].key
           old == {b \in Bookings : get[g].rows[b] # status[b]}
       IN  /\ cache' = [cache EXCEPT ![key] = get[g].rows]
           /\ crossed' = {x \in crossed : x[1] # key} \cup {<<key, b>> : b \in old}
    /\ get' = [get EXCEPT ![g] = Tidy([@ EXCEPT !.stage = "done"])]
    /\ UNCHANGED <<status, changedBy, event, unevicted, bookingPages, call, calls, faults>>

Evict(keys) ==
    /\ cache' = [k \in Keys |-> IF k \in keys THEN None ELSE cache[k]]
    /\ crossed' = {x \in crossed : x[1] \notin keys}

expire(key) ==
    /\ cache[key] # None
    /\ Evict({key})
    /\ UNCHANGED <<status, changedBy, event, unevicted, bookingPages, get, call,
                   calls, faults>>

-----------------------------------------------------------------------------
(* Answers                                                                 *)

Answered(g) == [get EXCEPT ![g] = Tidy([@ EXCEPT !.page = "nobody"])]

applyLoad(g) ==
    /\ get[g].stage \in {"read", "done"} /\ get[g].page # "nobody"
    /\ page' = [page EXCEPT ![get[g].page] =
                   [status |-> "loaded", rows |-> View(get[g].page, get[g].rows)]]
    /\ get' = Answered(g)
    /\ UNCHANGED <<bookingServer, dialog, missed, outdated, refunded,
                   call, calls, faults>>

failLoad(g) ==
    /\ get[g] # Unused /\ get[g].page # "nobody" /\ Fault
    /\ page' = [page EXCEPT ![get[g].page] = [status |-> "error", rows |-> NoRows]]
    /\ get' = Answered(g)
    /\ UNCHANGED <<bookingServer, dialog, missed, outdated, refunded,
                   call, calls>>

NewDialog == [open |-> FALSE, selected |-> None, submitting |-> FALSE, created |-> None,
              error |-> FALSE]

\* ApiAuthenticationError: the browser leaves for /login.
leaveForLogin(p) ==
    /\ p \notin {"card", "upcoming"} /\ Fault
    /\ Asks(p) # {} \/ \E c \in Calls : call[c] # Unused /\ call[c].page = p
    /\ page' = [q \in Pages |-> IF IsOpen(q) THEN [status |-> "left", rows |-> NoRows]
                                ELSE page[q]]
    /\ get' = [g \in Gets |-> IF get[g] = Unused THEN Unused
                              ELSE Tidy([get[g] EXCEPT !.page = "nobody"])]
    /\ call' = [c \in Calls |-> IF call[c] = Unused THEN Unused
                                ELSE [call[c] EXCEPT !.page = "nobody"]]
    /\ dialog' = NewDialog
    /\ UNCHANGED <<bookingServer, missed, outdated, refunded, calls>>

\* onRetry, of the pages that have it.
retry(p, g) ==
    /\ page[p].status = "error" /\ p # "card"
    /\ p = "dialog" => dialog.open /\ dialog.created = None
    /\ page' = [page EXCEPT ![p].status = "loading"]
    /\ dialog' = IF p = "dialog" THEN [dialog EXCEPT !.error = FALSE, !.selected = None]
                 ELSE dialog
    /\ Ask(p, g)
    /\ UNCHANGED <<bookingServer, refunded, call, calls, faults>>

-----------------------------------------------------------------------------
(* Live events                                                             *)

\* Whether the page listens: useBookingRealtime does so while it is mounted, and
\* useOrganizationBookingRealtime only for organizations of the rows it shows.
useBookingRealtime(p) ==
    \/ p \in {"mine", "history"} /\ IsOpen(p)
    \/ p = "dialog" /\ IsOpen(p) /\ dialog.open /\ dialog.created = None
useOrganizationBookingRealtime(p) ==
    p = "org" /\ page[p].status = "loaded" /\ page[p].rows # NoRows
Listens(p) == useBookingRealtime(p) \/ useOrganizationBookingRealtime(p)

\* Every open page misses the event.
MissedByAll(b) == missed \cup {<<p, b>> : p \in {q \in Pages : IsOpen(q)}}

\* The list stays while it is asked for again; the dialog's does not.
KeepSelection == [dialog EXCEPT !.error = FALSE]
reloadSlots == [dialog EXCEPT !.error = FALSE, !.selected = None]

IgnoreWhileAsking(b, p, g) ==
    /\ b \in event /\ Listens(p)
    /\ event' = event \ {b}
    /\ IF Asks(p) # {} THEN UNCHANGED <<get, missed, outdated, page, dialog>>
       ELSE /\ Ask(p, g)
            /\ IF p = "dialog"
               THEN page' = [page EXCEPT ![p].status = "loading"] /\ dialog' = reloadSlots
               ELSE UNCHANGED <<page, dialog>>
    /\ UNCHANGED <<status, changedBy, cache, crossed, unevicted, refunded, call, calls,
                   faults>>

\* emitBookingEvent reaches the pages whose socket is in a room of the booking.
\* A page that listens asks again; the others miss the event.
handleEvent(b, p, g) ==
    /\ b \in event /\ Listens(p)
    /\ event' = event \ {b}
    /\ get[g] = Unused /\ get' = Asking(p, g)
    /\ missed' = {x \in MissedByAll(b) : x[1] # p}
    /\ outdated' = {x \in outdated : x[1] # p}
    /\ IF p = "dialog"
       THEN page' = [page EXCEPT ![p].status = "loading"] /\ dialog' = reloadSlots
       ELSE UNCHANGED <<page, dialog>>
    /\ UNCHANGED <<status, changedBy, cache, crossed, unevicted, refunded, call, calls,
                   faults>>

\* The event comes before handleConnection, handleWatchResource or
\* handleWatchOrganization has put the socket of a page into the room, while the
\* connection is lost, or after the page has stopped to listen.
missEvent(b) ==
    /\ b \in event
    /\ event' = event \ {b}
    /\ missed' = MissedByAll(b)
    /\ UNCHANGED <<status, changedBy, cache, crossed, unevicted, page, dialog, outdated,
                   refunded, get, call, calls, faults>>

-----------------------------------------------------------------------------
(* Changes                                                                 *)

Change(c, p, by, kind, b) ==
    /\ call[c] = Unused /\ calls < MaxCalls[{q \in Pages : page[q].status # "closed"}]
    /\ calls' = calls + 1
    /\ call' = [call EXCEPT ![c] = [page |-> p, by |-> by, kind |-> kind, booking |-> b,
                                   stage |-> "sent"]]

Submitting(p, kind, b) ==
    {c \in Calls : /\ call[c] # Unused /\ call[c].page = p
                   /\ call[c].kind = kind /\ call[c].booking = b}

\* A row offers its actions twice, in the list and in its summary, and each of
\* the two knows only of its own submission.
BookingMutationActions(p, kind, b) ==
    /\ page[p].status = "loaded" /\ Shown(p, b) = "CONFIRMED"
    /\ Cardinality(Submitting(p, kind, b)) < 2

CancelOptimistically(c, p, b) ==
    /\ p \in {"mine", "org", "history"}
    /\ BookingMutationActions(p, "cancel", b)
    /\ Change(c, p, IF p = "mine" THEN Owner ELSE Admin, "cancel", b)
    /\ page' = [page EXCEPT ![p].rows[b] = "CANCELLED"]
    /\ UNCHANGED <<bookingServer, dialog, missed, outdated, refunded, get, faults>>
submitCancellation(c, p, b) ==
    /\ p \in {"mine", "org", "history"}
    /\ BookingMutationActions(p, "cancel", b)
    /\ Change(c, p, IF p = "mine" THEN Owner ELSE Admin, "cancel", b)
    /\ UNCHANGED <<bookingServer, bookingPages, get, faults>>

markAsComplete(c, p, b) ==
    /\ p \in {"org", "history"}
    /\ BookingMutationActions(p, "complete", b)
    /\ Change(c, p, Admin, "complete", b)
    /\ UNCHANGED <<bookingServer, bookingPages, get, faults>>

submitBooking(c) ==
    /\ dialog.open /\ dialog.created = None /\ ~dialog.submitting
    /\ page["dialog"].status = "loaded" /\ dialog.selected # None
    /\ dialog' = [dialog EXCEPT !.submitting = TRUE, !.error = FALSE]
    /\ Change(c, "dialog", Owner, "create", dialog.selected)
    /\ UNCHANGED <<bookingServer, page, missed, outdated, refunded, get,
                   faults>>

\* Somebody acts elsewhere: in another tab, or on another computer.
changeElsewhere(c, by, kind, b) ==
    /\ kind = "create" => by = Owner
    /\ kind = "complete" => by = Admin
    /\ Change(c, "nobody", by, kind, b)
    /\ UNCHANGED <<bookingServer, bookingPages, get, faults>>

From(kind) == IF kind = "create" THEN "AVAILABLE" ELSE "CONFIRMED"
StatusIsKind(kind) == kind
To(kind) == CASE kind = "create" -> "CONFIRMED"
              [] kind = "cancel" -> "CANCELLED"
              [] kind = "complete" -> "COMPLETED"

\* The transaction of create, cancel and complete; it may refuse for more reasons
\* than the status, such as points or the notice period.
commit(c) ==
    /\ call[c].stage = "sent"
    /\ LET b == call[c].booking
       IN  /\ status[b] = From(call[c].kind)
           /\ status' = [status EXCEPT ![b] = To(call[c].kind)]
           /\ changedBy' = [changedBy EXCEPT ![b] = call[c].by]
           /\ unevicted' = {x \in unevicted : x[2] # b}
    /\ call' = [call EXCEPT ![c].stage = "committed"]
    /\ UNCHANGED <<cache, event, crossed, bookingPages, get, calls, faults>>

refuse(c) ==
    /\ call[c].stage = "sent"
    /\ call' = [call EXCEPT ![c].stage = "refused"]
    /\ UNCHANGED <<bookingServer, bookingPages, get, calls, faults>>

\* bookingConfirmed, bookingCancelled and bookingCompleted; safelyNotify lets the
\* request go on when the publication fails.
publishLifecycleEvent(c, succeeds) ==
    /\ call[c].stage = "committed"
    /\ call' = [call EXCEPT ![c].stage = "published"]
    /\ IF succeeds
       THEN /\ event' = event \cup {call[c].booking}
            /\ UNCHANGED <<missed, faults>>
       ELSE Fault /\ missed' = MissedByAll(call[c].booking) /\ UNCHANGED event
    /\ UNCHANGED <<status, changedBy, cache, crossed, unevicted, page, dialog, outdated, refunded, get, calls>>

EvictNothing(user) == {}
EvictedKeys(user) == {UserCacheKey("me", user), UserCacheKey("org", user)}

evict(c) ==
    /\ call[c].stage = "published"
    /\ Evict(EvictedKeys(call[c].by))
    /\ call' = [call EXCEPT ![c].stage = "evicted"]
    /\ UNCHANGED <<status, changedBy, event, unevicted, bookingPages, get, calls, faults>>

-----------------------------------------------------------------------------
(* What a page does with the answer to its change                          *)

\* handleBookingUpdated replaces the row, if the list is there.
handleBookingUpdated(p, b, s) ==
    IF page[p].status = "loaded" /\ Shown(p, b) # None
    THEN [page EXCEPT ![p].rows[b] = s] ELSE page

\* balanceRefreshKey makes the card of the same page ask again.
RefreshNothing(c, g) == UNCHANGED <<get, missed, outdated>>
refreshBalance(c, g) ==
    IF call[c].page = "mine" /\ IsOpen("card") THEN Ask("card", g)
    ELSE UNCHANGED <<get, missed, outdated>>

answerChange(c, g) ==
    /\ call[c].stage = "evicted" /\ call[c].page \notin {"nobody", "dialog"}
    /\ page' = handleBookingUpdated(call[c].page, call[c].booking, To(call[c].kind))
    /\ refreshBalance(c, g)
    /\ refunded' = IF call[c].page = "mine" THEN refunded \cup {call[c].booking}
                   ELSE refunded
    /\ call' = [call EXCEPT ![c] = Unused]
    /\ UNCHANGED <<bookingServer, dialog, calls, faults>>

\* A booking is confirmed, even in a dialog that was closed in the meantime; the
\* question of the open one is aborted.
answerBooking(c) ==
    /\ call[c].stage = "evicted" /\ call[c].page = "dialog"
    /\ dialog' = [dialog EXCEPT !.created = call[c].booking, !.submitting = FALSE]
    /\ get' = Abort("dialog")
    /\ call' = [call EXCEPT ![c] = Unused]
    /\ UNCHANGED <<bookingServer, page, missed, outdated, refunded,
                   calls, faults>>

\* 404 and 409: the open dialog asks for the slots again.
OnlyShowRefusal(c, g) ==
    /\ call[c].stage = "refused" /\ call[c].page = "dialog"
    /\ dialog' = [dialog EXCEPT !.error = TRUE, !.submitting = FALSE, !.selected = None]
    /\ page' = [page EXCEPT !["dialog"].status = "loading"]
    /\ call' = [call EXCEPT ![c] = Unused]
    /\ UNCHANGED <<bookingServer, missed, outdated, refunded, get, calls, faults>>
refusedBooking(c, g) ==
    /\ call[c].stage = "refused" /\ call[c].page = "dialog"
    /\ dialog' = [dialog EXCEPT !.error = TRUE, !.submitting = FALSE, !.selected = None]
    /\ page' = [page EXCEPT !["dialog"].status = "loading"]
    /\ IF dialog.open THEN Ask("dialog", g) ELSE UNCHANGED <<get, missed, outdated>>
    /\ call' = [call EXCEPT ![c] = Unused]
    /\ UNCHANGED <<bookingServer, refunded, calls, faults>>

\* An error of another kind, or nobody to answer.
EndOfCall(c) ==
    /\ dialog' = IF call[c].page = "dialog"
                 THEN [dialog EXCEPT !.error = TRUE, !.submitting = FALSE] ELSE dialog
    /\ call' = [call EXCEPT ![c] = Unused]

failChange(c) ==
    /\ \/ call[c].stage = "refused" /\ UNCHANGED faults
       \/ call[c].stage = "evicted" /\ call[c].page = "nobody" /\ UNCHANGED faults
       \/ call[c].stage \in {"refused", "evicted"} /\ call[c].page # "nobody" /\ Fault
    /\ EndOfCall(c)
    /\ UNCHANGED <<bookingServer, page, missed, outdated, refunded, get,
                   calls>>

\* The service dies after the commit: no event, no eviction, no answer.
serviceDies(c) ==
    /\ call[c].stage \in {"committed", "published"} /\ Fault
    /\ missed' = IF call[c].stage = "committed" THEN MissedByAll(call[c].booking)
                 ELSE missed
    /\ unevicted' = unevicted \cup {<<call[c].by, call[c].booking>>}
    /\ EndOfCall(c)
    /\ UNCHANGED <<status, changedBy, cache, event, crossed, page, outdated,
                   refunded, get, calls>>

-----------------------------------------------------------------------------
(* The dialog                                                              *)

\* Opening does not forget a booking that was confirmed while it was closed.
openDialog(g) ==
    /\ IsOpen("dialog") /\ ~dialog.open
    /\ dialog' = [dialog EXCEPT !.open = TRUE, !.selected = None]
    /\ page' = [page EXCEPT !["dialog"].status = "loading"]
    /\ IF dialog.created = None THEN Ask("dialog", g)
       ELSE UNCHANGED <<get, missed, outdated>>
    /\ UNCHANGED <<bookingServer, refunded, call, calls, faults>>

closeDialog ==
    /\ IsOpen("dialog") /\ dialog.open
    /\ dialog' = [dialog EXCEPT !.open = FALSE, !.selected = None, !.error = FALSE,
                                !.created = None]
    /\ page' = [page EXCEPT !["dialog"] = [status |-> "idle", rows |-> NoRows]]
    /\ get' = Abort("dialog")
    /\ UNCHANGED <<bookingServer, missed, outdated, refunded, call,
                   calls, faults>>

onSelect(b) ==
    /\ dialog.open /\ dialog.created = None /\ ~dialog.submitting
    /\ page["dialog"].status = "loaded" /\ Shown("dialog", b) # None
    /\ dialog' = [dialog EXCEPT !.selected = b, !.error = FALSE]
    /\ UNCHANGED <<bookingServer, page, missed, outdated, refunded, get,
                   call, calls, faults>>

-----------------------------------------------------------------------------
NewPage(open, p) ==
    [status |-> IF p \notin open THEN "closed" ELSE IF p = "dialog" THEN "idle"
                ELSE "loading",
     rows |-> NoRows]

\* Every page asks when it opens; the lists may be in the cache.
BookingInit ==
    /\ status \in [Bookings -> {"AVAILABLE", "CONFIRMED"}]
    /\ changedBy = [b \in Bookings |-> None]
    /\ cache = [k \in Keys |-> None]
    /\ \E open \in PageSets :
          /\ page = [p \in Pages |-> NewPage(open, p)]
          /\ \E f \in [open \ {"dialog"} -> Gets] :
                /\ \A p, q \in open \ {"dialog"} : p # q => f[p] # f[q]
                /\ get = [g \in Gets |->
                       IF \E p \in open \ {"dialog"} : f[p] = g
                       THEN LET p == CHOOSE p \in open \ {"dialog"} : f[p] = g
                            IN  [page |-> p, key |-> Question(p), stage |-> "asked",
                                 rows |-> None]
                       ELSE Unused]
    /\ dialog = NewDialog
    /\ call = [c \in Calls |-> Unused]
    /\ event = {}
    /\ missed = {} /\ outdated = {} /\ crossed = {} /\ unevicted = {} /\ refunded = {}
    /\ calls = 0 /\ faults = 0

BookingNext ==
    \/ \E g \in Gets :
          \/ lookUp(g) \/ findRows(g) \/ storeRows(g) \/ applyLoad(g) \/ failLoad(g)
          \/ openDialog(g)
          \/ \E p \in Pages : \/ retry(p, g)
                              \/ \E b \in Bookings : handleEvent(b, p, g)
          \/ \E c \in Calls : answerChange(c, g) \/ refusedBooking(c, g)
    \/ \E key \in Keys : expire(key)
    \/ \E p \in Pages : leaveForLogin(p)
    \/ \E b \in Bookings : missEvent(b)
    \/ \E c \in Calls :
          \/ commit(c) \/ refuse(c) \/ evict(c) \/ answerBooking(c) \/ failChange(c)
          \/ serviceDies(c) \/ submitBooking(c)
          \/ \E succeeds \in BOOLEAN : publishLifecycleEvent(c, succeeds)
          \/ \E b \in Bookings :
                \/ \E p \in Pages : submitCancellation(c, p, b) \/ markAsComplete(c, p, b)
                \/ \E by \in Callers, kind \in {"create", "cancel", "complete"} :
                      changeElsewhere(c, by, kind, b)
    \/ closeDialog
    \/ \E b \in Bookings : onSelect(b)

BookingSpec == BookingInit /\ [][BookingNext]_bookingVars

-----------------------------------------------------------------------------
(* Correctness                                                             *)

\* Rows, cached lists and pages hold statuses, and the dialog selects a booking.
BookingTypeOK ==
    /\ status \in [Bookings -> Statuses]
    /\ cache \in [Keys -> [Bookings -> Statuses] \cup {None}]
    /\ \A p \in Pages : page[p].rows \in [Bookings -> Statuses \cup {None}]
    /\ event \subseteq Bookings
    /\ dialog.selected \in Bookings \cup {None}

\* What a page or the cache shows as cancelled or completed is so: answers of
\* questions, changes and the cache only ever lag behind the database.
ShownFinalIsFinal ==
    \A p \in Pages, b \in Bookings :
        Shown(p, b) \in {"CANCELLED", "COMPLETED"} => status[b] = Shown(p, b)

\* A list that is kept for a user shows that user's own changes once they are
\* answered, unless it was read before the commit and stored after the eviction,
\* or the service died before the eviction.
EvictionCoversOwnChanges ==
    \A k \in Keys, b \in Bookings :
        /\ cache[k] # None /\ cache[k][b] # status[b] /\ changedBy[b] = k[2]
        /\ <<k, b>> \notin crossed /\ <<k[2], b>> \notin unevicted
        => \E c \in Calls : /\ call[c].stage \in {"committed", "published"}
                            /\ call[c].by = k[2] /\ call[c].booking = b

\* The last word on its way to a page: a question, an event, or a publication.
UnderWay(p, b) ==
    \/ Asks(p) # {} \/ b \in event
    \/ \E c \in Calls : call[c].stage = "committed" /\ call[c].booking = b

\* A page that waits for nothing shows what the database has, and else for one of
\* two reasons: the event passed it by, or the answer came from the cache.
StalenessHasACause ==
    \A p \in {q \in Pages : page[q].status = "loaded"} \ {"card"}, b \in Bookings :
        /\ ~UnderWay(p, b)
        /\ p = "dialog" => dialog.created = None
        /\ <<p, b>> \notin missed \cup outdated
        => Shown(p, b) = View(p, status)[b]

\* Who sees a page load waits for a request that is under way, however often an
\* event, a retry or a dialog aborts it.
NobodyWaitsInVain ==
    /\ \A p \in Pages \ {"dialog"} : page[p].status = "loading" => Asks(p) # {}
    /\ dialog.open /\ page["dialog"].status = "loading" /\ dialog.created = None =>
          Asks("dialog") # {}

\* The card next to the list has seen the refund of every cancellation that the
\* list was told of, once it shows a balance.
BalanceFollowsCancellations ==
    page["card"].status = "loaded" /\ Asks("card") = {} =>
        \A b \in refunded : Shown("card", b) = "CANCELLED"

\* A dialog that confirms a booking tells the truth, and one can only submit a
\* slot of the list that is shown.
DialogIsTruthful ==
    /\ dialog.created # None => status[dialog.created] # "AVAILABLE"
    /\ dialog.selected # None =>
          page["dialog"].status = "loaded" /\ Shown("dialog", dialog.selected) # None

\* What the lists of the pages and of the cache show: nothing that never was,
\* and nothing that is over without a cause.
BookingListsAreTruthful ==
    BookingTypeOK /\ ShownFinalIsFinal /\ EvictionCoversOwnChanges /\ StalenessHasACause

\* What the pages do with answers: no waiting for nothing, a balance that
\* follows, and a dialog that says what happened.
BookingPagesSettle ==
    NobodyWaitsInVain /\ BalanceFollowsCancellations /\ DialogIsTruthful

=============================================================================
