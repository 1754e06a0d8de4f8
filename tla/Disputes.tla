------------------------------ MODULE Disputes ------------------------------
(***************************************************************************)
(* Disputes about completed bookings: DisputeService and DisputeRepository *)
(* of services/booking-service, the pages of the user who opens one and of *)
(* the administrators who review it, and the resource that a review takes  *)
(* out of service or brings back.                                          *)
(*                                                                         *)
(* A transition is one READ COMMITTED transaction: a step that reads and   *)
(* checks, and a step that begins with the conditional UPDATE, whose row   *)
(* lock lasts until the commit.  Answers take time: a page may send a      *)
(* second request before it has the answer to the first.                   *)
(***************************************************************************)
EXTENDS Naturals, Sequences, FiniteSets, TLC

CONSTANTS
    Bookings,       \* a dispute is known by its booking: the column is unique
    Resources,
    ResourceOf,     \* [Bookings -> Resources]
    Admins,         \* administrators of the owner organization, one page each
    User,           \* who made the bookings
    Calls,          \* requests that are under way
    Reviews,        \* bound: what a review asks for: status, notes and action
    None,
    MaxCalls,       \* bound: requests that are made
    MaxChanges      \* bound: changes by other parts of the system

\* DISPUTE_STATUSES and RESOURCE_ACTIONS of dispute.types.ts.
Statuses == {"OPEN", "UNDER_REVIEW", "RESOLVED", "REJECTED"}
Actions == {"NONE", "MARK_UNAVAILABLE", "RESTORE"}

\* notes: the row has resolution notes that are not blank.
Row == [status : Statuses, notes : BOOLEAN, resolved : BOOLEAN]

ASSUME DisputesAssumption ==
    /\ ResourceOf \in [Bookings -> Resources]
    /\ None \notin Bookings \cup Admins /\ User \notin Admins
    /\ None \notin Row /\ None \notin Statuses
    /\ Reviews \subseteq [to : Statuses \cup {None}, notes : {"none", "blank", "text"},
                         action : Actions]
    /\ {MaxCalls, MaxChanges} \subseteq Nat

VARIABLES
    completed,      \* bookings whose status is COMPLETED
    dispute,        \* table booking_disputes: [Bookings -> row or None]
    event,          \* table booking_dispute_events: [Bookings -> statuses]
    resource,       \* [Resources -> status and unavailableDisputeId]
    approved,       \* who has an approved membership, of the role that is needed
    mine,           \* MyDisputes, the page of the user
    page,           \* OrganizationDisputes, a page for each administrator
    call,           \* [Calls -> request or Idle]
    asked,          \* history: the last resource action each dispute took
    undercut,       \* history: disputes that lost their notes under a closing
    overtaken,      \* history: disputes whose mark another one replaced
    removed,        \* history: resources that were removed and not edited since
    made, changes   \* counters of the bounded events

vars == <<completed, dispute, event, resource, approved, mine, page, call,
          asked, undercut, overtaken, removed, made, changes>>
history == <<asked, undercut, overtaken, removed>>

TERMINAL_STATUSES == {"RESOLVED", "REJECTED"}

TransitionsThatReopen(status) ==
    CASE status = "OPEN" -> {"UNDER_REVIEW", "RESOLVED", "REJECTED"}
      [] status = "UNDER_REVIEW" -> {"RESOLVED", "REJECTED"}
      [] OTHER -> {"UNDER_REVIEW"}
ALLOWED_TRANSITIONS(status) ==
    CASE status = "OPEN" -> {"UNDER_REVIEW", "RESOLVED", "REJECTED"}
      [] status = "UNDER_REVIEW" -> {"RESOLVED", "REJECTED"}
      [] OTHER -> {}

\* The table of the dialog, which has to agree with the service's.
NEXT_STATUSES(status) ==
    CASE status = "OPEN" -> {"UNDER_REVIEW", "RESOLVED", "REJECTED"}
      [] status = "UNDER_REVIEW" -> {"RESOLVED", "REJECTED"}
      [] status \in TERMINAL_STATUSES -> {}

Idle == [op |-> "idle"]
NewPage == [status |-> "loading", list |-> [b \in Bookings |-> None],
            acknowledging |-> None, submitting |-> {}]

Begin(c, request) ==
    /\ call[c] = Idle /\ made < MaxCalls
    /\ made' = made + 1
    /\ call' = [call EXCEPT ![c] = request]
Become(c, request) == call' = [call EXCEPT ![c] = request]

-----------------------------------------------------------------------------
(* The user's page                                                         *)

\* getMyDisputes: the answer, or an error that the user may retry.
loadMyDisputes(arrives) ==
    /\ mine.status = "loading"
    /\ mine' = IF arrives
               THEN [mine EXCEPT !.status = "loaded",
                                 !.list = {b \in Bookings : dispute[b] # None}]
               ELSE [mine EXCEPT !.status = "error"]
    /\ UNCHANGED <<completed, dispute, event, resource, approved, page, call,
                   history, made, changes>>

retryMyDisputes ==
    /\ mine.status = "error"
    /\ mine' = [mine EXCEPT !.status = "loading"]
    /\ UNCHANGED <<completed, dispute, event, resource, approved, page, call,
                   history, made, changes>>

\* The dialog offers the completed bookings, those with a dispute too.
changeOpen ==
    /\ mine.status = "loaded" /\ mine.dialog = None
    /\ mine' = [mine EXCEPT !.dialog = completed]
    /\ UNCHANGED <<completed, dispute, event, resource, approved, page, call,
                   history, made, changes>>

\* submitDispute: once at a time.
submitDispute(c, b) ==
    /\ mine.dialog # None /\ b \in mine.dialog /\ ~mine.submitting
    /\ mine' = [mine EXCEPT !.submitting = TRUE]
    /\ Begin(c, [op |-> "open", dispute |-> b])
    /\ UNCHANGED <<completed, dispute, event, resource, approved, page, history,
                   changes>>

\* open: the user is a member, the booking is completed and has no dispute; the
\* unique column refuses the second of two.
NewRow == [status |-> "OPEN", notes |-> FALSE, resolved |-> FALSE]
MayOpen(b) == User \in approved /\ b \in completed /\ dispute[b] = None

open(c) ==
    /\ call[c].op = "open"
    /\ LET b == call[c].dispute
       IN  /\ IF MayOpen(b)
              THEN /\ dispute' = [dispute EXCEPT ![b] = NewRow]
                   /\ event' = [event EXCEPT ![b] = Append(@, "OPEN")]
              ELSE UNCHANGED <<dispute, event>>
           /\ Become(c, [op |-> "opened", dispute |-> b, done |-> MayOpen(b)])
    /\ UNCHANGED <<completed, resource, approved, mine, page, history, made, changes>>

\* onOpened puts the dispute in front of the list; an error leaves the dialog.
handleOpened(b) == [mine EXCEPT !.submitting = FALSE, !.dialog = None,
                                !.list = @ \cup {b}]

answerOpen(c, arrives) ==
    /\ call[c].op = "opened"
    /\ mine' = IF arrives /\ call[c].done THEN handleOpened(call[c].dispute)
               ELSE [mine EXCEPT !.submitting = FALSE]
    /\ Become(c, Idle)
    /\ UNCHANGED <<completed, dispute, event, resource, approved, page, history,
                   made, changes>>

-----------------------------------------------------------------------------
(* The administrators' pages                                               *)

Shown(a, b) == page[a].list[b]

\* listForOrg refuses who administers nothing.
loadOrganizationDisputes(a, arrives) ==
    /\ page[a].status = "loading"
    /\ page' = [page EXCEPT ![a] =
           IF arrives /\ a \in approved
           THEN [@ EXCEPT !.status = "loaded", !.list = dispute]
           ELSE [@ EXCEPT !.status = "error"]]
    /\ UNCHANGED <<completed, dispute, event, resource, approved, mine, call,
                   history, made, changes>>

\* The page is retried, or left and opened again: answers to what it had sent
\* reach nobody.
OfPage(c, a) == call[c].op \in {"transition", "write", "answer"} /\ call[c].by = a

reopenOrganizationDisputes(a) ==
    /\ page[a].status \in {"error", "loaded"}
    /\ page' = [page EXCEPT ![a] = NewPage]
    /\ call' = [c \in Calls |-> IF OfPage(c, a) THEN [call[c] EXCEPT !.via = "api"]
                                ELSE call[c]]
    /\ UNCHANGED <<completed, dispute, event, resource, approved, mine, history,
                   made, changes>>

Request(via, a, b, review) ==
    [op |-> "transition", via |-> via, by |-> a, dispute |-> b, to |-> review.to,
     notes |-> review.notes, action |-> review.action, expected |-> None]

acknowledge(c, a, b) ==
    /\ page[a].status = "loaded" /\ Shown(a, b) # None
    /\ Shown(a, b).status = "OPEN" /\ page[a].acknowledging = None
    /\ page' = [page EXCEPT ![a].acknowledging = b]
    /\ Begin(c, Request("button", a, b,
           [to |-> "UNDER_REVIEW", notes |-> "none", action |-> "NONE"]))
    /\ UNCHANGED <<completed, dispute, event, resource, approved, mine, history,
                   changes>>

\* submitReview, with what the dialog of a dispute lets one choose: notes are
\* needed to close, and updateDispute of dispute-api.ts leaves blank ones out.
submitReview(c, a, b, review) ==
    /\ page[a].status = "loaded" /\ Shown(a, b) # None
    /\ b \notin page[a].submitting
    /\ review.to \in NEXT_STATUSES(Shown(a, b).status) \cup {None}
    /\ review.notes # "blank"
    /\ review.to \in TERMINAL_STATUSES => review.notes = "text"
    /\ page' = [page EXCEPT ![a].submitting = @ \cup {b}]
    /\ Begin(c, Request("dialog", a, b, review))
    /\ UNCHANGED <<completed, dispute, event, resource, approved, mine, history,
                   changes>>

\* Any other client of the API may send what UpdateDisputeDto admits, blank
\* notes too.
updateDispute(c, a, b, review) ==
    /\ dispute[b] # None
    /\ Begin(c, Request("api", a, b, review))
    /\ UNCHANGED <<completed, dispute, event, resource, approved, mine, page,
                   history, changes>>

-----------------------------------------------------------------------------
(* The transition                                                          *)

assertCanManage(a) == a \in approved

StatusOfRequest(r, row) == r.to
NextStatus(r, row) == IF r.to = None THEN row.status ELSE r.to

\* A dispute that is closed, or gets closed, has notes: those of the request,
\* blank ones too, come before those of the row.
NotesGivenOfRequest(r, row) ==
    r.to \in TERMINAL_STATUSES => r.notes = "text" \/ (r.notes = "none" /\ row.notes)
NotesGiven(r, row) ==
    NextStatus(r, row) \in TERMINAL_STATUSES =>
        r.notes = "text" \/ (r.notes = "none" /\ row.notes)

\* What goes back: the row, or an error.
Answer(r, row) ==
    [op |-> "answer", via |-> r.via, by |-> r.by, dispute |-> r.dispute, row |-> row]

transitionRead(c) ==
    /\ call[c].op = "transition"
    /\ LET r == call[c]
           row == dispute[r.dispute]
           valid == /\ assertCanManage(r.by)
                    /\ r.to # None => r.to \in ALLOWED_TRANSITIONS(row.status)
                    /\ NotesGiven(r, row)
       IN  Become(c, IF valid THEN [r EXCEPT !.op = "write", !.expected = row.status]
                     ELSE Answer(r, None))
    /\ UNCHANGED <<completed, dispute, event, resource, approved, mine, page,
                   history, made, changes>>

\* applyTransition: the row still has the status that was checked.
StillExpectedUnchecked(r) == TRUE
StillExpected(r) == dispute[r.dispute].status = r.expected

Updated(r) ==
    LET old == dispute[r.dispute]
    IN  [status |-> NextStatus(r, [status |-> r.expected]),
         notes |-> IF r.notes = "none" THEN old.notes ELSE r.notes = "text",
         resolved |-> old.resolved \/ r.to \in TERMINAL_STATUSES]

\* applyResourceAction: the last dispute that marks a resource holds it, and
\* only the one that holds it restores it; else the transaction is undone.
RestorableUnchecked(r) == TRUE
Restorable(r) ==
    r.action = "RESTORE" => resource[ResourceOf[r.dispute]].mark = r.dispute

applyResourceAction(r, old) ==
    CASE r.action = "MARK_UNAVAILABLE" -> [status |-> "INACTIVE", mark |-> r.dispute]
      [] r.action = "RESTORE" -> [status |-> "ACTIVE", mark |-> None]
      [] OTHER -> old

\* A request that closes a dispute with the notes it has found there.
ReliesOnNotes(c, b) ==
    /\ call[c].op = "write" /\ call[c].dispute = b
    /\ call[c].to \in TERMINAL_STATUSES /\ call[c].notes = "none"

\* The history of the marks and notes, which the code does not keep.
Remember(r) ==
    LET x == ResourceOf[r.dispute]
    IN  /\ undercut' = IF r.notes = "blank" /\ \E c \in Calls : ReliesOnNotes(c, r.dispute)
                       THEN undercut \cup {r.dispute} ELSE undercut
        /\ UNCHANGED removed
        /\ IF r.action = "NONE" THEN UNCHANGED <<asked, overtaken>>
           ELSE /\ asked' = [asked EXCEPT ![r.dispute] = r.action]
                /\ overtaken' = (overtaken \ {r.dispute}) \cup
                       (IF r.action = "MARK_UNAVAILABLE"
                        THEN {resource[x].mark} \ {None, r.dispute} ELSE {})

applyTransition(c) ==
    /\ call[c].op = "write"
    /\ LET r == call[c]
           b == r.dispute
       IN  IF StillExpected(r) /\ Restorable(r)
           THEN /\ dispute' = [dispute EXCEPT ![b] = Updated(r)]
                /\ event' = IF r.to = None THEN event
                            ELSE [event EXCEPT ![b] = Append(@, r.to)]
                /\ resource' = [resource EXCEPT ![ResourceOf[b]] =
                                   applyResourceAction(r, @)]
                /\ Remember(r)
                /\ Become(c, Answer(r, Updated(r)))
           ELSE /\ Become(c, Answer(r, None))
                /\ UNCHANGED <<dispute, event, resource, history>>
    /\ UNCHANGED <<completed, approved, mine, page, made, changes>>

\* handleUpdated replaces the row of the list, if the list is there.
handleUpdated(a, b, row) ==
    IF row = None \/ page[a].status # "loaded" THEN page[a].list
    ELSE [page[a].list EXCEPT ![b] = IF @ = None THEN None ELSE row]

answerTransition(c, arrives) ==
    /\ call[c].op = "answer"
    /\ LET r == call[c]
           p == page[r.by]
           row == IF arrives THEN r.row ELSE None
       IN  page' = IF r.via = "api" THEN page
                   ELSE [page EXCEPT ![r.by] = [p EXCEPT
                           !.list = handleUpdated(r.by, r.dispute, row),
                           !.acknowledging = IF r.via = "button" THEN None
                                             ELSE p.acknowledging,
                           !.submitting = IF r.via = "dialog" THEN p.submitting \ {r.dispute}
                                          ELSE p.submitting]]
    /\ Become(c, Idle)
    /\ UNCHANGED <<completed, dispute, event, resource, approved, mine, history,
                   made, changes>>

-----------------------------------------------------------------------------
(* The rest of the system                                                  *)

Change == changes < MaxChanges /\ changes' = changes + 1

completeBooking(b) ==
    /\ b \notin completed /\ Change
    /\ completed' = completed \cup {b}
    /\ UNCHANGED <<dispute, event, resource, approved, mine, page, call,
                   history, made>>

membershipChanges(a) ==
    /\ Change
    /\ approved' = IF a \in approved THEN approved \ {a} ELSE approved \cup {a}
    /\ UNCHANGED <<completed, dispute, event, resource, mine, page, call,
                   history, made>>

\* remove of resources.service.ts leaves the mark where it is.
removeResource(x) ==
    /\ Change
    /\ resource' = [resource EXCEPT ![x].status = "INACTIVE"]
    /\ removed' = removed \cup {x}
    /\ UNCHANGED <<completed, dispute, event, approved, mine, page, call, asked,
                   undercut, overtaken, made>>

\* Some completed bookings have a dispute that nobody has looked at.
Init ==
    /\ completed \in SUBSET Bookings
    /\ \E disputed \in SUBSET completed :
          /\ dispute = [b \in Bookings |-> IF b \in disputed THEN NewRow ELSE None]
          /\ event = [b \in Bookings |-> IF b \in disputed THEN <<"OPEN">> ELSE <<>>]
    /\ resource = [x \in Resources |-> [status |-> "ACTIVE", mark |-> None]]
    /\ approved = Admins \cup {User}
    /\ mine = [status |-> "loading", list |-> {}, dialog |-> None, submitting |-> FALSE]
    /\ page = [a \in Admins |-> NewPage]
    /\ call = [c \in Calls |-> Idle]
    /\ asked = [b \in Bookings |-> "NONE"]
    /\ undercut = {} /\ overtaken = {} /\ removed = {}
    /\ made = 0 /\ changes = 0

Next ==
    \/ \E arrives \in BOOLEAN : loadMyDisputes(arrives)
    \/ retryMyDisputes \/ changeOpen
    \/ \E a \in Admins :
          \/ \E arrives \in BOOLEAN : loadOrganizationDisputes(a, arrives)
          \/ reopenOrganizationDisputes(a)
    \/ \E c \in Calls :
          \/ \E b \in Bookings :
                \/ submitDispute(c, b)
                \/ \E a \in Admins :
                      \/ acknowledge(c, a, b)
                      \/ \E review \in Reviews :
                            submitReview(c, a, b, review) \/ updateDispute(c, a, b, review)
          \/ open(c) \/ transitionRead(c) \/ applyTransition(c)
          \/ \E arrives \in BOOLEAN : answerOpen(c, arrives) \/ answerTransition(c, arrives)
    \/ \E b \in Bookings : completeBooking(b)
    \/ \E a \in Admins \cup {User} : membershipChanges(a)
    \/ \E x \in Resources : removeResource(x)

Spec == Init /\ [][Next]_vars

-----------------------------------------------------------------------------
(* Correctness                                                             *)

TypeOK ==
    /\ completed \subseteq Bookings /\ approved \subseteq Admins \cup {User}
    /\ dispute \in [Bookings -> Row \cup {None}]
    /\ event \in [Bookings -> Seq(Statuses)]
    /\ resource \in [Resources -> [status : {"ACTIVE", "INACTIVE"},
                                   mark : Bookings \cup {None}]]
    /\ mine.list \subseteq Bookings
    /\ \A a \in Admins : page[a].list \in [Bookings -> Row \cup {None}]

\* However many reviewers act on a dispute at once, its events are a path of
\* ALLOWED_TRANSITIONS from OPEN to its status.
EventsTellTheStory ==
    \A b \in Bookings :
        LET e == event[b]
        IN  /\ (e = <<>>) = (dispute[b] = None)
            /\ e # <<>> => e[1] = "OPEN" /\ e[Len(e)] = dispute[b].status
            /\ \A i \in 1..(Len(e) - 1) : e[i + 1] \in ALLOWED_TRANSITIONS(e[i])

\* A closed dispute says why, and since when: a reviewer who only edits notes
\* cannot blank those of one who has just closed it.  The one way to close a
\* dispute without notes is to count on those it has while another request
\* blanks them: the UPDATE asks for the status that was checked, and for no more.
ClosedWithNotes ==
    \A b \in Bookings :
        dispute[b] # None /\ dispute[b].status \in TERMINAL_STATUSES =>
            /\ dispute[b].resolved
            /\ dispute[b].notes \/ b \in undercut

\* A resource is held by the dispute whose reviewers marked it last: one that
\* marked and did not restore it holds it, unless another one took it over.  A
\* resource that was removed comes back by such a restoration only, although
\* remove leaves the mark.
MarksAreKept ==
    /\ \A b \in Bookings :
          LET held == resource[ResourceOf[b]].mark = b
          IN  /\ held => asked[b] = "MARK_UNAVAILABLE"
              /\ asked[b] = "MARK_UNAVAILABLE" /\ b \notin overtaken => held
    /\ \A x \in removed :
          resource[x].status = "ACTIVE" =>
              \E b \in Bookings : ResourceOf[b] = x /\ asked[b] = "RESTORE"

\* A dispute that a page shows as closed is closed, although the page only lags
\* behind and answers come in any order.
ShownClosedIsClosed ==
    \A a \in Admins, b \in Bookings :
        Shown(a, b) # None /\ Shown(a, b).status \in TERMINAL_STATUSES =>
            dispute[b].status = Shown(a, b).status

\* The events of a dispute are its history.
HistoryIsComplete == TypeOK /\ EventsTellTheStory

\* A dispute is closed with its notes, and is closed wherever it is shown so.
ClosedDisputesStayClosed == ClosedWithNotes /\ ShownClosedIsClosed

=============================================================================
