--------------------------- MODULE DisputesProofs ---------------------------
(***************************************************************************)
(* Proofs about Disputes for any number of bookings, resources, reviewers, *)
(* pages and requests under way, and any reviews they ask for.             *)
(***************************************************************************)
EXTENDS Disputes, TLAPS

USE DisputesAssumption

Mine == [status : {"loading", "error", "loaded"}, list : SUBSET Bookings,
         dialog : (SUBSET Bookings) \cup {None}, submitting : BOOLEAN]
Page == [status : {"loading", "error", "loaded"},
         list : [Bookings -> Row \cup {None}],
         acknowledging : Bookings \cup {None}, submitting : SUBSET Bookings]

Opening == [op : {"open"}, dispute : Bookings]
Opened == [op : {"opened"}, dispute : Bookings, done : BOOLEAN]
Reviewing == [op : {"transition", "write"}, via : {"button", "dialog", "api"},
              by : Admins, dispute : Bookings, to : Statuses \cup {None},
              notes : {"none", "blank", "text"}, action : Actions,
              expected : Statuses \cup {None}]
Answered == [op : {"answer"}, via : {"button", "dialog", "api"}, by : Admins,
             dispute : Bookings, row : Row \cup {None}]
Call == {Idle} \cup Opening \cup Opened \cup Reviewing \cup Answered

\* A row that was read or returned some time ago: the dispute is still there,
\* and if it was closed, it is closed in the same way.
Past(b, row) ==
    row # None => /\ dispute[b] # None
                  /\ row.status \in TERMINAL_STATUSES => dispute[b].status = row.status

\* What a transition that was checked may still count on when it writes.
Checked(r) ==
    /\ r.expected \in Statuses
    /\ r.to # None => r.to \in ALLOWED_TRANSITIONS(r.expected)
    /\ r.to \in TERMINAL_STATUSES =>
          \/ r.notes = "text"
          \/ r.notes = "none" /\ (dispute[r.dispute].notes \/ r.dispute \in undercut)
    /\ r.to = None /\ r.expected \in TERMINAL_STATUSES => r.notes # "blank"

CallOK(c) ==
    /\ call[c].op \in {"transition", "write"} => dispute[call[c].dispute] # None
    /\ call[c].op = "write" => Checked(call[c])
    /\ call[c].op = "answer" => Past(call[c].dispute, call[c].row)

PagesArePast == \A a \in Admins, b \in Bookings : Past(b, page[a].list[b])

IInv ==
    /\ TypeOK
    /\ mine \in Mine /\ page \in [Admins -> Page] /\ call \in [Calls -> Call]
    /\ asked \in [Bookings -> Actions] /\ removed \subseteq Resources
    /\ EventsTellTheStory
    /\ ClosedWithNotes
    /\ PagesArePast
    /\ \A c \in Calls : CallOK(c)
    /\ MarksAreKept

-----------------------------------------------------------------------------
(* Steps that leave the disputes and their resources alone *)

LEMMA QuietStep ==
    ASSUME IInv,
           UNCHANGED <<dispute, event, resource, history>>,
           completed' \subseteq Bookings, approved' \subseteq Admins \cup {User},
           mine' \in Mine, page' \in [Admins -> Page], call' \in [Calls -> Call],
           PagesArePast', \A c \in Calls : CallOK(c)'
    PROVE  IInv'
<1>1. UNCHANGED <<asked, undercut, overtaken, removed>>
  BY DEF history
<1>2. mine'.list \subseteq Bookings
  BY DEF Mine
<1>3. \A a \in Admins : page'[a].list \in [Bookings -> Row \cup {None}]
  BY DEF Page
<1>4. TypeOK'
  BY <1>2, <1>3 DEF IInv, TypeOK
<1>5. EventsTellTheStory' /\ ClosedWithNotes' /\ MarksAreKept'
  BY <1>1 DEF IInv, EventsTellTheStory, ClosedWithNotes, MarksAreKept
<1> QED
  BY <1>1, <1>4, <1>5 DEF IInv

\* The calls that a step leaves alone stay in order.
LEMMA OtherCalls ==
    ASSUME IInv, UNCHANGED <<dispute, undercut>>,
           NEW c \in Calls, call'[c] = call[c]
    PROVE  CallOK(c)'
  BY DEF IInv, CallOK, Checked, Past

\* A step of one call c, and of the pages.
LEMMA QuietCall ==
    ASSUME IInv, NEW c \in Calls, NEW q \in Call,
           call' = [call EXCEPT ![c] = q],
           UNCHANGED <<completed, dispute, event, resource, approved, history>>,
           mine' \in Mine, page' \in [Admins -> Page], PagesArePast',
           CallOK(c)'
    PROVE  IInv'
<1>1. call' \in [Calls -> Call] /\ \A d \in Calls \ {c} : call'[d] = call[d]
  BY DEF IInv
<1>2. UNCHANGED undercut
  BY DEF history
<1>3. \A d \in Calls : CallOK(d)'
  BY <1>1, <1>2, OtherCalls
<1>4. completed' \subseteq Bookings /\ approved' \subseteq Admins \cup {User}
  BY DEF IInv, TypeOK
<1> QED
  BY <1>1, <1>3, <1>4, QuietStep

LEMMA SamePages ==
    ASSUME IInv, UNCHANGED <<dispute, page>>
    PROVE  page' \in [Admins -> Page] /\ PagesArePast'
  BY DEF IInv, PagesArePast, Past

LEMMA CallTypes ==
    ASSUME IInv, NEW c \in Calls
    PROVE  /\ call[c] \in Call
           /\ call[c].op = "open" => call[c] \in Opening
           /\ call[c].op = "opened" => call[c] \in Opened
           /\ call[c].op \in {"transition", "write"} => call[c] \in Reviewing
           /\ call[c].op = "answer" => call[c] \in Answered
  BY DEF IInv, Call, Idle, Opening, Opened, Reviewing, Answered

LEMMA UserPageActions ==
    ASSUME IInv,
           \/ \E arrives \in BOOLEAN : loadMyDisputes(arrives)
           \/ retryMyDisputes \/ changeOpen
    PROVE  IInv'
<1>1. UNCHANGED <<completed, dispute, event, resource, approved, page, call, history>>
  BY DEF loadMyDisputes, retryMyDisputes, changeOpen
<1>2. mine \in Mine /\ completed \in SUBSET Bookings
  BY DEF IInv, TypeOK
<1>3. mine' \in Mine
  <2>1. CASE retryMyDisputes
    BY <1>2, <2>1 DEF retryMyDisputes, Mine
  <2>2. CASE changeOpen
    BY <1>2, <2>2 DEF changeOpen, Mine
  <2>3. ASSUME NEW arrives \in BOOLEAN, loadMyDisputes(arrives) PROVE mine' \in Mine
    <3> DEFINE L == {b \in Bookings : dispute[b] # None}
    <3>1. L \in SUBSET Bookings
      OBVIOUS
    <3>2. \/ mine' = [mine EXCEPT !.status = "loaded", !.list = L]
          \/ mine' = [mine EXCEPT !.status = "error"]
      BY <2>3 DEF loadMyDisputes
    <3> HIDE DEF L
    <3> QED
      BY <1>2, <3>1, <3>2 DEF Mine
  <2> QED
    BY <2>1, <2>2, <2>3
<1>4. \A c \in Calls : CallOK(c)'
  BY <1>1, OtherCalls DEF history
<1>5. page' \in [Admins -> Page] /\ PagesArePast'
  BY <1>1, SamePages
<1>6. /\ completed' \subseteq Bookings /\ approved' \subseteq Admins \cup {User}
      /\ call' \in [Calls -> Call]
  BY <1>1 DEF IInv, TypeOK
<1> QED
  BY <1>1, <1>3, <1>4, <1>5, <1>6, QuietStep

LEMMA OtherActions ==
    ASSUME IInv,
           \/ \E b \in Bookings : completeBooking(b)
           \/ \E a \in Admins \cup {User} : membershipChanges(a)
           \/ UNCHANGED vars
    PROVE  IInv'
<1>1. UNCHANGED <<dispute, event, resource, mine, page, call, history>>
  BY DEF completeBooking, membershipChanges, vars, history
<1>2. completed' \subseteq Bookings /\ approved' \subseteq Admins \cup {User}
  BY DEF completeBooking, membershipChanges, vars, IInv, TypeOK
<1>3. \A c \in Calls : CallOK(c)'
  BY <1>1, OtherCalls DEF history
<1>4. page' \in [Admins -> Page] /\ PagesArePast'
  BY <1>1, SamePages
<1>5. mine' \in Mine /\ call' \in [Calls -> Call]
  BY <1>1 DEF IInv
<1> QED
  BY <1>1, <1>2, <1>3, <1>4, <1>5, QuietStep

LEMMA OpenRequests ==
    ASSUME IInv, NEW c \in Calls,
           \/ \E b \in Bookings : submitDispute(c, b)
           \/ \E arrives \in BOOLEAN : answerOpen(c, arrives)
    PROVE  IInv'
<1>1. UNCHANGED <<completed, dispute, event, resource, approved, page, history>>
  BY DEF submitDispute, answerOpen
<1>2. mine \in Mine
  BY DEF IInv
<1>3. page' \in [Admins -> Page] /\ PagesArePast'
  BY <1>1, SamePages
<1>4. ASSUME NEW b \in Bookings, submitDispute(c, b) PROVE IInv'
  <2> DEFINE q == [op |-> "open", dispute |-> b]
  <2>1. q \in Call /\ q.op = "open"
    BY DEF Call, Opening
  <2>2. call' = [call EXCEPT ![c] = q] /\ mine' \in Mine
    BY <1>2, <1>4 DEF submitDispute, Begin, Mine
  <2> HIDE DEF q
  <2>3. CallOK(c)'
    BY <2>1, <2>2 DEF IInv, CallOK
  <2> QED
    BY <1>1, <1>3, <2>1, <2>2, <2>3, QuietCall
<1>5. ASSUME NEW arrives \in BOOLEAN, answerOpen(c, arrives) PROVE IInv'
  <2>1. Idle \in Call /\ Idle.op = "idle"
    BY DEF Call, Idle
  <2>2. call' = [call EXCEPT ![c] = Idle]
    BY <1>5 DEF answerOpen, Become
  <2>3. call[c].dispute \in Bookings
    BY <1>5, CallTypes DEF answerOpen, Opened
  <2>4. mine' \in Mine
    <3> DEFINE L == mine.list \cup {call[c].dispute}
    <3>1. L \in SUBSET Bookings
      BY <1>2, <2>3 DEF Mine
    <3>2. \/ mine' = [mine EXCEPT !.submitting = FALSE, !.dialog = None, !.list = L]
          \/ mine' = [mine EXCEPT !.submitting = FALSE]
      BY <1>5 DEF answerOpen, handleOpened
    <3> HIDE DEF L
    <3> QED
      BY <1>2, <3>1, <3>2 DEF Mine
  <2>5. CallOK(c)'
    BY <2>1, <2>2 DEF IInv, CallOK
  <2> QED
    BY <1>1, <1>3, <2>1, <2>2, <2>4, <2>5, QuietCall
<1> QED
  BY <1>4, <1>5

\* A review of a dispute that is there may be asked for.
LEMMA ReviewRequest ==
    ASSUME IInv, NEW c \in Calls, NEW a \in Admins, NEW b \in Bookings,
           NEW via \in {"button", "dialog", "api"},
           NEW review \in [to : Statuses \cup {None}, notes : {"none", "blank", "text"},
                           action : Actions],
           Begin(c, Request(via, a, b, review)), dispute[b] # None,
           UNCHANGED <<completed, dispute, event, resource, approved, mine, history>>,
           page' \in [Admins -> Page], PagesArePast'
    PROVE  IInv'
<1> DEFINE q == Request(via, a, b, review)
<1>1. q \in Call /\ q.op = "transition" /\ q.dispute = b
  BY DEF Request, Call, Reviewing
<1>2. call' = [call EXCEPT ![c] = q]
  BY DEF Begin
<1>3. mine' \in Mine
  BY DEF IInv
<1> HIDE DEF q
<1>4. CallOK(c)'
  BY <1>1, <1>2 DEF IInv, CallOK
<1> QED
  BY <1>1, <1>2, <1>3, <1>4, QuietCall

LEMMA ReviewRequests ==
    ASSUME IInv, NEW c \in Calls, NEW a \in Admins, NEW b \in Bookings,
           \/ acknowledge(c, a, b)
           \/ \E review \in Reviews :
                 submitReview(c, a, b, review) \/ updateDispute(c, a, b, review)
    PROVE  IInv'
<1>1. page \in [Admins -> Page] /\ PagesArePast
  BY DEF IInv
<1>2. CASE acknowledge(c, a, b)
  <2> DEFINE review == [to |-> "UNDER_REVIEW", notes |-> "none", action |-> "NONE"]
  <2>1. review \in [to : Statuses \cup {None}, notes : {"none", "blank", "text"},
                    action : Actions]
    BY DEF Statuses, Actions
  <2>2. dispute[b] # None
    BY <1>1, <1>2 DEF acknowledge, PagesArePast, Past, Shown
  <2>3. /\ page' = [page EXCEPT ![a].acknowledging = b]
        /\ UNCHANGED <<completed, dispute, event, resource, approved, mine, history>>
        /\ Begin(c, Request("button", a, b, review))
    BY <1>2 DEF acknowledge
  <2> HIDE DEF review
  <2>4. page' \in [Admins -> Page] /\ \A e \in Admins : page'[e].list = page[e].list
    <3>1. [page[a] EXCEPT !.acknowledging = b] \in Page
      BY <1>1 DEF Page
    <3>2. [page[a] EXCEPT !.acknowledging = b].list = page[a].list
      BY <1>1 DEF Page
    <3>3. page' = [page EXCEPT ![a] = [page[a] EXCEPT !.acknowledging = b]]
      BY <2>3
    <3> QED
      BY <1>1, <3>1, <3>2, <3>3
  <2>5. PagesArePast'
    BY <1>1, <2>3, <2>4 DEF PagesArePast, Past
  <2> QED
    BY <2>1, <2>2, <2>3, <2>4, <2>5, ReviewRequest
<1>3. ASSUME NEW review \in Reviews, submitReview(c, a, b, review) PROVE IInv'
  <2>2. dispute[b] # None
    BY <1>1, <1>3 DEF submitReview, PagesArePast, Past, Shown
  <2>3. /\ page' = [page EXCEPT ![a].submitting = @ \cup {b}]
        /\ UNCHANGED <<completed, dispute, event, resource, approved, mine, history>>
        /\ Begin(c, Request("dialog", a, b, review))
    BY <1>3 DEF submitReview
  <2>4. page' \in [Admins -> Page] /\ \A e \in Admins : page'[e].list = page[e].list
    <3> DEFINE S == page[a].submitting \cup {b}
    <3>1. S \in SUBSET Bookings
      BY <1>1 DEF Page
    <3>2. page' = [page EXCEPT ![a].submitting = S]
      BY <2>3
    <3> HIDE DEF S
    <3> QED
      BY <1>1, <3>1, <3>2 DEF Page
  <2>5. PagesArePast'
    BY <1>1, <2>3, <2>4 DEF PagesArePast, Past
  <2> QED
    BY <2>2, <2>3, <2>4, <2>5, ReviewRequest
<1>4. ASSUME NEW review \in Reviews, updateDispute(c, a, b, review) PROVE IInv'
  <2>1. /\ dispute[b] # None
        /\ UNCHANGED <<completed, dispute, event, resource, approved, mine, page, history>>
        /\ Begin(c, Request("api", a, b, review))
    BY <1>4 DEF updateDispute
  <2>2. page' \in [Admins -> Page] /\ PagesArePast'
    BY <2>1, SamePages
  <2> QED
    BY <2>1, <2>2, ReviewRequest
<1> QED
  BY <1>2, <1>3, <1>4

\* The checks of transition: what they establish about a row that is there.
LEMMA TransitionReadIInv ==
    ASSUME IInv, NEW c \in Calls, transitionRead(c)
    PROVE  IInv'
<1> DEFINE r == call[c]
           row == dispute[r.dispute]
           valid == /\ assertCanManage(r.by)
                    /\ r.to # None => r.to \in ALLOWED_TRANSITIONS(row.status)
                    /\ NotesGiven(r, row)
<1>1. UNCHANGED <<completed, dispute, event, resource, approved, mine, page, history>>
  BY DEF transitionRead
<1>2. r \in Reviewing
  BY CallTypes DEF transitionRead
<1>3. row # None /\ row \in Row /\ r.dispute \in Bookings
  BY <1>2 DEF transitionRead, IInv, CallOK, TypeOK, Reviewing
<1>4. mine' \in Mine /\ page' \in [Admins -> Page] /\ PagesArePast'
  BY <1>1, SamePages DEF IInv
<1>5. CASE valid
  <2> DEFINE q == [r EXCEPT !.op = "write", !.expected = row.status]
  <2>1. call' = [call EXCEPT ![c] = q]
    BY <1>5 DEF transitionRead, Become
  <2>2. q \in Reviewing /\ q \in Call
    BY <1>2, <1>3 DEF Reviewing, Row, Call
  <2>3. /\ q.op = "write" /\ q.expected = row.status /\ q.dispute = r.dispute
        /\ q.to = r.to /\ q.notes = r.notes
    BY <1>2 DEF Reviewing
  <2>4. call'[c] = q
    BY <2>1 DEF IInv
  <2> HIDE DEF q
  <2>5. Checked(q)
    <3>1. row.status \in Statuses
      BY <1>3 DEF Row
    <3>2. r.notes \in {"none", "blank", "text"}
      BY <1>2 DEF Reviewing
    <3>3. NextStatus(r, row) \in TERMINAL_STATUSES =>
             r.notes = "text" \/ (r.notes = "none" /\ row.notes)
      BY <1>5 DEF NotesGiven
    <3>4. r.to \in TERMINAL_STATUSES => NextStatus(r, row) \in TERMINAL_STATUSES
      BY DEF NextStatus, TERMINAL_STATUSES, Statuses
    <3>5. r.to = None => NextStatus(r, row) = row.status
      BY DEF NextStatus
    <3> QED
      BY <1>5, <2>3, <3>1, <3>2, <3>3, <3>4, <3>5 DEF Checked
  <2>6. CallOK(c)'
    BY <1>1, <1>3, <2>3, <2>4, <2>5 DEF CallOK, Checked, history
  <2> QED
    BY <1>1, <1>4, <2>1, <2>2, <2>6, QuietCall
<1>6. CASE ~valid
  <2> DEFINE q == Answer(r, None)
  <2>1. call' = [call EXCEPT ![c] = q]
    BY <1>6 DEF transitionRead, Become
  <2>2. q \in Call /\ q.op = "answer" /\ q.row = None
    BY <1>2 DEF Reviewing, Answered, Answer, Call
  <2> HIDE DEF q
  <2>3. CallOK(c)'
    BY <2>1, <2>2 DEF IInv, CallOK, Past
  <2> QED
    BY <1>1, <1>4, <2>1, <2>2, <2>3, QuietCall
<1> QED
  BY <1>5, <1>6

\* A page shows another list, or another row of it.
LEMMA PageStep ==
    ASSUME IInv, UNCHANGED dispute, NEW a \in Admins, NEW p \in Page,
           page' = [page EXCEPT ![a] = p],
           \A b \in Bookings : Past(b, p.list[b])
    PROVE  page' \in [Admins -> Page] /\ PagesArePast'
<1>1. page \in [Admins -> Page] /\ PagesArePast
  BY DEF IInv
<1>2. page' \in [Admins -> Page]
  BY <1>1
<1>3. ASSUME NEW e \in Admins, NEW b \in Bookings PROVE Past(b, page[e].list[b])'
  <2>1. CASE e = a
    <3>1. page'[e] = p
      BY <1>1, <2>1
    <3> QED
      BY <3>1 DEF Past
  <2>2. CASE e # a
    <3>1. page'[e] = page[e]
      BY <1>1, <2>2
    <3> QED
      BY <1>1, <3>1 DEF Past, PagesArePast
  <2> QED
    BY <2>1, <2>2
<1> QED
  BY <1>2, <1>3 DEF PagesArePast

LEMMA LoadDisputesIInv ==
    ASSUME IInv, NEW a \in Admins, NEW arrives \in BOOLEAN,
           loadOrganizationDisputes(a, arrives)
    PROVE  IInv'
<1>1. UNCHANGED <<completed, dispute, event, resource, approved, mine, call, history>>
  BY DEF loadOrganizationDisputes
<1>2. page[a] \in Page /\ page \in [Admins -> Page]
      /\ dispute \in [Bookings -> Row \cup {None}]
  BY DEF IInv, TypeOK
<1>3. PICK p \in Page : /\ page' = [page EXCEPT ![a] = p]
                        /\ p.list \in {dispute, page[a].list}
  <2>1. CASE arrives /\ a \in approved
    <3> DEFINE p == [page[a] EXCEPT !.status = "loaded", !.list = dispute]
    <3>1. p \in Page /\ p.list = dispute
      BY <1>2 DEF Page
    <3>2. page' = [page EXCEPT ![a] = p]
      BY <2>1 DEF loadOrganizationDisputes
    <3> QED
      BY <3>1, <3>2
  <2>2. CASE ~(arrives /\ a \in approved)
    <3> DEFINE p == [page[a] EXCEPT !.status = "error"]
    <3>1. p \in Page /\ p.list = page[a].list
      BY <1>2 DEF Page
    <3>2. page' = [page EXCEPT ![a] = p]
      BY <2>2 DEF loadOrganizationDisputes
    <3> QED
      BY <3>1, <3>2
  <2> QED
    BY <2>1, <2>2
<1>4. \A b \in Bookings : Past(b, p.list[b])
  <2>1. \A b \in Bookings : Past(b, dispute[b])
    BY DEF Past
  <2>2. \A b \in Bookings : Past(b, page[a].list[b])
    BY DEF IInv, PagesArePast
  <2> QED
    BY <1>3, <2>1, <2>2
<1>5. page' \in [Admins -> Page] /\ PagesArePast'
  BY <1>1, <1>3, <1>4, PageStep
<1>6. \A c \in Calls : CallOK(c)'
  BY <1>1, OtherCalls DEF history
<1>7. /\ completed' \subseteq Bookings /\ approved' \subseteq Admins \cup {User}
      /\ mine' \in Mine /\ call' \in [Calls -> Call]
  BY <1>1 DEF IInv, TypeOK
<1> QED
  BY <1>1, <1>5, <1>6, <1>7, QuietStep

LEMMA ReopenPageIInv ==
    ASSUME IInv, NEW a \in Admins, reopenOrganizationDisputes(a)
    PROVE  IInv'
<1>1. UNCHANGED <<completed, dispute, event, resource, approved, mine, history>>
  BY DEF reopenOrganizationDisputes
<1>2. page' \in [Admins -> Page] /\ PagesArePast'
  <2>1. NewPage \in Page /\ \A b \in Bookings : NewPage.list[b] = None
    BY DEF NewPage, Page
  <2>2. \A b \in Bookings : Past(b, NewPage.list[b])
    BY <2>1 DEF Past
  <2>3. page' = [page EXCEPT ![a] = NewPage]
    BY DEF reopenOrganizationDisputes
  <2> QED
    BY <1>1, <2>1, <2>2, <2>3, PageStep
<1>3. ASSUME NEW c \in Calls PROVE call'[c] \in Call /\ CallOK(c)'
  <2>1. call[c] \in Call /\ call'[c] = IF OfPage(c, a) THEN [call[c] EXCEPT !.via = "api"]
                                       ELSE call[c]
    BY DEF reopenOrganizationDisputes, IInv
  <2>2. CASE OfPage(c, a) /\ call[c].op = "answer"
    <3>1. call[c] \in Answered
      BY <2>2, CallTypes
    <3>2. /\ call'[c] \in Answered /\ call'[c].op = "answer"
          /\ call'[c].dispute = call[c].dispute /\ call'[c].row = call[c].row
      BY <2>1, <2>2, <3>1 DEF Answered
    <3> QED
      BY <1>1, <2>2, <3>2 DEF IInv, CallOK, Past, Call
  <2>3. CASE OfPage(c, a) /\ call[c].op # "answer"
    <3>1. call[c] \in Reviewing
      BY <2>3, CallTypes DEF OfPage
    <3>2. /\ call'[c] \in Reviewing /\ call'[c].op = call[c].op
          /\ call'[c].dispute = call[c].dispute /\ call'[c].to = call[c].to
          /\ call'[c].expected = call[c].expected /\ call'[c].notes = call[c].notes
      BY <2>1, <2>3, <3>1 DEF Reviewing
    <3> QED
      BY <1>1, <2>3, <3>2 DEF IInv, CallOK, Checked, Call, history
  <2>4. CASE ~OfPage(c, a)
    BY <1>1, <2>1, <2>4, OtherCalls DEF history
  <2> QED
    BY <2>2, <2>3, <2>4
<1>4. call' \in [Calls -> Call]
  <2>1. DOMAIN call' = Calls /\ call' = [c \in Calls |-> call'[c]]
    BY DEF reopenOrganizationDisputes
  <2> QED
    BY <1>3, <2>1
<1>5. /\ completed' \subseteq Bookings /\ approved' \subseteq Admins \cup {User}
      /\ mine' \in Mine
  BY <1>1 DEF IInv, TypeOK
<1> QED
  BY <1>1, <1>2, <1>3, <1>4, <1>5, QuietStep

\* Answers come late and in any order, and are past all the same.
LEMMA AnswerIInv ==
    ASSUME IInv, NEW c \in Calls, NEW arrives \in BOOLEAN, answerTransition(c, arrives)
    PROVE  IInv'
<1> DEFINE r == call[c]
           row == IF arrives THEN r.row ELSE None
           a == r.by
           b == r.dispute
           L == handleUpdated(a, b, row)
           A == IF r.via = "button" THEN None ELSE page[a].acknowledging
           S == IF r.via = "dialog" THEN page[a].submitting \ {b} ELSE page[a].submitting
           p == [page[a] EXCEPT !.list = L, !.acknowledging = A, !.submitting = S]
<1>1. UNCHANGED <<completed, dispute, event, resource, approved, mine, history>>
  BY DEF answerTransition
<1>2. r \in Answered
  BY CallTypes DEF answerTransition
<1>3. a \in Admins /\ b \in Bookings /\ row \in Row \cup {None}
  BY <1>2 DEF Answered
<1>4. page[a] \in Page /\ page \in [Admins -> Page]
  BY <1>3 DEF IInv
<1>5. /\ page[a].list \in [Bookings -> Row \cup {None}]
      /\ page[a].acknowledging \in Bookings \cup {None}
      /\ page[a].submitting \in SUBSET Bookings
  BY <1>4 DEF Page
<1>6. Past(b, row)
  BY DEF IInv, CallOK, answerTransition, Past
<1>7. L \in [Bookings -> Row \cup {None}] /\ \A e \in Bookings : Past(e, L[e])
  <2>1. \A e \in Bookings : Past(e, page[a].list[e])
    BY <1>3 DEF IInv, PagesArePast
  <2>2. Past(b, None)
    BY DEF Past
  <2> HIDE DEF row
  <2> QED
    BY <1>3, <1>5, <1>6, <2>1, <2>2 DEF handleUpdated
<1>8. A \in Bookings \cup {None} /\ S \in SUBSET Bookings
  BY <1>5
<1>9. page' \in [Admins -> Page] /\ PagesArePast'
  <2>1. CASE r.via = "api"
    BY <1>1, <2>1, SamePages DEF answerTransition
  <2>2. CASE r.via # "api"
    <3>1. page' = [page EXCEPT ![a] = p]
      BY <2>2, Zenon DEF answerTransition
    <3> HIDE DEF L, A, S, a, b
    <3>2. p \in Page /\ p.list = L
      BY <1>4, <1>7, <1>8 DEF Page
    <3> HIDE DEF p
    <3>3. \A e \in Bookings : Past(e, p.list[e])
      BY <1>7, <3>2
    <3>4. PICK a0 \in Admins : a0 = a
      BY <1>3
    <3>5. PICK p0 \in Page : p0 = p
      BY <3>2
    <3> QED
      BY <1>1, <3>1, <3>3, <3>4, <3>5, PageStep
  <2> QED
    BY <2>1, <2>2
<1>10. Idle \in Call /\ Idle.op = "idle"
  BY DEF Call, Idle
<1>11. call' = [call EXCEPT ![c] = Idle]
  BY DEF answerTransition, Become
<1>12. CallOK(c)'
  BY <1>10, <1>11 DEF IInv, CallOK
<1>13. mine' \in Mine
  BY <1>1 DEF IInv
<1> QED
  BY <1>1, <1>9, <1>10, <1>11, <1>12, <1>13, QuietCall

-----------------------------------------------------------------------------
(* Steps that write a dispute *)

\* A closed dispute keeps its status, so what was past is past.
LEMMA PastStays ==
    ASSUME NEW b \in Bookings, NEW n, n # None,
           dispute \in [Bookings -> Row \cup {None}],
           dispute' = [dispute EXCEPT ![b] = n],
           dispute[b] # None /\ dispute[b].status \in TERMINAL_STATUSES =>
              n.status = dispute[b].status,
           NEW e \in Bookings, NEW row, Past(e, row)
    PROVE  Past(e, row)'
  BY DEF Past

LEMMA PagesStayPast ==
    ASSUME IInv, NEW b \in Bookings, NEW n, n # None,
           dispute' = [dispute EXCEPT ![b] = n],
           dispute[b] # None /\ dispute[b].status \in TERMINAL_STATUSES =>
              n.status = dispute[b].status,
           UNCHANGED page
    PROVE  PagesArePast'
<1>1. dispute \in [Bookings -> Row \cup {None}]
  BY DEF IInv, TypeOK
<1>2. ASSUME NEW a \in Admins, NEW e \in Bookings PROVE Past(e, page[a].list[e])'
  <2>1. PICK row : row = page[a].list[e]
    OBVIOUS
  <2>2. Past(e, row)
    BY <2>1 DEF IInv, PagesArePast
  <2>3. Past(e, row)'
    BY <1>1, <2>2, PastStays
  <2> QED
    BY <2>1, <2>3 DEF Past
<1> QED
  BY <1>2 DEF PagesArePast

\* The other calls: a closing that counts on the notes of the row still may, or
\* they were blanked under it.
LEMMA CallsStay ==
    ASSUME IInv, NEW b \in Bookings, NEW n \in Row,
           dispute' = [dispute EXCEPT ![b] = n],
           dispute[b] # None /\ dispute[b].status \in TERMINAL_STATUSES =>
              n.status = dispute[b].status,
           undercut \subseteq undercut',
           NEW c \in Calls, call'[c] = call[c],
           \/ dispute[b] = None
           \/ ReliesOnNotes(c, b) => (dispute[b].notes => n.notes) \/ b \in undercut'
    PROVE  CallOK(c)'
<1>1. dispute \in [Bookings -> Row \cup {None}] /\ n # None
  BY DEF IInv, TypeOK
<1>2. CallOK(c)
  BY DEF IInv
<1>3. call[c].op \in {"transition", "write"} =>
         call[c].dispute \in Bookings /\ dispute'[call[c].dispute] # None
  <2> SUFFICES ASSUME call[c].op \in {"transition", "write"}
               PROVE  call[c].dispute \in Bookings /\ dispute'[call[c].dispute] # None
    OBVIOUS
  <2>1. call[c].dispute \in Bookings
    BY CallTypes DEF Reviewing
  <2> QED
    BY <1>1, <1>2, <2>1 DEF CallOK
<1>4. call[c].op = "write" => Checked(call[c])'
  <2> SUFFICES ASSUME call[c].op = "write" PROVE Checked(call[c])'
    OBVIOUS
  <2>1. Checked(call[c]) /\ dispute[call[c].dispute] # None /\ call[c].dispute \in Bookings
    BY <1>2, <1>3 DEF CallOK
  <2>2. call[c].to \in TERMINAL_STATUSES /\ call[c].notes = "none"
          => dispute'[call[c].dispute].notes \/ call[c].dispute \in undercut'
    BY <1>1, <2>1 DEF Checked, ReliesOnNotes
  <2> QED
    BY <2>1, <2>2 DEF Checked
<1>5. call[c].op = "answer" => Past(call[c].dispute, call[c].row)'
  <2> SUFFICES ASSUME call[c].op = "answer" PROVE Past(call[c].dispute, call[c].row)'
    OBVIOUS
  <2>1. PICK e \in Bookings, row \in Row \cup {None} : e = call[c].dispute /\ row = call[c].row
    BY CallTypes DEF Answered
  <2>2. Past(e, row)
    BY <1>2, <2>1 DEF CallOK
  <2>3. Past(e, row)'
    BY <1>1, <2>2, PastStays
  <2> QED
    BY <2>1, <2>3 DEF Past
<1> QED
  BY <1>3, <1>4, <1>5 DEF CallOK

LEMMA OneEvent ==
    ASSUME NEW s, s = <<"OPEN">>
    PROVE  Len(s) = 1 /\ s[1] = "OPEN" /\ s # <<>>
  OBVIOUS

LEMMA OpenIInv ==
    ASSUME IInv, NEW c \in Calls, open(c)
    PROVE  IInv'
<1>1. PICK b \in Bookings : b = call[c].dispute
  BY CallTypes DEF open, Opening
<1> DEFINE q == [op |-> "opened", dispute |-> b, done |-> MayOpen(b)]
<1>2. q \in Call /\ q.op = "opened"
  BY DEF Call, Opened, MayOpen
<1>3. /\ call' = [call EXCEPT ![c] = q]
      /\ UNCHANGED <<completed, resource, approved, mine, page, history>>
  BY <1>1 DEF open, Become
<1> HIDE DEF q
<1>4. /\ call' \in [Calls -> Call] /\ \A d \in Calls \ {c} : call'[d] = call[d]
      /\ CallOK(c)'
  BY <1>2, <1>3 DEF IInv, CallOK
<1>5. mine' \in Mine /\ page' \in [Admins -> Page]
  BY <1>3 DEF IInv
<1>6. CASE ~MayOpen(b)
  <2>1. UNCHANGED <<dispute, event>>
    BY <1>1, <1>6 DEF open
  <2>2. PagesArePast'
    BY <1>3, <2>1, SamePages
  <2> QED
    BY <1>2, <1>3, <1>4, <1>5, <2>1, <2>2, QuietCall
<1>7. CASE MayOpen(b)
  <2>1. /\ dispute' = [dispute EXCEPT ![b] = NewRow]
        /\ event' = [event EXCEPT ![b] = Append(@, "OPEN")]
        /\ dispute[b] = None
    BY <1>1, <1>7 DEF open, MayOpen
  <2>2. NewRow \in Row /\ NewRow # None /\ NewRow.status = "OPEN"
    <3>1. NewRow \in Row /\ NewRow.status = "OPEN"
      BY DEF NewRow, Row, Statuses
    <3> QED
      BY <3>1
  <2>3. /\ dispute \in [Bookings -> Row \cup {None}]
        /\ event \in [Bookings -> Seq(Statuses)]
    BY DEF IInv, TypeOK
  <2>4. event[b] = <<>>
    BY <2>1 DEF IInv, EventsTellTheStory
  <2>5. /\ event' \in [Bookings -> Seq(Statuses)]
        /\ event'[b] = <<"OPEN">> /\ \A e \in Bookings \ {b} : event'[e] = event[e]
    <3>1. Append(event[b], "OPEN") = <<"OPEN">>
      BY <2>4
    <3>2. <<"OPEN">> \in Seq(Statuses)
      BY DEF Statuses
    <3> QED
      BY <2>1, <2>3, <3>1, <3>2
  <2>6. /\ dispute' \in [Bookings -> Row \cup {None}]
        /\ dispute'[b] = NewRow /\ \A e \in Bookings \ {b} : dispute'[e] = dispute[e]
    BY <2>1, <2>2, <2>3
  <2>7. TypeOK'
    BY <1>3, <2>5, <2>6 DEF IInv, TypeOK
  <2>8. EventsTellTheStory'
    <3> SUFFICES ASSUME NEW e \in Bookings
                 PROVE  /\ (event'[e] = <<>>) = (dispute'[e] = None)
                        /\ event'[e] # <<>> => /\ event'[e][1] = "OPEN"
                                               /\ event'[e][Len(event'[e])] = dispute'[e].status
                        /\ \A i \in 1..(Len(event'[e]) - 1) :
                              event'[e][i + 1] \in ALLOWED_TRANSITIONS(event'[e][i])
      BY DEF EventsTellTheStory
    <3>1. CASE e = b
      <4>1. Len(event'[e]) = 1 /\ event'[e][1] = "OPEN" /\ event'[e] # <<>>
        BY <2>5, <3>1, OneEvent
      <4>2. dispute'[e] # None /\ dispute'[e].status = "OPEN"
        BY <2>2, <2>6, <3>1
      <4> QED
        BY <4>1, <4>2
    <3>2. CASE e # b
      <4>1. event'[e] = event[e] /\ dispute'[e] = dispute[e]
        BY <2>5, <2>6, <3>2
      <4> QED
        BY <4>1 DEF IInv, EventsTellTheStory
    <3> QED
      BY <3>1, <3>2
  <2>9. ClosedWithNotes'
    BY <1>3, <2>2, <2>6 DEF IInv, ClosedWithNotes, TERMINAL_STATUSES, history
  <2>10. PagesArePast'
    BY <1>3, <2>1, <2>2, PagesStayPast
  <2>11. \A d \in Calls \ {c} : CallOK(d)'
    BY <1>3, <1>4, <2>1, <2>2, CallsStay DEF history
  <2>12. MarksAreKept'
    BY <1>3 DEF IInv, MarksAreKept, history
  <2> QED
    BY <1>3, <1>4, <1>5, <2>7, <2>8, <2>9, <2>10, <2>11, <2>12 DEF IInv, history
<1> QED
  BY <1>6, <1>7

\* One more event: the history goes on where it ended.
LEMMA OneMoreEvent ==
    ASSUME NEW e \in Seq(Statuses), e # <<>>, e[1] = "OPEN", NEW to \in Statuses,
           to \in ALLOWED_TRANSITIONS(e[Len(e)]),
           \A i \in 1..(Len(e) - 1) : e[i + 1] \in ALLOWED_TRANSITIONS(e[i]),
           NEW f, f = Append(e, to)
    PROVE  /\ f \in Seq(Statuses) /\ f # <<>> /\ f[1] = "OPEN" /\ f[Len(f)] = to
           /\ \A i \in 1..(Len(f) - 1) : f[i + 1] \in ALLOWED_TRANSITIONS(f[i])
<1>1. Len(e) \in Nat /\ Len(e) > 0
  OBVIOUS
<1>2. /\ f \in Seq(Statuses) /\ Len(f) = Len(e) + 1 /\ f[Len(e) + 1] = to
      /\ \A i \in 1..Len(e) : f[i] = e[i]
  OBVIOUS
<1>3. f # <<>> /\ f[1] = "OPEN" /\ f[Len(f)] = to
  BY <1>1, <1>2
<1>4. ASSUME NEW i \in 1..(Len(f) - 1) PROVE f[i + 1] \in ALLOWED_TRANSITIONS(f[i])
  <2>1. CASE i = Len(e)
    BY <1>1, <1>2, <2>1
  <2>2. CASE i # Len(e)
    <3>1. i \in 1..(Len(e) - 1) /\ i \in 1..Len(e) /\ i + 1 \in 1..Len(e)
      BY <1>1, <1>2, <2>2
    <3> QED
      BY <1>2, <3>1
  <2> QED
    BY <2>1, <2>2
<1> QED
  BY <1>2, <1>3, <1>4

\* What the UPDATE makes of the row that was checked.
LEMMA UpdatedRow ==
    ASSUME NEW r \in Reviewing, dispute[r.dispute] \in Row, Checked(r), StillExpected(r),
           dispute[r.dispute].status \in TERMINAL_STATUSES =>
              /\ dispute[r.dispute].resolved
              /\ dispute[r.dispute].notes \/ r.dispute \in undercut
    PROVE  /\ Updated(r) \in Row
           /\ r.to = None => Updated(r).status = dispute[r.dispute].status
           /\ r.to # None => Updated(r).status = r.to
           /\ r.notes # "blank" => (dispute[r.dispute].notes => Updated(r).notes)
           /\ dispute[r.dispute].status \in TERMINAL_STATUSES =>
                 Updated(r).status = dispute[r.dispute].status
           /\ Updated(r).status \in TERMINAL_STATUSES =>
                 /\ Updated(r).resolved
                 /\ Updated(r).notes \/ r.dispute \in undercut
<1> DEFINE old == dispute[r.dispute]
           s == NextStatus(r, [status |-> r.expected])
           n == IF r.notes = "none" THEN old.notes ELSE r.notes = "text"
           v == old.resolved \/ r.to \in TERMINAL_STATUSES
<1>1. /\ r.to \in Statuses \cup {None} /\ r.notes \in {"none", "blank", "text"}
      /\ old.status \in Statuses /\ old.notes \in BOOLEAN /\ old.resolved \in BOOLEAN
      /\ old.status = r.expected
  BY DEF Reviewing, Row, StillExpected
<1>2. s \in Statuses /\ (r.to = None => s = old.status) /\ (r.to # None => s = r.to)
  BY <1>1 DEF NextStatus
<1>3. n \in BOOLEAN /\ v \in BOOLEAN
  BY <1>1
<1>4. r.notes # "blank" => (old.notes => n)
  BY <1>1
<1>5. old.status \in TERMINAL_STATUSES => s = old.status
  BY <1>1, <1>2 DEF Checked, ALLOWED_TRANSITIONS, TERMINAL_STATUSES
<1>6. s \in TERMINAL_STATUSES => v
  BY <1>1, <1>2
<1>7. s \in TERMINAL_STATUSES => n \/ r.dispute \in undercut
  <2>1. CASE r.to = None
    BY <1>1, <1>2, <2>1 DEF Checked
  <2>2. CASE r.to # None
    BY <1>1, <1>2, <2>2 DEF Checked
  <2> QED
    BY <2>1, <2>2
<1>8. Updated(r) = [status |-> s, notes |-> n, resolved |-> v]
  BY DEF Updated
<1> HIDE DEF s, n, v
<1>9. /\ Updated(r) \in Row /\ Updated(r).status = s /\ Updated(r).notes = n
      /\ Updated(r).resolved = v
  BY <1>2, <1>3, <1>8 DEF Row
<1> QED
  BY <1>2, <1>3, <1>4, <1>5, <1>6, <1>7, <1>9

\* MARK_UNAVAILABLE takes a resource over and RESTORE gives up only what the
\* dispute holds.
LEMMA MarksStep ==
    ASSUME IInv, NEW r \in Reviewing, Restorable(r), Remember(r),
           resource' = [resource EXCEPT ![ResourceOf[r.dispute]] = applyResourceAction(r, @)]
    PROVE  /\ resource' \in [Resources -> [status : {"ACTIVE", "INACTIVE"},
                                           mark : Bookings \cup {None}]]
           /\ asked' \in [Bookings -> Actions]
           /\ MarksAreKept'
<1>1. PICK b \in Bookings, x \in Resources : b = r.dispute /\ x = ResourceOf[b]
  BY DEF Reviewing
<1>2. /\ resource \in [Resources -> [status : {"ACTIVE", "INACTIVE"},
                                     mark : Bookings \cup {None}]]
      /\ asked \in [Bookings -> Actions] /\ removed \subseteq Resources
      /\ MarksAreKept
  BY DEF IInv, TypeOK
<1>3. removed' = removed /\ r.action \in Actions
  BY DEF Remember, Reviewing
<1>4. CASE r.action = "NONE"
  <2>1. applyResourceAction(r, resource[x]) = resource[x]
    BY <1>4 DEF applyResourceAction
  <2>2. resource' = resource
    BY <1>1, <1>2, <2>1
  <2>3. UNCHANGED <<asked, overtaken>>
    BY <1>4 DEF Remember
  <2>4. MarksAreKept'
    BY <1>2, <1>3, <2>2, <2>3 DEF MarksAreKept
  <2> QED
    <3>1. asked' \in [Bookings -> Actions]
      BY <1>2, <2>3
    <3> DEFINE T == [Resources -> [status : {"ACTIVE", "INACTIVE"},
                                   mark : Bookings \cup {None}]]
    <3>2. resource \in T
      BY <1>2
    <3> HIDE DEF T
    <3>3. resource' \in T
      BY <2>2, <3>2, Zenon
    <3> QED
      BY <2>4, <3>1, <3>3 DEF T
<1>5. CASE r.action = "MARK_UNAVAILABLE"
  <2>1. applyResourceAction(r, resource[x]) = [status |-> "INACTIVE", mark |-> b]
    BY <1>1, <1>5 DEF applyResourceAction
  <2>2. /\ resource' \in [Resources -> [status : {"ACTIVE", "INACTIVE"},
                                        mark : Bookings \cup {None}]]
        /\ resource'[x].status = "INACTIVE" /\ resource'[x].mark = b
        /\ \A y \in Resources \ {x} : resource'[y] = resource[y]
    BY <1>1, <1>2, <2>1
  <2>3. /\ asked' = [asked EXCEPT ![b] = "MARK_UNAVAILABLE"]
        /\ overtaken' = (overtaken \ {b}) \cup ({resource[x].mark} \ {None, b})
    BY <1>1, <1>5 DEF Remember
  <2>4. /\ asked' \in [Bookings -> Actions] /\ asked'[b] = "MARK_UNAVAILABLE"
        /\ \A e \in Bookings \ {b} : asked'[e] = asked[e]
    BY <1>2, <2>3 DEF Actions
  <2>5. ASSUME NEW e \in Bookings
        PROVE  /\ resource'[ResourceOf[e]].mark = e => asked'[e] = "MARK_UNAVAILABLE"
               /\ asked'[e] = "MARK_UNAVAILABLE" /\ e \notin overtaken'
                     => resource'[ResourceOf[e]].mark = e
    <3>1. CASE e = b
      BY <1>1, <2>2, <2>4, <3>1
    <3>2. CASE e # b /\ ResourceOf[e] = x
      <4>1. asked[e] = "MARK_UNAVAILABLE" /\ e \notin overtaken => resource[x].mark = e
        BY <1>2, <3>2 DEF MarksAreKept
      <4> QED
        BY <2>2, <2>3, <2>4, <3>2, <4>1
    <3>3. CASE e # b /\ ResourceOf[e] # x
      <4>1. resource'[ResourceOf[e]] = resource[ResourceOf[e]] /\ asked'[e] = asked[e]
        BY <2>2, <2>4, <3>3
      <4>2. e \notin overtaken' => e \notin overtaken
        BY <2>3, <3>3
      <4> QED
        BY <1>2, <4>1, <4>2 DEF MarksAreKept
    <3> QED
      BY <3>1, <3>2, <3>3
  <2>6. ASSUME NEW y \in removed, resource'[y].status = "ACTIVE"
        PROVE  \E e \in Bookings : ResourceOf[e] = y /\ asked'[e] = "RESTORE"
    <3>1. y # x /\ resource[y].status = "ACTIVE"
      BY <1>2, <2>2, <2>6
    <3> QED
      BY <1>1, <1>2, <2>4, <3>1 DEF MarksAreKept
  <2> QED
    BY <1>3, <2>2, <2>4, <2>5, <2>6 DEF MarksAreKept
<1>6. CASE r.action = "RESTORE"
  <2>1. applyResourceAction(r, resource[x]) = [status |-> "ACTIVE", mark |-> None]
    BY <1>6 DEF applyResourceAction
  <2>2. /\ resource' \in [Resources -> [status : {"ACTIVE", "INACTIVE"},
                                        mark : Bookings \cup {None}]]
        /\ resource'[x].mark = None
        /\ \A y \in Resources \ {x} : resource'[y] = resource[y]
    BY <1>1, <1>2, <2>1
  <2>3. /\ asked' = [asked EXCEPT ![b] = "RESTORE"]
        /\ overtaken' = overtaken \ {b}
        /\ resource[x].mark = b
    BY <1>1, <1>6 DEF Remember, Restorable
  <2>4. /\ asked' \in [Bookings -> Actions] /\ asked'[b] = "RESTORE"
        /\ \A e \in Bookings \ {b} : asked'[e] = asked[e]
    BY <1>2, <2>3 DEF Actions
  <2>5. ASSUME NEW e \in Bookings
        PROVE  /\ resource'[ResourceOf[e]].mark = e => asked'[e] = "MARK_UNAVAILABLE"
               /\ asked'[e] = "MARK_UNAVAILABLE" /\ e \notin overtaken'
                     => resource'[ResourceOf[e]].mark = e
    <3>1. CASE ResourceOf[e] = x
      <4>1. e # b /\ asked[e] = "MARK_UNAVAILABLE" => e \in overtaken
        BY <1>2, <2>3, <3>1 DEF MarksAreKept
      <4> QED
        BY <2>2, <2>3, <2>4, <3>1, <4>1
    <3>2. CASE ResourceOf[e] # x
      <4>1. /\ resource'[ResourceOf[e]] = resource[ResourceOf[e]] /\ asked'[e] = asked[e]
            /\ e # b
        BY <1>1, <2>2, <2>4, <3>2
      <4>2. e \notin overtaken' => e \notin overtaken
        BY <2>3, <4>1
      <4> QED
        BY <1>2, <4>1, <4>2 DEF MarksAreKept
    <3> QED
      BY <3>1, <3>2
  <2>6. ASSUME NEW y \in removed, resource'[y].status = "ACTIVE"
        PROVE  \E e \in Bookings : ResourceOf[e] = y /\ asked'[e] = "RESTORE"
    <3>1. CASE y = x
      BY <1>1, <2>4, <3>1
    <3>2. CASE y # x
      <4>1. resource[y].status = "ACTIVE"
        BY <1>2, <2>2, <2>6, <3>2
      <4> QED
        BY <1>1, <1>2, <2>4, <3>2, <4>1 DEF MarksAreKept
    <3> QED
      BY <3>1, <3>2
  <2> QED
    BY <1>3, <2>2, <2>4, <2>5, <2>6 DEF MarksAreKept
<1> QED
  BY <1>3, <1>4, <1>5, <1>6 DEF Actions

\* The conditional UPDATE: the dispute is as it was checked, or nothing happens.
LEMMA ApplyIInv ==
    ASSUME IInv, NEW c \in Calls, applyTransition(c)
    PROVE  IInv'
<1>1. PICK r \in Reviewing : r = call[c] /\ r.op = "write"
  BY CallTypes DEF applyTransition
<1>2. PICK b \in Bookings : b = r.dispute
  BY DEF Reviewing
<1>3. UNCHANGED <<completed, approved, mine, page>>
  BY DEF applyTransition
<1>4. mine' \in Mine /\ page' \in [Admins -> Page]
  BY <1>3 DEF IInv
<1>5. dispute[b] # None /\ Checked(r) /\ dispute[b] \in Row
  BY <1>1, <1>2 DEF IInv, CallOK, TypeOK
<1>6. CASE ~(StillExpected(r) /\ Restorable(r))
  <2> DEFINE q == Answer(r, None)
  <2>1. /\ call' = [call EXCEPT ![c] = q]
        /\ UNCHANGED <<dispute, event, resource, history>>
    BY <1>1, <1>6 DEF applyTransition, Become
  <2>2. q \in Call /\ q.op = "answer" /\ q.row = None
    BY DEF Reviewing, Answered, Answer, Call
  <2> HIDE DEF q
  <2>3. CallOK(c)'
    BY <2>1, <2>2 DEF IInv, CallOK, Past
  <2>4. PagesArePast'
    BY <1>3, <2>1, SamePages
  <2> QED
    BY <1>3, <1>4, <2>1, <2>2, <2>3, <2>4, QuietCall
<1>7. CASE StillExpected(r) /\ Restorable(r)
  <2>1. /\ dispute' = [dispute EXCEPT ![b] = Updated(r)]
        /\ event' = IF r.to = None THEN event
                    ELSE [event EXCEPT ![b] = Append(@, r.to)]
        /\ resource' = [resource EXCEPT ![ResourceOf[r.dispute]] = applyResourceAction(r, @)]
        /\ Remember(r)
        /\ call' = [call EXCEPT ![c] = Answer(r, Updated(r))]
    BY <1>1, <1>2, <1>7 DEF applyTransition, Become
  <2>2. PICK n \in Row : n = Updated(r)
    BY <1>2, <1>5, <1>7, UpdatedRow DEF IInv, ClosedWithNotes
  <2>3. /\ r.to = None => n.status = dispute[b].status
        /\ r.to # None => n.status = r.to
        /\ r.notes # "blank" => (dispute[b].notes => n.notes)
        /\ dispute[b].status \in TERMINAL_STATUSES => n.status = dispute[b].status
        /\ n.status \in TERMINAL_STATUSES => n.resolved /\ (n.notes \/ b \in undercut)
    BY <1>2, <1>5, <1>7, <2>2, UpdatedRow DEF IInv, ClosedWithNotes
  <2>4. /\ dispute \in [Bookings -> Row \cup {None}] /\ event \in [Bookings -> Seq(Statuses)]
        /\ n # None
    BY DEF IInv, TypeOK
  <2>5. /\ dispute' \in [Bookings -> Row \cup {None}] /\ dispute'[b] = n
        /\ dispute' = [dispute EXCEPT ![b] = n]
        /\ \A e \in Bookings \ {b} : dispute'[e] = dispute[e]
    BY <2>1, <2>2, <2>4
  <2>6. /\ resource' \in [Resources -> [status : {"ACTIVE", "INACTIVE"},
                                        mark : Bookings \cup {None}]]
        /\ asked' \in [Bookings -> Actions]
        /\ MarksAreKept'
    BY <1>7, <2>1, MarksStep
  <2>7. /\ removed' = removed /\ undercut \subseteq undercut'
        /\ r.notes = "blank" /\ (\E d \in Calls : ReliesOnNotes(d, b)) => b \in undercut'
    BY <1>2, <2>1 DEF Remember
  <2>8. /\ event' \in [Bookings -> Seq(Statuses)]
        /\ EventsTellTheStory'
    <3>1. /\ event[b] # <<>> /\ event[b][1] = "OPEN"
          /\ event[b][Len(event[b])] = dispute[b].status
          /\ \A i \in 1..(Len(event[b]) - 1) :
                event[b][i + 1] \in ALLOWED_TRANSITIONS(event[b][i])
      BY <1>5 DEF IInv, EventsTellTheStory
    <3>2. PICK f \in Seq(Statuses) :
             /\ event' = [event EXCEPT ![b] = f]
             /\ f # <<>> /\ f[1] = "OPEN" /\ f[Len(f)] = n.status
             /\ \A i \in 1..(Len(f) - 1) : f[i + 1] \in ALLOWED_TRANSITIONS(f[i])
      <4>1. CASE r.to = None
        <5>1. event' = [event EXCEPT ![b] = event[b]]
          BY <2>1, <2>4, <4>1
        <5> QED
          BY <2>3, <2>4, <3>1, <4>1, <5>1
      <4>2. CASE r.to # None
        <5>1. r.to \in Statuses /\ r.to \in ALLOWED_TRANSITIONS(event[b][Len(event[b])])
          BY <1>2, <1>5, <1>7, <3>1, <4>2 DEF Checked, StillExpected, Reviewing
        <5>2. event' = [event EXCEPT ![b] = Append(event[b], r.to)]
          BY <2>1, <4>2
        <5>3. PICK f : f = Append(event[b], r.to)
          OBVIOUS
        <5>4. PICK e \in Seq(Statuses) : e = event[b]
          BY <2>4
        <5>5. /\ f \in Seq(Statuses) /\ f # <<>> /\ f[1] = "OPEN" /\ f[Len(f)] = r.to
              /\ \A i \in 1..(Len(f) - 1) : f[i + 1] \in ALLOWED_TRANSITIONS(f[i])
          BY <3>1, <5>1, <5>3, <5>4, OneMoreEvent
        <5> QED
          BY <2>3, <4>2, <5>2, <5>3, <5>5
      <4> QED
        BY <4>1, <4>2
    <3>3. /\ event' \in [Bookings -> Seq(Statuses)] /\ event'[b] = f
          /\ \A e \in Bookings \ {b} : event'[e] = event[e]
      BY <2>4, <3>2
    <3>4. ASSUME NEW e \in Bookings
          PROVE  /\ (event'[e] = <<>>) = (dispute'[e] = None)
                 /\ event'[e] # <<>> => /\ event'[e][1] = "OPEN"
                                        /\ event'[e][Len(event'[e])] = dispute'[e].status
                 /\ \A i \in 1..(Len(event'[e]) - 1) :
                       event'[e][i + 1] \in ALLOWED_TRANSITIONS(event'[e][i])
      <4>1. CASE e = b
        <5>1. event'[e] = f /\ dispute'[e] = n
          BY <2>5, <3>3, <4>1
        <5> QED
          BY <2>4, <3>2, <5>1
      <4>2. CASE e # b
        BY <2>5, <3>3, <4>2 DEF IInv, EventsTellTheStory
      <4> QED
        BY <4>1, <4>2
    <3> QED
      BY <3>3, <3>4 DEF EventsTellTheStory
  <2>9. TypeOK'
    BY <1>3, <2>5, <2>6, <2>8 DEF IInv, TypeOK
  <2>10. ClosedWithNotes'
    BY <2>3, <2>5, <2>7 DEF IInv, ClosedWithNotes
  <2>11. PagesArePast'
    BY <1>3, <2>3, <2>4, <2>5, PagesStayPast
  <2>12. ASSUME NEW d \in Calls \ {c} PROVE CallOK(d)'
    <3>1. call'[d] = call[d]
      BY <2>1 DEF IInv
    <3>2. ReliesOnNotes(d, b) => (dispute[b].notes => n.notes) \/ b \in undercut'
      BY <2>3, <2>7
    <3> QED
      BY <2>3, <2>5, <2>7, <3>1, <3>2, CallsStay
  <2>13. call' \in [Calls -> Call] /\ CallOK(c)'
    <3> DEFINE q == Answer(r, n)
    <3>1. /\ q \in Call /\ q.op = "answer" /\ q.row = n /\ q.dispute = b
      BY <1>2 DEF Reviewing, Answered, Answer, Call
    <3>2. call' = [call EXCEPT ![c] = q]
      BY <2>1, <2>2
    <3> HIDE DEF q
    <3>3. call' \in [Calls -> Call] /\ call'[c] = q
      BY <3>1, <3>2 DEF IInv
    <3> QED
      BY <2>4, <2>5, <3>1, <3>3 DEF CallOK, Past
  <2> QED
    BY <1>4, <2>6, <2>7, <2>8, <2>9, <2>10, <2>11, <2>12, <2>13 DEF IInv
<1> QED
  BY <1>6, <1>7

\* A resource that is removed keeps its mark.
LEMMA RemoveResourceIInv ==
    ASSUME IInv, NEW x \in Resources, removeResource(x)
    PROVE  IInv'
<1>1. /\ resource' = [resource EXCEPT ![x].status = "INACTIVE"]
      /\ removed' = removed \cup {x}
      /\ UNCHANGED <<completed, dispute, event, approved, mine, page, call, asked,
                     undercut, overtaken>>
  BY DEF removeResource
<1>2. resource \in [Resources -> [status : {"ACTIVE", "INACTIVE"},
                                  mark : Bookings \cup {None}]]
  BY DEF IInv, TypeOK
<1>3. /\ resource' \in [Resources -> [status : {"ACTIVE", "INACTIVE"},
                                      mark : Bookings \cup {None}]]
      /\ resource'[x].status = "INACTIVE"
      /\ \A y \in Resources : resource'[y].mark = resource[y].mark
      /\ \A y \in Resources \ {x} : resource'[y] = resource[y]
  BY <1>1, <1>2
<1>4. TypeOK'
  BY <1>1, <1>3 DEF IInv, TypeOK
<1>5. EventsTellTheStory' /\ ClosedWithNotes'
  BY <1>1 DEF IInv, EventsTellTheStory, ClosedWithNotes
<1>6. \A c \in Calls : CallOK(c)'
  BY <1>1, OtherCalls
<1>7. page' \in [Admins -> Page] /\ PagesArePast'
  BY <1>1, SamePages
<1>8. MarksAreKept'
  BY <1>1, <1>3 DEF IInv, MarksAreKept
<1> QED
  BY <1>1, <1>4, <1>5, <1>6, <1>7, <1>8 DEF IInv

-----------------------------------------------------------------------------
(* The theorems *)

LEMMA InitIInv == Init => IInv
<1> SUFFICES ASSUME Init PROVE IInv
  OBVIOUS
<1>1. PICK disputed \in SUBSET completed :
          /\ dispute = [b \in Bookings |-> IF b \in disputed THEN NewRow ELSE None]
          /\ event = [b \in Bookings |-> IF b \in disputed THEN <<"OPEN">> ELSE <<>>]
  BY DEF Init
<1>2. NewRow \in Row /\ NewRow.status = "OPEN"
  BY DEF NewRow, Row, Statuses
<1>3. NewRow # None
  BY <1>2
<1>4. <<"OPEN">> \in Seq(Statuses) /\ <<>> \in Seq(Statuses)
  BY DEF Statuses
<1>5. NewPage \in Page /\ \A b \in Bookings : NewPage.list[b] = None
  BY DEF NewPage, Page
<1>6. /\ mine \in Mine /\ page \in [Admins -> Page] /\ call \in [Calls -> Call]
      /\ asked \in [Bookings -> Actions] /\ removed \subseteq Resources
  BY <1>5 DEF Init, Mine, Call, Actions
<1>7. TypeOK
  <2>1. dispute \in [Bookings -> Row \cup {None}] /\ event \in [Bookings -> Seq(Statuses)]
    BY <1>1, <1>2, <1>4
  <2>2. \A a \in Admins : page[a].list \in [Bookings -> Row \cup {None}]
    BY <1>6 DEF Page
  <2> QED
    BY <2>1, <2>2 DEF Init, TypeOK
<1>8. EventsTellTheStory
  <2> SUFFICES ASSUME NEW b \in Bookings
               PROVE  /\ (event[b] = <<>>) = (dispute[b] = None)
                      /\ event[b] # <<>> => /\ event[b][1] = "OPEN"
                                            /\ event[b][Len(event[b])] = dispute[b].status
                      /\ \A i \in 1..(Len(event[b]) - 1) :
                            event[b][i + 1] \in ALLOWED_TRANSITIONS(event[b][i])
    BY DEF EventsTellTheStory
  <2>1. CASE b \in disputed
    <3>1. event[b] = <<"OPEN">> /\ dispute[b] = NewRow
      BY <1>1, <2>1
    <3>2. Len(event[b]) = 1 /\ event[b][1] = "OPEN" /\ event[b] # <<>>
      BY <3>1, OneEvent
    <3> QED
      BY <1>2, <1>3, <3>1, <3>2
  <2>2. CASE b \notin disputed
    <3>1. event[b] = <<>> /\ dispute[b] = None
      BY <1>1, <2>2
    <3>2. Len(event[b]) = 0
      BY <3>1
    <3> QED
      BY <3>1, <3>2
  <2> QED
    BY <2>1, <2>2
<1>9. ClosedWithNotes
  BY <1>1, <1>2 DEF ClosedWithNotes, TERMINAL_STATUSES
<1>10. PagesArePast
  BY <1>5 DEF Init, PagesArePast, Past
<1>11. \A c \in Calls : CallOK(c)
  BY DEF Init, CallOK, Idle
<1>12. MarksAreKept
  BY DEF Init, MarksAreKept
<1> QED
  BY <1>6, <1>7, <1>8, <1>9, <1>10, <1>11, <1>12 DEF IInv

LEMMA NextIInv ==
    ASSUME IInv, [Next]_vars
    PROVE  IInv'
<1>1. ASSUME NEW c \in Calls,
             \/ \E b \in Bookings :
                   \/ submitDispute(c, b)
                   \/ \E a \in Admins :
                         \/ acknowledge(c, a, b)
                         \/ \E review \in Reviews :
                               submitReview(c, a, b, review) \/ updateDispute(c, a, b, review)
             \/ open(c) \/ transitionRead(c) \/ applyTransition(c)
             \/ \E arrives \in BOOLEAN : answerOpen(c, arrives) \/ answerTransition(c, arrives)
      PROVE  IInv'
  BY <1>1, OpenRequests, ReviewRequests, OpenIInv, TransitionReadIInv, ApplyIInv, AnswerIInv
<1>2. ASSUME NEW a \in Admins,
             \/ \E arrives \in BOOLEAN : loadOrganizationDisputes(a, arrives)
             \/ reopenOrganizationDisputes(a)
      PROVE  IInv'
  BY <1>2, LoadDisputesIInv, ReopenPageIInv
<1> QED
  BY <1>1, <1>2, UserPageActions, OtherActions, RemoveResourceIInv DEF Next

\* The inductive invariant of disputes holds in every execution: beside the three
\* properties, that a request has checked a status the row had when it was read,
\* and that pages show rows as they are or were.
THEOREM Invariance == Spec => []IInv
<1>1. IInv /\ [Next]_vars => IInv'
  BY NextIInv
<1> QED
  BY <1>1, InitIInv, PTL DEF Spec

\* The conditional UPDATE of applyTransition is enough: with any number of
\* reviewers at once, the events of a dispute are a path of ALLOWED_TRANSITIONS
\* from OPEN to its status.
THEOREM HistoriesArePaths == Spec => []HistoryIsComplete
<1>1. IInv => HistoryIsComplete
  BY DEF IInv, HistoryIsComplete
<1> QED
  BY <1>1, Invariance, PTL

\* A dispute that transition closed, or that a page shows as closed, stays closed
\* in the same way; it has resolvedAt, and notes unless another request blanked
\* them between the check of a closing and its UPDATE.
THEOREM ClosedForGood == Spec => []ClosedDisputesStayClosed
<1>1. IInv => ClosedDisputesStayClosed
  <2>1. IInv => ShownClosedIsClosed
    BY DEF IInv, PagesArePast, Past, ShownClosedIsClosed, Shown
  <2> QED
    BY <2>1 DEF IInv, ClosedDisputesStayClosed
<1> QED
  BY <1>1, Invariance, PTL

\* applyResourceAction keeps one holder per resource, the dispute that marked it
\* last, and nobody else restores it, even after remove left the mark behind.
THEOREM MarksHold == Spec => []MarksAreKept
<1>1. IInv => MarksAreKept
  BY DEF IInv
<1> QED
  BY <1>1, Invariance, PTL
=============================================================================
