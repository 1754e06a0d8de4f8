----------------------------- MODULE Deliveries -----------------------------
(***************************************************************************)
(* The delivery half of services/notification-service: the table           *)
(* notification_deliveries, the pollers that claim its rows, the providers *)
(* they call and the retry policy.                                         *)
(*                                                                         *)
(* Every instance of the service is a worker.  Its dispatchDue requeues    *)
(* stale rows, reads the due ones and processes them one after the other;  *)
(* each database statement and each answer of a provider is a step, so     *)
(* that workers interleave, die and fail between any two of them.          *)
(*                                                                         *)
(* Time is one flag per row: whether the moment the row waits for          *)
(* (nextAttemptAt, or updatedAt plus five minutes) has passed.             *)
(***************************************************************************)
EXTENDS Integers, FiniteSets, FiniteSetsExt

CONSTANTS
    N,          \* deliveries are 1..N, in the order of createdAt
    Emails,     \* the deliveries of channel EMAIL; the others are PUSH
    Workers,    \* instances of the service
    Retries,    \* number of DELAYS: 5 in retry-policy.ts
    Limit,      \* rows findDue returns at most: 50
    MaxFaults,  \* bound of the crashes, database errors and lost answers
    LoseAnswers,\* may an answer get lost after the request took effect?
    SlowSends   \* may a live worker hold a row for more than five minutes?

Rows == 1..N

ASSUME DeliveriesAssumption ==
    /\ N \in Nat
    /\ Emails \subseteq Rows
    /\ Retries \in Nat
    /\ Limit \in Nat \ {0}
    /\ MaxFaults \in Nat
    /\ LoseAnswers \in BOOLEAN
    /\ SlowSends \in BOOLEAN

VARIABLES
    row,        \* table notification_deliveries
    worker,     \* what each poller is doing
    accepted,   \* how often the provider took the message of a row
    subscribed, \* is the push subscription of the destination active?
    faults      \* crashes, database errors and lost answers so far

vars == <<row, worker, accepted, subscribed, faults>>

Status == {"NONE", "QUEUED", "PROCESSING", "RETRY_SCHEDULED", "SENT", "FAILED"}

Row == [status : Status, attemptCount : Nat,
        content : BOOLEAN,  \* subject and body are not null
        elapsed : BOOLEAN]

\* loop: between two rows of todo.  The other phases hold the smallest row of
\* todo: sending (claimed), accepted (by the provider), failed (an error).
Worker == [phase : {"idle", "requeued", "loop", "sending", "accepted", "failed"},
           todo : SUBSET Rows,
           attempt : Nat,       \* attemptCount and content as claim read them
           content : BOOLEAN,
           transient : BOOLEAN] \* the error, once there is one

IdleWorker == [phase |-> "idle", todo |-> {}, attempt |-> 0, content |-> FALSE,
               transient |-> FALSE]

Current(w) == Min(worker[w].todo)

Holding(w) == worker[w].phase \in {"sending", "accepted", "failed"}

Goto(w, phase) == worker' = [worker EXCEPT ![w].phase = phase]

\* The next turn of the loop of dispatchDue.
NextRowStillHolding(w) ==
    worker' = [worker EXCEPT ![w].todo = @ \ {Current(w)}]
NextRow(w) == worker' = [worker EXCEPT ![w] =
                [IdleWorker EXCEPT !.phase = "loop",
                                   !.todo = worker[w].todo \ {Current(w)}]]

Throw(w, transient) ==
    worker' = [worker EXCEPT ![w].phase = "failed", ![w].transient = transient]

SetRow(d, r) == row' = [row EXCEPT ![d] = r]

Fault == faults < MaxFaults /\ faults' = faults + 1

-----------------------------------------------------------------------------
(* NotificationCommandService writes the row; users manage subscriptions. *)

Enqueue(d) ==
    /\ row[d].status = "NONE"
    /\ \A e \in 1..(d - 1) : row[e].status # "NONE"
    /\ d \in Emails \/ subscribed
    /\ SetRow(d, [row[d] EXCEPT !.status = "QUEUED"])
    /\ UNCHANGED <<worker, accepted, subscribed, faults>>

RegisterWebPush ==
    /\ subscribed' = TRUE
    /\ UNCHANGED <<row, worker, accepted, faults>>

RemoveWebPush ==
    /\ subscribed' = FALSE
    /\ UNCHANGED <<row, worker, accepted, faults>>

-----------------------------------------------------------------------------
(* dispatchDue: requeueStale, findDue, then worker.process for each row.   *)
(* The flag running keeps a second poll of the same instance out.          *)

Due(d) ==
    \/ row[d].status = "QUEUED"
    \/ row[d].status = "RETRY_SCHEDULED" /\ row[d].elapsed

RequeuedNever(d) == row[d]
Requeued(d) ==
    IF row[d].status = "PROCESSING" /\ row[d].elapsed
    THEN [row[d] EXCEPT !.status = "QUEUED", !.elapsed = FALSE]
    ELSE row[d]

RequeueStale(w) ==
    /\ worker[w].phase = "idle"
    /\ row' = [d \in Rows |-> Requeued(d)]
    /\ Goto(w, "requeued")
    /\ UNCHANGED <<accepted, subscribed, faults>>

\* The oldest Limit due rows.
FindDue(w) ==
    /\ worker[w].phase = "requeued"
    /\ LET older(d) == {e \in Rows : e < d /\ Due(e)}
           found == {d \in Rows : Due(d) /\ Cardinality(older(d)) < Limit}
       IN  worker' = [worker EXCEPT ![w] = [IdleWorker EXCEPT !.phase = "loop",
                                                              !.todo = found]]
    /\ UNCHANGED <<row, accepted, subscribed, faults>>

\* claim: UPDATE ... WHERE the row is still due, then read it.
ClaimableIfUnfinished(d) == row[d].status # "SENT"
ClaimableUnlessFailedNow(d) == Due(d) \/ row[d].status = "FAILED"
Claimable(d) == Due(d)

Claim(w) ==
    /\ worker[w].phase = "loop"
    /\ worker[w].todo # {}
    /\ LET d == Current(w)
           r == row[d]
       IN  /\ Claimable(d)
           /\ SetRow(d, [r EXCEPT !.status = "PROCESSING", !.elapsed = FALSE,
                                  !.attemptCount = @ + 1])
           /\ worker' = [worker EXCEPT ![w] =
                            [@ EXCEPT !.phase = "sending", !.attempt = r.attemptCount + 1,
                                      !.content = r.content]]
    /\ UNCHANGED <<accepted, subscribed, faults>>

SkipRow(w) ==
    /\ worker[w].phase = "loop"
    /\ worker[w].todo # {}
    /\ ~Claimable(Current(w))
    /\ NextRow(w)
    /\ UNCHANGED <<row, accepted, subscribed, faults>>

LoopEnds(w) ==
    /\ worker[w].phase = "loop"
    /\ worker[w].todo = {}
    /\ Goto(w, "idle")
    /\ UNCHANGED <<row, accepted, subscribed, faults>>

-----------------------------------------------------------------------------
(* process: what the provider does with the message *)

\* Resend gets the row's id as idempotency key: it takes an email only once.
TakeMessage(d) ==
    accepted' = [accepted EXCEPT ![d] = IF d \in Emails THEN 1 ELSE @ + 1]

ContentMissing(w) ==
    /\ worker[w].phase = "sending"
    /\ ~worker[w].content
    /\ Throw(w, TRUE)
    /\ UNCHANGED <<row, accepted, subscribed, faults>>

ProviderAccepts(w) ==
    /\ worker[w].phase = "sending"
    /\ worker[w].content
    /\ TakeMessage(Current(w))
    /\ Goto(w, "accepted")
    /\ UNCHANGED <<row, subscribed, faults>>

ProviderRejects(w, transient) ==
    /\ worker[w].phase = "sending"
    /\ worker[w].content
    /\ Throw(w, transient)
    /\ UNCHANGED <<row, accepted, subscribed, faults>>

\* FCM does not know the token any more: the subscription is switched off.
TargetInvalid(w) ==
    /\ worker[w].phase = "sending"
    /\ worker[w].content
    /\ Current(w) \notin Emails
    /\ subscribed' = FALSE
    /\ Throw(w, FALSE)
    /\ UNCHANGED <<row, accepted, faults>>

\* The provider took the message and the worker sees an error.
ProviderAnswerLost(w, transient) ==
    /\ LoseAnswers
    /\ Fault
    /\ worker[w].phase = "sending"
    /\ worker[w].content
    /\ TakeMessage(Current(w))
    /\ Throw(w, transient)
    /\ UNCHANGED <<row, subscribed>>

-----------------------------------------------------------------------------
(* process: what is written back.  Both UPDATEs name only the row's id. *)

CompletedKeepingContent(d) ==
    [row[d] EXCEPT !.status = "SENT", !.elapsed = FALSE]
Completed(d) ==
    [row[d] EXCEPT !.status = "SENT", !.elapsed = FALSE,
                   !.content = @ /\ d \notin Emails]

Complete(w) ==
    /\ worker[w].phase = "accepted"
    /\ SetRow(Current(w), Completed(Current(w)))
    /\ NextRow(w)
    /\ UNCHANGED <<accepted, subscribed, faults>>

\* complete throws inside the try block, so fail runs with a transient error.
\* With a lost answer the UPDATE has taken effect all the same.
CompleteThrows(w) ==
    /\ Fault
    /\ worker[w].phase = "accepted"
    /\ \/ UNCHANGED row
       \/ LoseAnswers /\ SetRow(Current(w), Completed(Current(w)))
    /\ Throw(w, TRUE)
    /\ UNCHANGED <<accepted, subscribed>>

\* decideRetry: DELAYS[attemptCount - 1] exists.
RetryOffByOne(attempt, transient) == transient /\ attempt <= Retries + 1
decideRetry(attempt, transient) == transient /\ attempt <= Retries

Fail(w) ==
    /\ worker[w].phase = "failed"
    /\ LET d == Current(w)
           retry == decideRetry(worker[w].attempt, worker[w].transient)
       IN  SetRow(d, [row[d] EXCEPT !.elapsed = FALSE, !.status =
                        IF retry THEN "RETRY_SCHEDULED" ELSE "FAILED"])
    /\ NextRow(w)
    /\ UNCHANGED <<accepted, subscribed, faults>>

\* The process dies, or a statement outside the try block throws and dispatchDue
\* ends: the row it held stays PROCESSING, the rest of todo is not looked at.
Abandon(w) ==
    /\ worker[w].phase # "idle"
    /\ Fault
    /\ worker' = [worker EXCEPT ![w] = IdleWorker]
    /\ UNCHANGED <<row, accepted, subscribed>>

-----------------------------------------------------------------------------
\* The moment row d waits for passes.
Elapse(d) ==
    /\ row[d].status \in {"RETRY_SCHEDULED", "PROCESSING"}
    /\ ~row[d].elapsed
    /\ SlowSends \/ ~\E w \in Workers : Holding(w) /\ Current(w) = d
    /\ SetRow(d, [row[d] EXCEPT !.elapsed = TRUE])
    /\ UNCHANGED <<worker, accepted, subscribed, faults>>

Init ==
    /\ row = [d \in Rows |-> [status |-> "NONE", attemptCount |-> 0,
                              content |-> TRUE, elapsed |-> FALSE]]
    /\ worker = [w \in Workers |-> IdleWorker]
    /\ accepted = [d \in Rows |-> 0]
    /\ subscribed = TRUE
    /\ faults = 0

Step(w) ==
    \/ RequeueStale(w) \/ FindDue(w) \/ Claim(w) \/ SkipRow(w) \/ LoopEnds(w)
    \/ ContentMissing(w) \/ ProviderAccepts(w) \/ TargetInvalid(w)
    \/ \E transient \in BOOLEAN : ProviderRejects(w, transient)
    \/ Complete(w) \/ Fail(w)

Failure(w) ==
    \/ \E transient \in BOOLEAN : ProviderAnswerLost(w, transient)
    \/ CompleteThrows(w)
    \/ Abandon(w)

Next ==
    \/ \E w \in Workers : Step(w) \/ Failure(w)
    \/ \E d \in Rows : Enqueue(d) \/ Elapse(d)
    \/ RegisterWebPush
    \/ RemoveWebPush

Spec == Init /\ [][Next]_vars

\* setInterval polls for ever, a provider call ends, and time passes.
FairSpec ==
    /\ Spec
    /\ \A w \in Workers : WF_vars(Step(w))
    /\ \A d \in Rows : WF_vars(Elapse(d))

-----------------------------------------------------------------------------
(* Properties *)

\* Tables and workers keep their types, and a worker that sends or writes back
\* still has the row it claimed at the head of its list.
TypeOK ==
    /\ row \in [Rows -> Row]
    /\ worker \in [Workers -> Worker]
    /\ accepted \in [Rows -> Nat]
    /\ subscribed \in BOOLEAN
    /\ faults \in 0..MaxFaults
    /\ \A w \in Workers : Holding(w) => worker[w].todo # {}

\* Two pollers that found the same row never both hold it, because claim asks
\* again: no message is handed to a provider by two workers at once.
OneSenderPerDelivery ==
    \A v, w \in Workers :
        v # w /\ Holding(v) /\ Holding(w) => Current(v) # Current(w)

\* A provider takes the same message twice only if a crash, a database error or
\* a lost answer came in between; polling by several instances alone never
\* sends a push twice.
DuplicatesNeedFaults ==
    \A d \in Rows : accepted[d] <= 1 + faults

\* A row is tried once for each delay and once more; only a worker that died
\* or could not write back adds to that.
AttemptsAreBounded ==
    \A d \in Rows : row[d].attemptCount <= Retries + 1 + faults

\* Content is dropped only once the provider has taken the email, so no send is
\* ever refused for want of content (ContentMissing) unless the message is out;
\* a SENT email keeps none.
ContentUntilAccepted ==
    \A d \in Rows :
        /\ ~row[d].content => d \in Emails /\ accepted[d] > 0
        /\ row[d].status = "SENT" /\ d \in Emails => ~row[d].content

\* FAILED rows stay FAILED, although complete and fail update by id only and a
\* second worker may hold an old list of due rows.  A SENT row changes only by
\* the worker that sent it, when the answer to its own UPDATE got lost.
OutcomeIsFinal ==
    [][\A d \in Rows :
         row[d].status \in {"SENT", "FAILED"} /\ row'[d].status # row[d].status =>
            /\ row[d].status = "SENT"
            /\ \E w \in Workers : worker[w].phase = "failed" /\ Current(w) = d]_vars

\* Every queued delivery ends SENT or FAILED: rows of dead workers are found
\* again, and retries run out.
DeliveriesSettle ==
    \A d \in Rows : (row[d].status = "QUEUED") ~>
                        (row[d].status \in {"SENT", "FAILED"})

\* A worker that sends or writes back has its row for itself.
WorkersHoldTheirRows == TypeOK /\ OneSenderPerDelivery

\* Each fault costs one more attempt and one more message at most, and without
\* one no message that the provider took is given up.
SendsAreBounded ==
    /\ AttemptsAreBounded /\ DuplicatesNeedFaults
    /\ \A d \in Rows : accepted[d] > 0 /\ row[d].status = "FAILED" => faults > 0

=============================================================================
