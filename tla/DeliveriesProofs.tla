-------------------------- MODULE DeliveriesProofs --------------------------
(***************************************************************************)
(* Proofs about Deliveries for any number of rows, workers, retries and    *)
(* faults.  Sends are assumed to end within the five minutes after which   *)
(* requeueStale presumes the worker interrupted (~SlowSends): without that *)
(* the code does hand one row to two workers.                              *)
(***************************************************************************)
EXTENDS Deliveries, WellFoundedInduction, TLAPS

USE DeliveriesAssumption

Held(d) == \E w \in Workers : Holding(w) /\ Current(w) = d

\* The provider has the message, and the worker has not written it back.
Handed(d) == \E w \in Workers : worker[w].phase = "accepted" /\ Current(w) = d

\* The row that worker w holds is PROCESSING and not stale, and the attempt is
\* the one that claim counted; only the worker whose UPDATE to SENT took effect
\* and seemed to fail holds a row that is SENT.
HolderOK(w) ==
    /\ Current(w) \in worker[w].todo
    /\ ~row[Current(w)].elapsed
    /\ \/ row[Current(w)].status = "PROCESSING"
       \/ row[Current(w)].status = "SENT" /\ worker[w].phase = "failed"
    /\ worker[w].attempt = row[Current(w)].attemptCount
    /\ worker[w].phase = "accepted" => accepted[Current(w)] > 0

HoldersOK == \A w \in Workers : Holding(w) => HolderOK(w)

\* A row that may be claimed again has an attempt left for each fault, and a
\* message that is neither SENT nor on its way to be was taken in vain, once for
\* each fault at most.
Budget(d) ==
    /\ row[d].status \in {"NONE", "QUEUED", "RETRY_SCHEDULED"}
         \/ (row[d].status = "PROCESSING" /\ ~Held(d)) =>
            row[d].attemptCount <= Retries + faults
    /\ (row[d].status # "SENT" \/ Held(d)) /\ ~Handed(d) => accepted[d] <= faults

RowOK(d) ==
    /\ Budget(d)
    /\ row[d].attemptCount <= Retries + 1 + faults
    /\ accepted[d] <= 1 + faults
    /\ ~row[d].content => d \in Emails /\ accepted[d] > 0
    /\ row[d].status = "SENT" /\ d \in Emails => ~row[d].content

IInv ==
    /\ TypeOK
    /\ OneSenderPerDelivery
    /\ HoldersOK
    /\ \A d \in Rows : RowOK(d)

-----------------------------------------------------------------------------
(* The row at the head of a worker's list *)

\* The smallest element of a set of rows is one of them.
LEMMA MinOfRows ==
    ASSUME NEW S \in SUBSET Nat, S # {}
    PROVE  Min(S) \in S
<1> DEFINE R == OpToRel(<, Nat)
<1>1. \A x, y \in Nat : y < x => <<y, x>> \in R
  BY Zenon DEF OpToRel
<1>2. IsWellFoundedOn(R, Nat)
  BY NatLessThanWellFounded
<1> HIDE DEF R
<1>3. PICK x \in S : \A y \in S : ~(<<y, x>> \in R)
  BY <1>2, WFMin
<1>4. \A y \in S : x <= y
  <2> SUFFICES ASSUME NEW y \in S PROVE x <= y
    OBVIOUS
  <2>1. x \in Nat /\ y \in Nat
    OBVIOUS
  <2>2. ~(y < x)
    BY <1>1, <1>3, <2>1
  <2> QED
    BY <2>1, <2>2
<1> QED
  BY <1>4 DEF Min

LEMMA CurrentIsRow ==
    ASSUME TypeOK, NEW w \in Workers, worker[w].todo # {}
    PROVE  Current(w) \in worker[w].todo /\ Current(w) \in Rows
<1>1. worker[w].todo \in SUBSET Rows
  BY DEF TypeOK, Worker
<1>2. worker[w].todo \in SUBSET Nat
  BY <1>1 DEF Rows
<1> QED
  BY <1>1, <1>2, MinOfRows DEF Current


-----------------------------------------------------------------------------
(* What one step may touch *)

\* A step of the workers W on the rows D keeps the invariant, if nobody else
\* holds a row of D and the step leaves W and D in order.
LEMMA LocalStep ==
    ASSUME IInv, TypeOK', faults' >= faults,
           NEW W \in SUBSET Workers, NEW D \in SUBSET Rows,
           \A v, w \in W : v = w,
           \A v \in Workers \ W : worker'[v] = worker[v]
                                    /\ (Holding(v) => Current(v) \notin D),
           \A v \in W : Holding(v) => Current(v) \in D,
           \A v \in W : Holding(v)' => Current(v)' \in D /\ HolderOK(v)',
           \A e \in Rows \ D : row'[e] = row[e] /\ accepted'[e] = accepted[e],
           \A d \in D : RowOK(d)'
    PROVE  IInv'
<1>1. \A v \in Workers \ W : Holding(v)' = Holding(v) /\ Current(v)' = Current(v)
  BY DEF Holding, Current
<1>2. \A v \in Workers : Holding(v) => Current(v) \in Rows
  BY CurrentIsRow DEF IInv, TypeOK
<1>3. OneSenderPerDelivery'
  BY <1>1 DEF IInv, OneSenderPerDelivery
<1>4. HoldersOK'
  <2> SUFFICES ASSUME NEW v \in Workers \ W, Holding(v) PROVE HolderOK(v)'
    BY <1>1 DEF HoldersOK
  <2>1. HolderOK(v) /\ Current(v) \in Rows \ D
    BY <1>2 DEF IInv, HoldersOK
  <2> QED
    BY <1>1, <2>1 DEF HolderOK
<1>5. ASSUME NEW e \in Rows \ D PROVE RowOK(e)'
  <2>1. Held(e)' <=> Held(e)
    BY <1>1 DEF Held
  <2>2. Handed(e)' <=> Handed(e)
    <3>1. \A v \in W : worker[v].phase = "accepted" => Current(v) # e
      BY DEF Holding
    <3>2. \A v \in W : worker'[v].phase = "accepted" => Current(v)' # e
      BY DEF Holding
    <3> QED
      BY <1>1, <3>1, <3>2 DEF Handed
  <2>3. /\ row[e].attemptCount \in Nat /\ accepted[e] \in Nat
        /\ faults \in Nat /\ faults' \in Nat
    BY DEF IInv, TypeOK, Row
  <2>4. RowOK(e)
    BY DEF IInv
  <2> QED
    BY <2>1, <2>2, <2>3, <2>4 DEF RowOK, Budget
<1> QED
  BY <1>3, <1>4, <1>5 DEF IInv

\* Steps between two rows change no row: findDue, a row that another worker
\* took, the end of the loop.
LEMMA UnheldStep ==
    ASSUME IInv, TypeOK', NEW w \in Workers, ~Holding(w), ~Holding(w)',
           \A v \in Workers \ {w} : worker'[v] = worker[v],
           row' = row, accepted' = accepted, faults' >= faults
    PROVE  IInv'
<1> DEFINE D == {}
           W == {w}
<1>1. W \in SUBSET Workers /\ D \in SUBSET Rows
  OBVIOUS
<1>2. /\ \A u, v \in W : u = v
      /\ \A v \in Workers \ W : worker'[v] = worker[v]
                                  /\ (Holding(v) => Current(v) \notin D)
      /\ \A v \in W : ~Holding(v) /\ ~Holding(v)'
      /\ \A e \in Rows \ D : row'[e] = row[e] /\ accepted'[e] = accepted[e]
      /\ \A d \in D : RowOK(d)'
  OBVIOUS
<1> HIDE DEF D, W
<1> QED
  BY <1>1, <1>2, LocalStep

\* A step of worker w on row d, which no other worker holds.
LEMMA RowStep ==
    ASSUME IInv, TypeOK', faults' >= faults, NEW w \in Workers, NEW d \in Rows,
           \A v \in Workers \ {w} : worker'[v] = worker[v]
                                      /\ (Holding(v) => Current(v) # d),
           Holding(w) => Current(w) = d,
           Holding(w)' => Current(w)' = d /\ HolderOK(w)',
           \A e \in Rows \ {d} : row'[e] = row[e] /\ accepted'[e] = accepted[e],
           RowOK(d)'
    PROVE  IInv'
<1> DEFINE D == {d}
           W == {w}
<1>1. W \in SUBSET Workers /\ D \in SUBSET Rows
  OBVIOUS
<1>2. /\ \A u, v \in W : u = v
      /\ \A v \in Workers \ W : worker'[v] = worker[v]
                                  /\ (Holding(v) => Current(v) \notin D)
      /\ \A v \in W : Holding(v) => Current(v) \in D
      /\ \A v \in W : Holding(v)' => Current(v)' \in D /\ HolderOK(v)'
      /\ \A e \in Rows \ D : row'[e] = row[e] /\ accepted'[e] = accepted[e]
      /\ \A e \in D : RowOK(e)'
  OBVIOUS
<1> HIDE DEF D, W
<1> QED
  BY <1>1, <1>2, LocalStep

\* What a worker knows of the row it holds.
LEMMA HeldRow ==
    ASSUME IInv, NEW w \in Workers, Holding(w)
    PROVE  /\ Current(w) \in Rows
           /\ row[Current(w)].status \in {"PROCESSING", "SENT"}
           /\ HolderOK(w)
           /\ \A v \in Workers \ {w} : Holding(v) => Current(v) # Current(w)
           /\ RowOK(Current(w))
<1>1. Current(w) \in Rows
  BY CurrentIsRow DEF IInv, TypeOK
<1> QED
  BY <1>1 DEF IInv, HoldersOK, HolderOK, OneSenderPerDelivery

\* Between claim and the write-back the worker keeps its row: the provider takes
\* the message or an error comes up, the row may already have become SENT.
LEMMA SendingStep ==
    ASSUME IInv, NEW w \in Workers, Holding(w), NEW d \in Rows, d = Current(w),
           faults' >= faults, faults' \in 0..MaxFaults, subscribed' \in BOOLEAN,
           worker' \in [Workers -> Worker], accepted' \in [Rows -> Nat],
           row' \in [Rows -> Row],
           \A v \in Workers \ {w} : worker'[v] = worker[v],
           worker'[w].todo = worker[w].todo,
           worker'[w].attempt = worker[w].attempt,
           worker'[w].phase \in {"accepted", "failed"},
           \A e \in Rows \ {d} : row'[e] = row[e] /\ accepted'[e] = accepted[e],
           ~row'[d].elapsed,
           row'[d].attemptCount = row[d].attemptCount,
           \/ row'[d].status = "PROCESSING"
           \/ row'[d].status = "SENT" /\ worker'[w].phase = "failed",
           accepted'[d] <= 1 + faults,
           worker'[w].phase = "accepted" => accepted'[d] > 0,
           worker'[w].phase = "failed" => accepted'[d] <= faults',
           ~row'[d].content => d \in Emails /\ accepted'[d] > 0,
           row'[d].status = "SENT" /\ d \in Emails => ~row'[d].content
    PROVE  IInv'
<1>1. /\ Holding(w)'
      /\ Current(w)' = d
      /\ \A v \in Workers : Current(v)' = Current(v)
      /\ \A v \in Workers \ {w} : Holding(v)' = Holding(v)
  BY DEF Holding, Current
<1>2. TypeOK'
  BY <1>1 DEF IInv, TypeOK, Holding
<1>3. /\ HolderOK(w) /\ RowOK(d)
      /\ \A v \in Workers \ {w} : Holding(v) => Current(v) # d
  BY HeldRow
<1>4. HolderOK(w)'
  BY <1>1, <1>3 DEF HolderOK
<1>5. Held(d)'
  BY <1>1 DEF Held
<1>6. Handed(d)' <=> worker'[w].phase = "accepted"
  BY <1>1, <1>3 DEF Handed, Holding
<1>7. /\ row[d].attemptCount \in Nat /\ accepted[d] \in Nat /\ accepted'[d] \in Nat
      /\ faults \in Nat /\ faults' \in Nat /\ Retries \in Nat
  BY DEF IInv, TypeOK, Row
<1>8. RowOK(d)'
  BY <1>3, <1>5, <1>6, <1>7 DEF RowOK, Budget
<1> QED
  BY <1>1, <1>2, <1>3, <1>4, <1>8, RowStep

\* A worker that lets its row go leaves it finished or with attempts in hand.
LEMMA ReleaseStep ==
    ASSUME IInv, NEW w \in Workers, Holding(w), NEW d \in Rows, d = Current(w),
           ~Holding(w)',
           faults' >= faults, faults' \in 0..MaxFaults, subscribed' \in BOOLEAN,
           worker' \in [Workers -> Worker], accepted' = accepted,
           row' \in [Rows -> Row],
           \A v \in Workers \ {w} : worker'[v] = worker[v],
           \A e \in Rows \ {d} : row'[e] = row[e],
           row'[d].attemptCount = row[d].attemptCount,
           \/ row'[d].status \in {"SENT", "FAILED"}
           \/ row[d].attemptCount <= Retries + faults',
           row'[d].status = "SENT" \/ accepted[d] <= faults',
           ~row'[d].content => d \in Emails /\ accepted[d] > 0,
           row'[d].status = "SENT" /\ d \in Emails => ~row'[d].content
    PROVE  IInv'
<1>1. \A v \in Workers \ {w} : Current(v)' = Current(v) /\ Holding(v)' = Holding(v)
  BY DEF Holding, Current
<1>2. TypeOK'
  BY <1>1 DEF IInv, TypeOK, Holding
<1>3. /\ RowOK(d)
      /\ \A v \in Workers \ {w} : Holding(v) => Current(v) # d
  BY HeldRow
<1>4. /\ row[d].attemptCount \in Nat /\ accepted[d] \in Nat
      /\ faults \in Nat /\ faults' \in Nat /\ Retries \in Nat
  BY DEF IInv, TypeOK, Row
<1>5. ~Held(d)'
  BY <1>1, <1>3 DEF Held
<1>6. RowOK(d)'
  BY <1>3, <1>4, <1>5 DEF RowOK, Budget
<1> QED
  BY <1>2, <1>3, <1>6, RowStep

-----------------------------------------------------------------------------
(* The actions of a worker *)

LEMMA UnheldActions ==
    ASSUME IInv, NEW w \in Workers, FindDue(w) \/ SkipRow(w) \/ LoopEnds(w)
    PROVE  IInv'
<1>1. /\ worker \in [Workers -> Worker] /\ worker[w].todo \in SUBSET Rows
      /\ faults \in Nat
  BY DEF IInv, TypeOK, Worker
<1>2. CASE LoopEnds(w)
  <2>1. worker' = [worker EXCEPT ![w].phase = "idle"]
    BY <1>2 DEF LoopEnds, Goto
  <2>2. /\ worker' \in [Workers -> Worker]
        /\ \A v \in Workers \ {w} : worker'[v] = worker[v]
        /\ worker'[w].phase = "idle"
    BY <1>1, <2>1 DEF Worker
  <2>3. ~Holding(w) /\ ~Holding(w)'
    BY <1>2, <2>2 DEF LoopEnds, Holding
  <2>4. TypeOK'
    BY <1>2, <2>2, <2>3 DEF IInv, TypeOK, LoopEnds, Holding
  <2> QED
    BY <1>1, <1>2, <2>2, <2>3, <2>4, UnheldStep DEF LoopEnds
<1>3. CASE FindDue(w) \/ SkipRow(w)
  <2>1. PICK S \in SUBSET Rows :
            worker' = [worker EXCEPT ![w] = [IdleWorker EXCEPT !.phase = "loop", !.todo = S]]
    BY <1>1, <1>3 DEF FindDue, SkipRow, NextRow
  <2>2. /\ worker' \in [Workers -> Worker]
        /\ \A v \in Workers \ {w} : worker'[v] = worker[v]
        /\ worker'[w].phase = "loop"
    BY <1>1, <2>1 DEF Worker, IdleWorker
  <2>3. ~Holding(w) /\ ~Holding(w)'
    BY <1>3, <2>2 DEF FindDue, SkipRow, Holding
  <2>4. TypeOK'
    BY <1>3, <2>2, <2>3 DEF IInv, TypeOK, FindDue, SkipRow, Holding
  <2> QED
    BY <1>1, <1>3, <2>2, <2>3, <2>4, UnheldStep DEF FindDue, SkipRow
<1> QED
  BY <1>2, <1>3

\* claim takes a row that nobody holds: what was due is not PROCESSING.
LEMMA ClaimIInv ==
    ASSUME IInv, NEW w \in Workers, Claim(w)
    PROVE  IInv'
<1>1. PICK d \in Rows : d = Current(w) /\ d \in worker[w].todo
  BY CurrentIsRow DEF IInv, Claim
<1> DEFINE n == row[d].attemptCount + 1
           c == row[d].content
<1>2. /\ row \in [Rows -> Row] /\ worker \in [Workers -> Worker]
      /\ accepted \in [Rows -> Nat] /\ faults \in Nat
  BY DEF IInv, TypeOK
<1>3. row[d] \in Row /\ c \in BOOLEAN /\ n \in Nat
  BY <1>1, <1>2 DEF Row
<1>4. /\ row' = [row EXCEPT ![d] = [row[d] EXCEPT !.status = "PROCESSING", !.elapsed = FALSE,
                                                  !.attemptCount = n]]
      /\ worker' = [worker EXCEPT ![w] =
                        [worker[w] EXCEPT !.phase = "sending", !.attempt = n,
                                          !.content = c]]
      /\ UNCHANGED <<accepted, subscribed, faults>>
  BY <1>1, Zenon DEF Claim, SetRow
<1>5. row[d].status \in {"QUEUED", "RETRY_SCHEDULED"} /\ ~Holding(w)
  BY <1>1 DEF Claim, Claimable, Due, Holding
<1>6. \A v \in Workers : Holding(v) => Current(v) # d
  BY <1>5 DEF IInv, HoldersOK, HolderOK
<1>7. RowOK(d) /\ row[d].attemptCount <= Retries + faults /\ n <= Retries + 1 + faults
  BY <1>2, <1>3, <1>5 DEF IInv, RowOK, Budget, Row
<1> HIDE DEF n, c
<1>8. /\ worker' \in [Workers -> Worker]
      /\ \A v \in Workers \ {w} : worker'[v] = worker[v]
      /\ worker'[w].phase = "sending"
      /\ worker'[w].todo = worker[w].todo
      /\ worker'[w].attempt = n
  <2>1. PICK new : new = [worker[w] EXCEPT !.phase = "sending", !.attempt = n, !.content = c]
    OBVIOUS
  <2>2. /\ new \in Worker
        /\ new.phase = "sending" /\ new.todo = worker[w].todo /\ new.attempt = n
    <3>1. worker[w] \in Worker
      BY <1>2
    <3> QED
      BY <1>3, <2>1, <3>1 DEF Worker
  <2>3. worker' = [worker EXCEPT ![w] = new]
    BY <1>4, <2>1, Zenon
  <2> QED
    BY <1>2, <2>2, <2>3
<1>9. /\ row' \in [Rows -> Row]
      /\ \A e \in Rows \ {d} : row'[e] = row[e]
      /\ row'[d].status = "PROCESSING"
      /\ ~row'[d].elapsed
      /\ row'[d].content = row[d].content
      /\ row'[d].attemptCount = n
  BY <1>1, <1>2, <1>3, <1>4 DEF Row, Status, c
<1>10. /\ Holding(w)' /\ Current(w)' = d /\ Current(w)' \in worker'[w].todo
       /\ \A v \in Workers \ {w} : Holding(v)' = Holding(v) /\ Current(v)' = Current(v)
  BY <1>1, <1>8 DEF Holding, Current
<1>11. TypeOK'
  BY <1>1, <1>2, <1>4, <1>8, <1>9, <1>10 DEF IInv, TypeOK, Holding
<1>12. HolderOK(w)'
  BY <1>8, <1>9, <1>10 DEF HolderOK
<1>13. Held(d)' /\ ~Handed(d)
  BY <1>6, <1>10 DEF Held, Handed, Holding
<1>14. RowOK(d)'
  BY <1>2, <1>4, <1>5, <1>7, <1>9, <1>13 DEF RowOK, Budget
<1> QED
  BY <1>2, <1>4, <1>5, <1>6, <1>8, <1>9, <1>10, <1>11, <1>12, <1>14, RowStep

LEMMA ThrowWorker ==
    ASSUME worker \in [Workers -> Worker], NEW w \in Workers,
           NEW t \in BOOLEAN, Throw(w, t)
    PROVE  /\ worker' \in [Workers -> Worker]
           /\ \A v \in Workers \ {w} : worker'[v] = worker[v]
           /\ worker'[w].phase = "failed"
           /\ worker'[w].todo = worker[w].todo
           /\ worker'[w].attempt = worker[w].attempt
  BY DEF Throw, Worker

\* An error, whatever its cause: the message may have been taken or not.
LEMMA ErrorActions ==
    ASSUME IInv, NEW w \in Workers,
           \/ ContentMissing(w) \/ TargetInvalid(w)
           \/ \E t \in BOOLEAN : ProviderRejects(w, t)
    PROVE  IInv'
<1>1. Holding(w) /\ worker[w].phase = "sending"
  BY DEF ContentMissing, TargetInvalid, ProviderRejects, Holding
<1>2. PICK d \in Rows : d = Current(w)
  BY <1>1, HeldRow
<1>3. PICK t \in BOOLEAN : Throw(w, t)
  BY DEF ContentMissing, TargetInvalid, ProviderRejects
<1>4. /\ subscribed' \in BOOLEAN /\ row' = row /\ accepted' = accepted
      /\ faults' = faults
  BY DEF IInv, TypeOK, ContentMissing, TargetInvalid, ProviderRejects
<1>5. /\ worker \in [Workers -> Worker] /\ row \in [Rows -> Row]
      /\ accepted \in [Rows -> Nat] /\ faults \in 0..MaxFaults
  BY DEF IInv, TypeOK
<1>6. /\ worker' \in [Workers -> Worker]
      /\ \A v \in Workers \ {w} : worker'[v] = worker[v]
      /\ worker'[w].phase = "failed"
      /\ worker'[w].todo = worker[w].todo
      /\ worker'[w].attempt = worker[w].attempt
  BY <1>3, <1>5, ThrowWorker
<1>7. /\ HolderOK(w) /\ RowOK(d)
      /\ \A v \in Workers \ {w} : Holding(v) => Current(v) # d
  BY <1>1, <1>2, HeldRow
<1>8. row[d].status = "PROCESSING" /\ ~row[d].elapsed
  BY <1>1, <1>2, <1>7 DEF HolderOK
<1>9. ~Handed(d)
  BY <1>1, <1>7 DEF Handed, Holding
<1>10. accepted[d] \in Nat /\ faults \in Nat
  BY <1>5
<1>11. accepted[d] <= faults /\ accepted[d] <= 1 + faults
  BY <1>7, <1>8, <1>9, <1>10 DEF RowOK, Budget
<1>12. ~row[d].content => d \in Emails /\ accepted[d] > 0
  BY <1>7 DEF RowOK
<1> QED
  BY <1>1, <1>2, <1>4, <1>5, <1>6, <1>8, <1>10, <1>11, <1>12, SendingStep

\* The provider takes the message, and the worker learns of it or not.
LEMMA TakenActions ==
    ASSUME IInv, NEW w \in Workers,
           ProviderAccepts(w) \/ \E t \in BOOLEAN : ProviderAnswerLost(w, t)
    PROVE  IInv'
<1>1. Holding(w) /\ worker[w].phase = "sending"
  BY DEF ProviderAccepts, ProviderAnswerLost, Holding
<1>2. PICK d \in Rows : d = Current(w)
  BY <1>1, HeldRow
<1>5. /\ worker \in [Workers -> Worker] /\ row \in [Rows -> Row]
      /\ accepted \in [Rows -> Nat] /\ faults \in 0..MaxFaults /\ faults \in Nat
      /\ subscribed \in BOOLEAN
  BY DEF IInv, TypeOK
<1>3. /\ accepted' = [accepted EXCEPT ![d] = IF d \in Emails THEN 1 ELSE @ + 1]
      /\ row' = row /\ subscribed' = subscribed
  BY <1>2 DEF ProviderAccepts, ProviderAnswerLost, TakeMessage
<1>6. /\ worker' \in [Workers -> Worker]
      /\ \A v \in Workers \ {w} : worker'[v] = worker[v]
      /\ worker'[w].todo = worker[w].todo
      /\ worker'[w].attempt = worker[w].attempt
      /\ faults' \in 0..MaxFaults
      /\ \/ worker'[w].phase = "accepted" /\ faults' = faults
         \/ worker'[w].phase = "failed" /\ faults' = faults + 1
  <2>1. CASE ProviderAccepts(w)
    BY <1>5, <2>1 DEF ProviderAccepts, Goto, Worker
  <2>2. ASSUME NEW t \in BOOLEAN, ProviderAnswerLost(w, t)
                 PROVE /\ worker' \in [Workers -> Worker]
                       /\ \A v \in Workers \ {w} : worker'[v] = worker[v]
                       /\ worker'[w].todo = worker[w].todo
                       /\ worker'[w].attempt = worker[w].attempt
                       /\ faults' \in 0..MaxFaults
                       /\ worker'[w].phase = "failed" /\ faults' = faults + 1
    <3>1. Throw(w, t) /\ faults' = faults + 1 /\ faults' \in 0..MaxFaults
      BY <1>5, <2>2 DEF ProviderAnswerLost, Fault
    <3> QED
      BY <1>5, <3>1, ThrowWorker
  <2> QED
    BY <2>1, <2>2
<1>7. /\ HolderOK(w) /\ RowOK(d)
      /\ \A v \in Workers \ {w} : Holding(v) => Current(v) # d
  BY <1>1, <1>2, HeldRow
<1>8. row[d].status = "PROCESSING" /\ ~row[d].elapsed
  BY <1>1, <1>2, <1>7 DEF HolderOK
<1>9. ~Handed(d)
  BY <1>1, <1>7 DEF Handed, Holding
<1>10. accepted[d] \in Nat
  BY <1>5
<1>11. accepted[d] <= faults
  BY <1>5, <1>7, <1>8, <1>9, <1>10 DEF RowOK, Budget
<1>12. ~row[d].content => d \in Emails
  BY <1>7 DEF RowOK
<1>13. /\ accepted' \in [Rows -> Nat]
       /\ \A e \in Rows \ {d} : accepted'[e] = accepted[e]
       /\ accepted'[d] = IF d \in Emails THEN 1 ELSE accepted[d] + 1
  BY <1>3, <1>5, <1>10
<1>14. accepted'[d] > 0 /\ accepted'[d] <= 1 + faults
  BY <1>5, <1>10, <1>11, <1>13
<1>15. /\ faults' >= faults
       /\ worker'[w].phase \in {"accepted", "failed"}
       /\ worker'[w].phase = "failed" => accepted'[d] <= faults'
       /\ worker' \in [Workers -> Worker]
       /\ \A v \in Workers \ {w} : worker'[v] = worker[v]
       /\ worker'[w].todo = worker[w].todo
       /\ worker'[w].attempt = worker[w].attempt
       /\ faults' \in 0..MaxFaults
  BY <1>5, <1>6, <1>14
<1>16. row' \in [Rows -> Row] /\ subscribed' \in BOOLEAN
  BY <1>3, <1>5
<1>17. /\ row'[d].status = "PROCESSING" /\ ~row'[d].elapsed
       /\ row'[d].attemptCount = row[d].attemptCount
       /\ ~row'[d].content => d \in Emails /\ accepted'[d] > 0
       /\ \A e \in Rows \ {d} : row'[e] = row[e] /\ accepted'[e] = accepted[e]
  BY <1>3, <1>8, <1>12, <1>13, <1>14
<1>18. accepted' \in [Rows -> Nat]
  BY <1>13
<1> QED
  BY <1>1, <1>2, <1>14, <1>15, <1>16, <1>17, <1>18, SendingStep

LEMMA NextRowWorker ==
    ASSUME worker \in [Workers -> Worker], NEW w \in Workers, NextRow(w)
    PROVE  /\ worker' \in [Workers -> Worker]
           /\ \A v \in Workers \ {w} : worker'[v] = worker[v]
           /\ ~Holding(w)'
<1>1. worker[w].todo \in SUBSET Rows
  BY DEF Worker
<1>2. PICK S \in SUBSET Rows :
          worker' = [worker EXCEPT ![w] = [IdleWorker EXCEPT !.phase = "loop", !.todo = S]]
  BY <1>1 DEF NextRow
<1> QED
  BY <1>2 DEF Worker, IdleWorker, Holding

LEMMA SentRow ==
    ASSUME row \in [Rows -> Row], NEW d \in Rows, NEW c \in BOOLEAN,
           row' = [row EXCEPT ![d] = [row[d] EXCEPT !.status = "SENT", !.elapsed = FALSE,
                                                    !.content = c]]
    PROVE  /\ row' \in [Rows -> Row]
           /\ \A e \in Rows \ {d} : row'[e] = row[e]
           /\ row'[d].status = "SENT"
           /\ ~row'[d].elapsed
           /\ row'[d].attemptCount = row[d].attemptCount
           /\ row'[d].content = c
  BY DEF Row, Status

\* What complete writes: the row is SENT, and an email loses its content.
LEMMA CompletedRow ==
    ASSUME row \in [Rows -> Row], NEW d \in Rows, row' = [row EXCEPT ![d] = Completed(d)]
    PROVE  /\ row' \in [Rows -> Row]
           /\ \A e \in Rows \ {d} : row'[e] = row[e]
           /\ row'[d].status = "SENT"
           /\ ~row'[d].elapsed
           /\ row'[d].attemptCount = row[d].attemptCount
           /\ ~row'[d].content => d \in Emails \/ ~row[d].content
           /\ d \in Emails => ~row'[d].content
<1>1. PICK c \in BOOLEAN : c = (row[d].content /\ d \notin Emails)
  OBVIOUS
<1>2. row' = [row EXCEPT ![d] = [row[d] EXCEPT !.status = "SENT", !.elapsed = FALSE,
                                                !.content = c]]
  BY <1>1, Zenon DEF Completed
<1>3. row[d].content \in BOOLEAN
  BY DEF Row
<1>4. (~c => d \in Emails \/ ~row[d].content) /\ (d \in Emails => ~c)
  BY <1>1, <1>3
<1> QED
  BY <1>2, <1>4, SentRow, Zenon

\* What fail writes, the last word on the row or another attempt.
LEMMA FailedRow ==
    ASSUME row \in [Rows -> Row], NEW d \in Rows, NEW s \in Status,
           row' = [row EXCEPT ![d] = [row[d] EXCEPT !.elapsed = FALSE, !.status = s]]
    PROVE  /\ row' \in [Rows -> Row]
           /\ \A e \in Rows \ {d} : row'[e] = row[e]
           /\ row'[d].status = s
           /\ row'[d].attemptCount = row[d].attemptCount
           /\ row'[d].content = row[d].content
  BY DEF Row

LEMMA CompleteIInv ==
    ASSUME IInv, NEW w \in Workers, Complete(w)
    PROVE  IInv'
<1>1. Holding(w) /\ worker[w].phase = "accepted"
  BY DEF Complete, Holding
<1>2. PICK d \in Rows : d = Current(w)
  BY <1>1, HeldRow
<1>3. /\ worker \in [Workers -> Worker] /\ row \in [Rows -> Row]
      /\ faults \in 0..MaxFaults /\ faults \in Nat /\ subscribed \in BOOLEAN
  BY DEF IInv, TypeOK
<1>4. /\ row' = [row EXCEPT ![d] = Completed(d)]
      /\ NextRow(w)
      /\ UNCHANGED <<accepted, subscribed, faults>>
  BY <1>2 DEF Complete, SetRow
<1>5. HolderOK(w) /\ RowOK(d)
  BY <1>1, <1>2, HeldRow
<1>6. accepted[d] > 0
  BY <1>1, <1>2, <1>5 DEF HolderOK
<1>7. /\ worker' \in [Workers -> Worker]
      /\ \A v \in Workers \ {w} : worker'[v] = worker[v]
      /\ ~Holding(w)'
  BY <1>3, <1>4, NextRowWorker
<1>8. /\ row' \in [Rows -> Row]
      /\ \A e \in Rows \ {d} : row'[e] = row[e]
      /\ row'[d].status = "SENT"
      /\ row'[d].attemptCount = row[d].attemptCount
      /\ ~row'[d].content => d \in Emails \/ ~row[d].content
      /\ d \in Emails => ~row'[d].content
  BY <1>3, <1>4, CompletedRow
<1>9. ~row'[d].content => d \in Emails /\ accepted[d] > 0
  BY <1>5, <1>6, <1>8 DEF RowOK
<1>10. faults' >= faults /\ faults' \in 0..MaxFaults /\ subscribed' \in BOOLEAN
  BY <1>3, <1>4
<1> QED
  BY <1>1, <1>2, <1>4, <1>7, <1>8, <1>9, <1>10, ReleaseStep

\* complete throws, before or after its UPDATE took effect.
LEMMA CompleteThrowsIInv ==
    ASSUME IInv, NEW w \in Workers, CompleteThrows(w)
    PROVE  IInv'
<1>1. Holding(w) /\ worker[w].phase = "accepted"
  BY DEF CompleteThrows, Holding
<1>2. PICK d \in Rows : d = Current(w)
  BY <1>1, HeldRow
<1>3. /\ worker \in [Workers -> Worker] /\ row \in [Rows -> Row]
      /\ accepted \in [Rows -> Nat]
      /\ faults \in 0..MaxFaults /\ faults \in Nat /\ subscribed \in BOOLEAN
  BY DEF IInv, TypeOK
<1>4. /\ row' = row \/ row' = [row EXCEPT ![d] = Completed(d)]
      /\ Throw(w, TRUE)
      /\ accepted' = accepted /\ subscribed' = subscribed
      /\ faults < MaxFaults /\ faults' = faults + 1
  BY <1>2 DEF CompleteThrows, SetRow, Fault
<1>5. HolderOK(w) /\ RowOK(d)
  BY <1>1, <1>2, HeldRow
<1>6. accepted[d] > 0 /\ row[d].status = "PROCESSING" /\ ~row[d].elapsed
  BY <1>1, <1>2, <1>5 DEF HolderOK
<1>7. /\ worker' \in [Workers -> Worker]
      /\ \A v \in Workers \ {w} : worker'[v] = worker[v]
      /\ worker'[w].phase = "failed"
      /\ worker'[w].todo = worker[w].todo
      /\ worker'[w].attempt = worker[w].attempt
  BY <1>3, <1>4, ThrowWorker
<1>8. /\ row' \in [Rows -> Row]
      /\ \A e \in Rows \ {d} : row'[e] = row[e]
      /\ row'[d].status \in {"PROCESSING", "SENT"}
      /\ ~row'[d].elapsed
      /\ row'[d].attemptCount = row[d].attemptCount
      /\ ~row'[d].content => d \in Emails \/ ~row[d].content
      /\ row'[d].status = "SENT" /\ d \in Emails => ~row'[d].content
  BY <1>3, <1>4, <1>6, CompletedRow
<1>9. ~row'[d].content => d \in Emails /\ accepted'[d] > 0
  BY <1>4, <1>5, <1>6, <1>8 DEF RowOK
<1>10. /\ faults' >= faults /\ faults' \in 0..MaxFaults /\ subscribed' \in BOOLEAN
       /\ accepted' \in [Rows -> Nat]
       /\ accepted'[d] <= 1 + faults /\ accepted'[d] <= faults'
  BY <1>3, <1>4, <1>5 DEF RowOK
<1>11. accepted'[d] > 0 /\ \A e \in Rows \ {d} : accepted'[e] = accepted[e]
  BY <1>4, <1>6
<1> QED
  BY <1>1, <1>2, <1>7, <1>8, <1>9, <1>10, <1>11, SendingStep

\* decideRetry leaves an attempt, or the row is given up.
LEMMA FailIInv ==
    ASSUME IInv, NEW w \in Workers, Fail(w)
    PROVE  IInv'
<1> DEFINE retry == decideRetry(worker[w].attempt, worker[w].transient)
           s == IF retry THEN "RETRY_SCHEDULED" ELSE "FAILED"
<1>1. Holding(w) /\ worker[w].phase = "failed"
  BY DEF Fail, Holding
<1>2. PICK d \in Rows : d = Current(w)
  BY <1>1, HeldRow
<1>3. /\ worker \in [Workers -> Worker] /\ row \in [Rows -> Row]
      /\ accepted \in [Rows -> Nat]
      /\ faults \in 0..MaxFaults /\ faults \in Nat /\ subscribed \in BOOLEAN
  BY DEF IInv, TypeOK
<1>4. /\ row' = [row EXCEPT ![d] = [row[d] EXCEPT !.elapsed = FALSE, !.status = s]]
      /\ NextRow(w)
      /\ UNCHANGED <<accepted, subscribed, faults>>
  BY <1>2, Zenon DEF Fail, SetRow
<1>5. /\ HolderOK(w) /\ RowOK(d)
      /\ \A v \in Workers \ {w} : Holding(v) => Current(v) # d
  BY <1>1, <1>2, HeldRow
<1>6. s \in {"RETRY_SCHEDULED", "FAILED"} /\ s \in Status
  BY DEF Status
<1>7. s = "RETRY_SCHEDULED" => row[d].attemptCount <= Retries + faults
  <2>1. worker[w].attempt = row[d].attemptCount /\ row[d].attemptCount \in Nat
    BY <1>2, <1>3, <1>5 DEF HolderOK, Row
  <2> QED
    BY <1>3, <2>1 DEF decideRetry
<1> HIDE DEF s
<1>8. /\ worker' \in [Workers -> Worker]
      /\ \A v \in Workers \ {w} : worker'[v] = worker[v]
      /\ ~Holding(w)'
  BY <1>3, <1>4, NextRowWorker
<1>9. /\ row' \in [Rows -> Row]
      /\ \A e \in Rows \ {d} : row'[e] = row[e]
      /\ row'[d].status = s
      /\ row'[d].attemptCount = row[d].attemptCount
      /\ row'[d].content = row[d].content
  BY <1>3, <1>4, <1>6, FailedRow
<1>10. accepted[d] <= faults
  <2>1. Held(d) /\ ~Handed(d)
    BY <1>1, <1>2, <1>5 DEF Held, Handed, Holding
  <2> QED
    BY <2>1, <1>5 DEF RowOK, Budget
<1>11. /\ faults' >= faults /\ faults' \in 0..MaxFaults /\ subscribed' \in BOOLEAN
       /\ accepted' = accepted /\ faults' = faults
  BY <1>3, <1>4
<1>12. ~row'[d].content => d \in Emails /\ accepted[d] > 0
  BY <1>5, <1>9 DEF RowOK
<1>13. /\ row'[d].status # "SENT"
       /\ \/ row'[d].status \in {"SENT", "FAILED"}
          \/ row[d].attemptCount <= Retries + faults'
       /\ accepted[d] <= faults'
  BY <1>6, <1>7, <1>9, <1>10, <1>11
<1> QED
  BY <1>1, <1>2, <1>8, <1>9, <1>11, <1>12, <1>13, ReleaseStep

\* A worker that dies with a row pays for the attempt with its fault.
LEMMA AbandonIInv ==
    ASSUME IInv, NEW w \in Workers, Abandon(w)
    PROVE  IInv'
<1>1. /\ worker \in [Workers -> Worker] /\ row \in [Rows -> Row]
      /\ accepted \in [Rows -> Nat]
      /\ faults \in 0..MaxFaults /\ faults \in Nat /\ subscribed \in BOOLEAN
  BY DEF IInv, TypeOK
<1>2. /\ worker' = [worker EXCEPT ![w] = IdleWorker]
      /\ row' = row /\ accepted' = accepted /\ subscribed' = subscribed
      /\ faults' = faults + 1 /\ faults' \in 0..MaxFaults /\ faults' >= faults
  BY <1>1 DEF Abandon, Fault
<1>3. /\ worker' \in [Workers -> Worker]
      /\ \A v \in Workers \ {w} : worker'[v] = worker[v]
      /\ ~Holding(w)'
  BY <1>1, <1>2 DEF Worker, IdleWorker, Holding
<1>4. CASE ~Holding(w)
  <2>1. TypeOK'
    BY <1>1, <1>2, <1>3 DEF IInv, TypeOK, Holding
  <2> QED
    BY <1>2, <1>3, <1>4, <2>1, UnheldStep
<1>5. CASE Holding(w)
  <2>1. PICK d \in Rows : d = Current(w)
    BY <1>5, HeldRow
  <2>2. RowOK(d) /\ HolderOK(w) /\ row[d].attemptCount \in Nat /\ accepted[d] \in Nat
    BY <1>1, <1>5, <2>1, HeldRow DEF Row
  <2>3. row[d].attemptCount <= Retries + faults' /\ accepted[d] <= faults'
    BY <1>1, <1>2, <2>2 DEF RowOK
  <2>4. /\ ~row'[d].content => d \in Emails /\ accepted[d] > 0
        /\ row'[d].status = "SENT" /\ d \in Emails => ~row'[d].content
    BY <1>2, <2>2 DEF RowOK
  <2>5. row' \in [Rows -> Row] /\ subscribed' \in BOOLEAN
    BY <1>1, <1>2
  <2> QED
    BY <1>2, <1>3, <1>5, <2>1, <2>3, <2>4, <2>5, ReleaseStep
<1> QED
  BY <1>4, <1>5

-----------------------------------------------------------------------------
(* Steps on rows that nobody holds *)

\* requeueStale takes no row from a worker: the row it holds is not stale.
LEMMA RequeueStaleIInv ==
    ASSUME IInv, NEW w \in Workers, RequeueStale(w)
    PROVE  IInv'
<1>1. PICK D \in SUBSET Rows :
          \A d \in Rows : d \in D <=> row[d].status = "PROCESSING" /\ row[d].elapsed
  <2> DEFINE S == {d \in Rows : row[d].status = "PROCESSING" /\ row[d].elapsed}
  <2> WITNESS S \in SUBSET Rows
  <2> QED
    OBVIOUS
<1>2. /\ worker \in [Workers -> Worker] /\ row \in [Rows -> Row]
      /\ accepted \in [Rows -> Nat]
      /\ faults \in 0..MaxFaults /\ faults \in Nat /\ subscribed \in BOOLEAN
  BY DEF IInv, TypeOK
<1>3. /\ worker' = [worker EXCEPT ![w].phase = "requeued"]
      /\ row' = [d \in Rows |-> Requeued(d)]
      /\ UNCHANGED <<accepted, subscribed, faults>>
  BY DEF RequeueStale, Goto
<1>4. /\ worker' \in [Workers -> Worker]
      /\ \A v \in Workers \ {w} : worker'[v] = worker[v]
      /\ ~Holding(w) /\ ~Holding(w)'
  <2>1. /\ worker' \in [Workers -> Worker]
        /\ \A v \in Workers \ {w} : worker'[v] = worker[v]
        /\ worker'[w].phase = "requeued"
    BY <1>2, <1>3 DEF Worker
  <2>2. worker[w].phase = "idle"
    BY DEF RequeueStale
  <2> QED
    BY <2>1, <2>2 DEF Holding
<1>5. \A d \in D : row'[d] = [row[d] EXCEPT !.status = "QUEUED", !.elapsed = FALSE]
  BY <1>1, <1>3, Zenon DEF Requeued
<1>6. \A d \in D : /\ row'[d] \in Row
                   /\ row'[d].status = "QUEUED"
                   /\ row'[d].attemptCount = row[d].attemptCount
                   /\ row'[d].content = row[d].content
  <2> SUFFICES ASSUME NEW d \in D
               PROVE  /\ row'[d] \in Row
                      /\ row'[d].status = "QUEUED"
                      /\ row'[d].attemptCount = row[d].attemptCount
                      /\ row'[d].content = row[d].content
    OBVIOUS
  <2>1. row[d] \in Row
    BY <1>2
  <2>2. row'[d] = [row[d] EXCEPT !.status = "QUEUED", !.elapsed = FALSE]
    BY <1>5
  <2> QED
    BY <2>1, <2>2 DEF Row, Status
<1>7. \A e \in Rows \ D : row'[e] = row[e]
  BY <1>1, <1>3, Zenon DEF Requeued
<1>8. row' \in [Rows -> Row]
  <2>1. \A d \in Rows : row'[d] \in Row
    BY <1>2, <1>6, <1>7
  <2>2. \A d \in Rows : row'[d] = Requeued(d)
    BY <1>3
  <2> QED
    BY <1>3, <2>1, <2>2
<1>9. \A v \in Workers : Holding(v) => Current(v) \notin D
  BY <1>1 DEF IInv, HoldersOK, HolderOK
<1>10. TypeOK'
  BY <1>2, <1>3, <1>4, <1>8 DEF IInv, TypeOK, Holding
<1>11. ASSUME NEW d \in D PROVE RowOK(d)'
  <2>1. ~Held(d) /\ ~Handed(d)
    BY <1>9 DEF Held, Handed, Holding
  <2>2. RowOK(d) /\ row[d].status = "PROCESSING"
    BY <1>1 DEF IInv
  <2> QED
    BY <1>2, <1>3, <1>6, <2>1, <2>2 DEF RowOK, Budget
<1> DEFINE W == {w}
<1>12. /\ \A u, v \in W : u = v
       /\ \A v \in Workers \ W : worker'[v] = worker[v]
                                   /\ (Holding(v) => Current(v) \notin D)
       /\ \A v \in W : ~Holding(v) /\ ~Holding(v)'
       /\ \A e \in Rows \ D : row'[e] = row[e] /\ accepted'[e] = accepted[e]
       /\ faults' >= faults /\ W \in SUBSET Workers
  BY <1>2, <1>3, <1>4, <1>7, <1>9
<1> HIDE DEF W
<1> QED
  BY <1>10, <1>11, <1>12, LocalStep

\* A row is written, or its time comes, while no worker holds it.
LEMMA FreeRowStep ==
    ASSUME IInv, NEW d \in Rows, \A v \in Workers : Holding(v) => Current(v) # d,
           row[d].status # "SENT",
           row' \in [Rows -> Row], \A e \in Rows \ {d} : row'[e] = row[e],
           row'[d].attemptCount = row[d].attemptCount,
           row'[d].content = row[d].content,
           row[d].status = row'[d].status
             \/ (row[d].status = "NONE" /\ row'[d].status = "QUEUED"),
           UNCHANGED <<worker, accepted, subscribed, faults>>
    PROVE  IInv'
<1>1. \A v \in Workers : Holding(v)' = Holding(v) /\ Current(v)' = Current(v)
  BY DEF Holding, Current
<1>2. TypeOK'
  BY <1>1 DEF IInv, TypeOK
<1>3. ~Held(d) /\ ~Handed(d) /\ RowOK(d) /\ faults \in Nat
  BY DEF Held, Handed, Holding, IInv, TypeOK
<1>4. RowOK(d)'
  BY <1>3 DEF RowOK, Budget
<1> DEFINE W == {}
           D == {d}
<1>5. /\ \A u, v \in W : u = v
      /\ \A v \in Workers \ W : worker'[v] = worker[v]
                                  /\ (Holding(v) => Current(v) \notin D)
      /\ \A v \in W : ~Holding(v) /\ ~Holding(v)'
      /\ \A e \in Rows \ D : row'[e] = row[e] /\ accepted'[e] = accepted[e]
      /\ \A e \in D : RowOK(e)'
      /\ faults' >= faults /\ W \in SUBSET Workers /\ D \in SUBSET Rows
  BY <1>3, <1>4
<1> HIDE DEF W, D
<1> QED
  BY <1>2, <1>5, LocalStep

LEMMA RowActions ==
    ASSUME IInv, ~SlowSends, NEW d \in Rows, Enqueue(d) \/ Elapse(d)
    PROVE  IInv'
<1>1. row \in [Rows -> Row]
  BY DEF IInv, TypeOK
<1>2. CASE Enqueue(d)
  <2>1. row' = [row EXCEPT ![d] = [row[d] EXCEPT !.status = "QUEUED"]]
    BY <1>2 DEF Enqueue, SetRow
  <2>2. /\ row' \in [Rows -> Row] /\ \A e \in Rows \ {d} : row'[e] = row[e]
        /\ row'[d].attemptCount = row[d].attemptCount
        /\ row'[d].content = row[d].content
        /\ row'[d].status = "QUEUED"
    BY <1>1, <2>1 DEF Row, Status
  <2>3. \A v \in Workers : Holding(v) => Current(v) # d
    BY <1>2 DEF IInv, HoldersOK, HolderOK, Enqueue
  <2> QED
    BY <1>2, <2>2, <2>3, FreeRowStep DEF Enqueue
<1>3. CASE Elapse(d)
  <2>1. row' = [row EXCEPT ![d] = [row[d] EXCEPT !.elapsed = TRUE]]
    BY <1>3 DEF Elapse, SetRow
  <2>2. /\ row' \in [Rows -> Row] /\ \A e \in Rows \ {d} : row'[e] = row[e]
        /\ row'[d].attemptCount = row[d].attemptCount
        /\ row'[d].content = row[d].content
        /\ row'[d].status = row[d].status
    BY <1>1, <2>1 DEF Row, Status
  <2>3. \A v \in Workers : Holding(v) => Current(v) # d
    BY <1>3 DEF Elapse
  <2> QED
    BY <1>3, <2>2, <2>3, FreeRowStep DEF Elapse
<1> QED
  BY <1>2, <1>3

-----------------------------------------------------------------------------
(* The invariant *)

LEMMA InitIInv == Init => IInv
<1> SUFFICES ASSUME Init PROVE IInv
  OBVIOUS
<1>1. \A w \in Workers : ~Holding(w)
  BY DEF Init, Holding, IdleWorker
<1>2. TypeOK
  BY <1>1 DEF Init, TypeOK, Row, Status, Worker, IdleWorker
<1>3. \A d \in Rows : RowOK(d)
  BY DEF Init, RowOK, Budget
<1> QED
  BY <1>1, <1>2, <1>3 DEF IInv, OneSenderPerDelivery, HoldersOK

LEMMA NextIInv ==
    ASSUME IInv, ~SlowSends, [Next]_vars
    PROVE  IInv'
<1>1. ASSUME NEW w \in Workers, Step(w) \/ Failure(w)
      PROVE  IInv'
  BY <1>1, UnheldActions, ClaimIInv, ErrorActions, TakenActions, CompleteIInv,
     CompleteThrowsIInv, FailIInv, AbandonIInv, RequeueStaleIInv DEF Step, Failure
<1>2. ASSUME NEW d \in Rows, Enqueue(d) \/ Elapse(d)
      PROVE  IInv'
  BY <1>2, RowActions
<1>3. CASE RegisterWebPush \/ RemoveWebPush \/ UNCHANGED vars
  <2>1. UNCHANGED <<row, worker, accepted, faults>> /\ subscribed' \in BOOLEAN
    BY <1>3 DEF RegisterWebPush, RemoveWebPush, vars, IInv, TypeOK
  <2>2. \A v \in Workers : Holding(v)' = Holding(v) /\ Current(v)' = Current(v)
    BY <2>1 DEF Holding, Current
  <2>3. TypeOK' /\ OneSenderPerDelivery'
    BY <2>1, <2>2 DEF IInv, TypeOK, OneSenderPerDelivery
  <2>4. HoldersOK'
    BY <2>1, <2>2 DEF IInv, HoldersOK, HolderOK
  <2>5. ASSUME NEW d \in Rows PROVE RowOK(d)'
    <3>1. (Held(d)' <=> Held(d)) /\ (Handed(d)' <=> Handed(d))
      BY <2>1, <2>2 DEF Held, Handed
    <3> QED
      BY <2>1, <3>1 DEF IInv, RowOK, Budget
  <2> QED
    BY <2>3, <2>4, <2>5 DEF IInv
<1> QED
  BY <1>1, <1>2, <1>3 DEF Next

\* The inductive invariant of the pollers holds in every execution in which no
\* send outlasts the sweep for stale rows: each worker holds the rows that it
\* claimed, and each row has kept within its budget of attempts and messages.
THEOREM Invariance ==
    ASSUME ~SlowSends
    PROVE  Spec => []IInv
<1>1. Init => IInv
  BY InitIInv
<1>2. IInv /\ [Next]_vars => IInv'
  BY NextIInv
<1> QED
  BY <1>1, <1>2, PTL DEF Spec

\* No two instances of the service hold the same row, and each keeps the row it
\* claimed at the head of its list until it has written it back: claim's WHERE
\* clause suffices for any number of pollers.
THEOREM SendersAreAlone ==
    ASSUME ~SlowSends
    PROVE  Spec => []WorkersHoldTheirRows
<1>1. IInv => WorkersHoldTheirRows
  BY DEF IInv, WorkersHoldTheirRows
<1> QED
  BY <1>1, Invariance, PTL

\* Whatever Retries is, decideRetry and requeueStale try a row Retries + 1 times
\* and once more for each fault, the provider takes a message once and once more
\* for each fault, and a message it took is FAILED only after a fault.
THEOREM FaultsPayForRepeats ==
    ASSUME ~SlowSends
    PROVE  Spec => []SendsAreBounded
<1>1. IInv => SendsAreBounded
  <2> SUFFICES ASSUME IInv PROVE SendsAreBounded
    OBVIOUS
  <2>1. AttemptsAreBounded /\ DuplicatesNeedFaults
    BY DEF IInv, RowOK, AttemptsAreBounded, DuplicatesNeedFaults
  <2>2. ASSUME NEW d \in Rows, accepted[d] > 0, row[d].status = "FAILED"
        PROVE  faults > 0
    <3>1. ~Handed(d)
      BY <2>2 DEF Handed, Holding, IInv, HoldersOK, HolderOK
    <3>2. accepted[d] <= faults /\ accepted[d] \in Nat /\ faults \in Nat
      BY <2>2, <3>1 DEF IInv, RowOK, Budget, TypeOK
    <3> QED
      BY <2>2, <3>2
  <2> QED
    BY <2>1, <2>2 DEF SendsAreBounded
<1> QED
  BY <1>1, Invariance, PTL

\* complete drops the content of an email only after the provider took it, so a
\* retry never finds an unsent email without content.
THEOREM ContentIsKept ==
    ASSUME ~SlowSends
    PROVE  Spec => []ContentUntilAccepted
<1>1. IInv => ContentUntilAccepted
  BY DEF IInv, RowOK, ContentUntilAccepted
<1> QED
  BY <1>1, Invariance, PTL

\* A step that gives a finished row another status is the fail of the worker
\* whose UPDATE to SENT took effect and seemed to fail.
LEMMA FinishedRows ==
    ASSUME IInv, [Next]_vars, NEW d \in Rows,
           row[d].status \in {"SENT", "FAILED"}, row'[d].status # row[d].status
    PROVE  /\ row[d].status = "SENT"
           /\ \E w \in Workers : worker[w].phase = "failed" /\ Current(w) = d
<1>1. row \in [Rows -> Row]
  BY DEF IInv, TypeOK
<1>2. ASSUME NEW w \in Workers, Holding(w), Current(w) = d
      PROVE  row[d].status = "SENT" /\ worker[w].phase = "failed"
  BY <1>2 DEF IInv, HoldersOK, HolderOK
<1>3. ASSUME NEW w \in Workers, NEW r, Holding(w), row' = [row EXCEPT ![Current(w)] = r]
      PROVE  /\ row[d].status = "SENT"
             /\ \E v \in Workers : worker[v].phase = "failed" /\ Current(v) = d
  <2>1. Current(w) = d
    BY <1>1, <1>3
  <2> QED
    BY <1>2, <1>3, <2>1
<1>4. ASSUME NEW w \in Workers, RequeueStale(w)
      PROVE  FALSE
  BY <1>4 DEF RequeueStale, Requeued
<1>5. ASSUME NEW w \in Workers, Claim(w)
      PROVE  FALSE
  <2>1. PICK r : row' = [row EXCEPT ![Current(w)] = r]
    BY <1>5 DEF Claim, SetRow
  <2>2. row[Current(w)].status \notin {"SENT", "FAILED"}
    BY <1>5 DEF Claim, Claimable, Due
  <2> QED
    BY <1>1, <2>1, <2>2
<1>6. ASSUME NEW e \in Rows, Enqueue(e) \/ Elapse(e)
      PROVE  FALSE
  <2>1. PICK r : row' = [row EXCEPT ![e] = r]
    BY <1>6 DEF Enqueue, Elapse, SetRow
  <2>2. row[e].status \notin {"SENT", "FAILED"}
    BY <1>6 DEF Enqueue, Elapse
  <2> QED
    BY <1>1, <2>1, <2>2
<1>7. ASSUME NEW w \in Workers, Complete(w) \/ CompleteThrows(w) \/ Fail(w)
      PROVE  /\ row[d].status = "SENT"
             /\ \E v \in Workers : worker[v].phase = "failed" /\ Current(v) = d
  <2>1. Holding(w)
    BY <1>7 DEF Complete, CompleteThrows, Fail, Holding
  <2>2. PICK r : row' = [row EXCEPT ![Current(w)] = r]
    BY <1>7 DEF Complete, CompleteThrows, Fail, SetRow
  <2> QED
    BY <1>3, <2>1, <2>2
<1>8. row' # row
  OBVIOUS
<1>9. ASSUME NEW w \in Workers, Step(w) \/ Failure(w)
      PROVE  /\ row[d].status = "SENT"
             /\ \E v \in Workers : worker[v].phase = "failed" /\ Current(v) = d
  BY <1>4, <1>5, <1>7, <1>8, <1>9
  DEF Step, Failure, FindDue, SkipRow, LoopEnds, ContentMissing, ProviderAccepts,
      ProviderRejects, TargetInvalid, ProviderAnswerLost, Abandon
<1> QED
  BY <1>6, <1>8, <1>9 DEF Next, vars, RegisterWebPush, RemoveWebPush

\* SENT and FAILED are final although complete and fail name only the row's id:
\* only the worker whose UPDATE to SENT seemed to fail writes such a row again.
THEOREM FinishedRowsStay ==
    ASSUME ~SlowSends
    PROVE  Spec => OutcomeIsFinal
<1>1. IInv /\ [Next]_vars =>
        [\A d \in Rows :
            row[d].status \in {"SENT", "FAILED"} /\ row'[d].status # row[d].status =>
               /\ row[d].status = "SENT"
               /\ \E w \in Workers : worker[w].phase = "failed" /\ Current(w) = d]_vars
  BY FinishedRows
<1> QED
  BY <1>1, Invariance, PTL DEF Spec, OutcomeIsFinal
=============================================================================
