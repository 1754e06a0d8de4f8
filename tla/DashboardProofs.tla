-------------------------- MODULE DashboardProofs ---------------------------
(***************************************************************************)
(* Proofs about the sections of the dashboard, and about the allocation of *)
(* a semester's points that one of them asks for.  A section runs as if it *)
(* were alone: what is proved of it holds in every behaviour of Dashboard. *)
(***************************************************************************)
EXTENDS Dashboard, SemesterAllocation, FiniteSetTheorems, WellFoundedInduction, TLAPS

-----------------------------------------------------------------------------
(* Numbers and ranks                                                       *)

\* A quotient lies between two multiples.
LEMMA DivBounds ==
    ASSUME NEW a \in Nat, NEW z \in Nat \ {0}
    PROVE  a \div z \in Nat /\ z * (a \div z) <= a /\ a < z * (a \div z) + z
  OBVIOUS

LEMMA DivUnique ==
    ASSUME NEW a \in Nat, NEW z \in Nat \ {0}, NEW q \in Nat, z * q <= a, a < z * q + z
    PROVE  a \div z = q
  OBVIOUS

LEMMA TimesMonotone ==
    ASSUME NEW a \in Nat, NEW b \in Nat, NEW z \in Nat, a <= b
    PROVE  z * a <= z * b
  OBVIOUS

LEMMA TimesPredecessor ==
    ASSUME NEW a \in Int, NEW z \in Int
    PROVE  z * (a - 1) = z * a - z
  OBVIOUS

\* A page that is not past the last one begins before the end.
LEMMA PageBegins ==
    ASSUME NEW n \in Nat, NEW z \in Nat \ {0}, NEW p \in Nat \ {0},
           p <= (n + z - 1) \div z
    PROVE  \E r \in Nat : r < n /\ r \div z = p - 1
<1> DEFINE d == (n + z - 1) \div z
           r == z * (p - 1)
<1>1. n + z - 1 \in Nat /\ p - 1 \in Nat
  OBVIOUS
<1>2. d \in Nat /\ z * d <= n + z - 1
  BY <1>1, DivBounds
<1> HIDE DEF d
<1>3. z * p <= z * d
  BY <1>2, TimesMonotone DEF d
<1>4. r = z * p - z /\ z * p \in Nat /\ z * d \in Nat
  BY <1>2, TimesPredecessor
<1>5. r < n
  BY <1>2, <1>3, <1>4
<1>6. r \in Nat
  BY <1>1
<1>7. r \div z = p - 1
  BY <1>1, <1>6, DivUnique
<1> QED
  BY <1>5, <1>6, <1>7

\* There is a first page where there is anything.
LEMMA SomePage ==
    ASSUME NEW n \in Nat \ {0}, NEW z \in Nat \ {0}
    PROVE  (n + z - 1) \div z \in Nat \ {0}
<1> DEFINE d == (n + z - 1) \div z
<1>1. n + z - 1 \in Nat /\ z <= n + z - 1
  OBVIOUS
<1>2. d \in Nat /\ n + z - 1 < z * d + z
  BY <1>1, DivBounds
<1> HIDE DEF d
<1>3. d # 0
  BY <1>1, <1>2
<1> QED
  BY <1>2, <1>3 DEF d

\* A set of numbers that is not empty has a least one.
LEMMA LeastNumber ==
    ASSUME NEW S \in SUBSET Nat, S # {}
    PROVE  \E m \in S : \A k \in S : m <= k
<1> DEFINE L == OpToRel(<, Nat)
<1>1. \A a, b \in Nat : <<a, b>> \in L <=> a < b
  BY Zenon DEF OpToRel
<1>2. IsWellFoundedOn(L, Nat)
  BY NatLessThanWellFounded
<1> HIDE DEF L
<1>3. PICK m \in S : \A k \in S : <<k, m>> \notin L
  BY <1>2, WFMin
<1>4. \A k \in S : m <= k
  <2> SUFFICES ASSUME NEW k \in S PROVE m <= k
    OBVIOUS
  <2>1. m \in Nat /\ k \in Nat
    OBVIOUS
  <2>2. ~(k < m)
    BY <1>1, <1>3, <2>1
  <2> QED
    BY <2>1, <2>2
<1> QED
  BY <1>4

Rank(S, i) == Cardinality({j \in S : j < i})

\* In a finite set of numbers every rank below its size is taken.
LEMMA RanksAreTaken ==
    ASSUME NEW S \in SUBSET Nat, IsFiniteSet(S), NEW r \in Nat, r < Cardinality(S)
    PROVE  \E i \in S : Rank(S, i) = r
<1> DEFINE N == Cardinality(S)
           f == [i \in S |-> Rank(S, i)]
           Below(i) == {j \in S : j < i}
<1>1. N \in Nat
  BY FS_CardinalityType
<1>2. ASSUME NEW i \in S
      PROVE  /\ IsFiniteSet(Below(i)) /\ Rank(S, i) = Cardinality(Below(i))
             /\ Rank(S, i) \in 0..(N - 1)
  <2>1. Below(i) \in SUBSET S /\ i \notin Below(i)
    OBVIOUS
  <2>2. IsFiniteSet(Below(i)) /\ Cardinality(Below(i)) <= N /\ N # Cardinality(Below(i))
    BY <2>1, FS_Subset, Zenon
  <2>3. Cardinality(Below(i)) \in Nat
    BY <2>2, FS_CardinalityType
  <2>4. Rank(S, i) = Cardinality(Below(i))
    BY Zenon DEF Rank
  <2> HIDE DEF N, Below
  <2>5. Cardinality(Below(i)) \in 0..(N - 1)
    BY <1>1, <2>2, <2>3
  <2> QED
    BY <2>2, <2>4, <2>5
<1>3. ASSUME NEW i \in S, NEW k \in S, i < k
      PROVE  Rank(S, i) # Rank(S, k)
  <2>4. (\A j \in S : j < i => j < k) /\ ~(i < i)
    BY <1>3
  <2>1. Below(i) \in SUBSET Below(k) /\ i \in Below(k) /\ i \notin Below(i)
    BY <1>3, <2>4, Zenon
  <2> HIDE DEF N, Below
  <2>2. IsFiniteSet(Below(k)) /\ Below(k) # Below(i)
    BY <1>2, <2>1
  <2>3. Cardinality(Below(k)) # Cardinality(Below(i))
    BY <2>1, <2>2, FS_Subset, Zenon
  <2> QED
    BY <1>2, <2>3
<1> HIDE DEF N, Below
<1>4. f \in [S -> 0..(N - 1)]
  BY <1>2
<1>5. \A i, k \in S : f[i] = f[k] => i = k
  <2> SUFFICES ASSUME NEW i \in S, NEW k \in S, f[i] = f[k], i # k
               PROVE  FALSE
    OBVIOUS
  <2>1. i < k \/ k < i
    OBVIOUS
  <2> QED
    BY <1>3, <2>1
<1> HIDE DEF f
<1>6. f \in Injection(S, 0..(N - 1))
  BY <1>4, <1>5 DEF Injection, IsInjective
<1>7. IsFiniteSet(0..(N - 1)) /\ Cardinality(0..(N - 1)) = N
  <2>1. 0 \in Int /\ N - 1 \in Int
    BY <1>1
  <2>2. IsFiniteSet(0..(N - 1)) /\
        Cardinality(0..(N - 1)) = IF 0 > N - 1 THEN 0 ELSE (N - 1) - 0 + 1
    BY <2>1, FS_Interval, Zenon
  <2> QED
    BY <1>1, <2>2
<1>8. f \in Surjection(S, 0..(N - 1))
  BY <1>6, <1>7, FS_Injection DEF N
<1>9. r \in 0..(N - 1)
  BY <1>1 DEF N
<1>10. PICK i \in S : f[i] = r
  BY <1>8, <1>9 DEF Surjection
<1> QED
  BY <1>10 DEF f

-----------------------------------------------------------------------------
(* The catalogue                                                           *)

CatalogueQuestion ==
    [combined : BOOLEAN, page : Nat \ {0}, orgs : SUBSET CatalogueOrgs, search : BOOLEAN,
     tab : Tabs, pending : {TRUE}]
CatalogueAnswer ==
    [question : CatalogueQuestion, rows : SUBSET (Items \X CatalogueOrgs),
     page : Nat \ {0}, totalPages : Nat, total : Nat]
Shelf ==
    [members : {"loading", "loaded", "error"}, orgs : SUBSET CatalogueOrgs,
     selected : CatalogueOrgs \cup {ALL_ORGANIZATIONS}, search : BOOLEAN, page : Nat \ {0},
     tab : Tabs, status : {"idle", "loading", "loaded", "error"}, repeated : BOOLEAN,
     shown : CatalogueAnswer \cup {NothingShown}]
\* What the organizations have answered so far.
Readings == UNION {[D -> SUBSET Items] : D \in SUBSET CatalogueOrgs}

\* The request under way asks what the choices on the screen say.
AskingOK(a, s) ==
    a = NoRequest \/ \E r \in Readings : a = [question |-> Choices(s), read |-> r, pending |-> TRUE]

RowsOnce(answer) ==
    /\ \A x, y \in answer.rows : x[1] = y[1] => x = y
    /\ answer.total > 0 => answer.rows # {}

\* An answer that is shown: where it has a page after its own, the state has its page.
AnswerOK(answer, q) ==
    /\ answer \in CatalogueAnswer
    /\ answer.question = q
    /\ answer.page <= q.page
    /\ answer.page < answer.totalPages => answer.page = q.page
    /\ q.combined => RowsOnce(answer)

CatalogueInv ==
    /\ memberships \in SUBSET CatalogueOrgs
    /\ shelf \in Shelf
    /\ AskingOK(asking, shelf)
    /\ shelf.members # "loaded" => shelf.status = "idle" /\ asking = NoRequest
    /\ SkeletonsEnd
    /\ shelf.status = "loaded" => AnswerOK(shelf.shown, Choices(shelf))

LEMMA ChoicesTyped ==
    ASSUME NEW s \in Shelf
    PROVE  /\ Choices(s) \in CatalogueQuestion
           /\ Choices(s).page = s.page
<1>1. s.selected \in CatalogueOrgs \/ s.selected = ALL_ORGANIZATIONS
  BY DEF Shelf
<1>2. (IF s.selected = ALL_ORGANIZATIONS THEN s.orgs ELSE {s.selected}) \in SUBSET CatalogueOrgs
  BY <1>1 DEF Shelf
<1>3. PICK os \in SUBSET CatalogueOrgs :
        os = IF s.selected = ALL_ORGANIZATIONS THEN s.orgs ELSE {s.selected}
  BY <1>2
<1>4. PICK c \in BOOLEAN : c = (s.selected = ALL_ORGANIZATIONS)
  OBVIOUS
<1>5. Choices(s) = [combined |-> c, page |-> s.page, orgs |-> os, search |-> s.search,
                    tab |-> s.tab, pending |-> TRUE]
  BY <1>3, <1>4, Zenon DEF Choices
<1>6. s.page \in Nat \ {0} /\ s.search \in BOOLEAN /\ s.tab \in Tabs
  BY DEF Shelf
<1> QED
  BY <1>5, <1>6 DEF CatalogueQuestion

\* A question is one of the request that is under way.
LEMMA AskingIsOther ==
    ASSUME NEW s, NEW a, AskingOK(a, s)
    PROVE  /\ a.pending \in BOOLEAN
           /\ ~a.pending => a = NoRequest
           /\ a.pending => \E r \in Readings :
                  a = [question |-> Choices(s), read |-> r, pending |-> TRUE]
<1>1. CASE a = NoRequest
  BY <1>1 DEF NoRequest
<1>2. CASE \E r \in Readings : a = [question |-> Choices(s), read |-> r, pending |-> TRUE]
  <2>1. PICK r \in Readings : a = [question |-> Choices(s), read |-> r, pending |-> TRUE]
    BY <1>2
  <2>2. a.pending = TRUE
    BY <2>1
  <2> QED
    BY <2>1, <2>2
<1> QED
  BY <1>1, <1>2 DEF AskingOK

\* A new question has read nothing.
LEMMA NewQuestionAsks ==
    ASSUME NEW s, NEW t, Choices(s) = Choices(t)
    PROVE  AskingOK(NewQuestion(s), t) /\ NewQuestion(s).pending = TRUE
<1> DEFINE r == [o \in {} |-> {}]
<1>1. r \in [{} -> SUBSET Items]
  OBVIOUS
<1>2. r \in Readings
  BY <1>1 DEF Readings
<1>3. NewQuestion(s) = [question |-> Choices(t), read |-> r, pending |-> TRUE]
  BY Zenon DEF NewQuestion
<1> HIDE DEF r
<1>4. AskingOK(NewQuestion(s), t)
  BY <1>2, <1>3, Zenon DEF AskingOK
<1>5. NewQuestion(s).pending = TRUE
  BY <1>3
<1> QED
  BY <1>4, <1>5

\* What the user chooses makes the effect run, unless it is chosen already.
LEMMA ChooseInv ==
    ASSUME CatalogueInv, NEW s \in Shelf, NEW attempt \in BOOLEAN, Choose(s, attempt),
           s.members = "loaded", attempt \/ Choices(s) # Choices(shelf) \/ s.repeated
    PROVE  CatalogueInv'
<1>1. shelf' = [s EXCEPT !.status = "loading", !.shown = NothingShown]
  BY Zenon DEF Choose
<1>2. asking' = Effect(s, attempt) /\ memberships' = memberships
  BY DEF Choose
<1>3. shelf' \in Shelf
  BY <1>1 DEF Shelf
<1>4. /\ shelf'.selected = s.selected /\ shelf'.orgs = s.orgs /\ shelf'.page = s.page
      /\ shelf'.search = s.search /\ shelf'.tab = s.tab /\ shelf'.repeated = s.repeated
      /\ shelf'.members = "loaded" /\ shelf'.status = "loading"
  BY <1>1 DEF Shelf
<1>5. Choices(s) = Choices(shelf')
  BY <1>4, Zenon DEF Choices
<1>6. AskingOK(asking', shelf') /\ (asking'.pending = TRUE \/ shelf'.repeated)
  <2>1. CASE attempt \/ Choices(s) # Choices(shelf)
    <3>1. asking' = NewQuestion(s)
      BY <1>2, <2>1 DEF Effect
    <3> QED
      BY <1>5, <3>1, NewQuestionAsks
  <2>2. CASE ~attempt /\ Choices(s) = Choices(shelf)
    <3>1. asking' = asking /\ s.repeated
      BY <1>2, <2>2 DEF Effect
    <3>2. AskingOK(asking, shelf)
      BY DEF CatalogueInv
    <3>3. AskingOK(asking, shelf')
      BY <1>5, <2>2, <3>2, Zenon DEF AskingOK
    <3> QED
      BY <1>4, <3>1, <3>3
  <2> QED
    BY <2>1, <2>2
<1> QED
  BY <1>2, <1>3, <1>4, <1>6 DEF CatalogueInv, SkeletonsEnd

LEMMA FreshOnShelf ==
    ASSUME CatalogueInv
    PROVE  Fresh \in Shelf /\ Fresh.members = shelf.members
BY DEF CatalogueInv, Fresh, Shelf

\* Each handler chooses something else, or asks again, or marks the choice.
LEMMA ChangeOrganizationInv ==
    ASSUME CatalogueInv, NEW o \in CatalogueOrgs \cup {ALL_ORGANIZATIONS}, changeOrganization(o)
    PROVE  CatalogueInv'
<1>0. PICK again \in BOOLEAN : again = (o = shelf.selected /\ shelf.page = 1)
  OBVIOUS
<1>one. PICK one \in Nat \ {0} : one = 1
  OBVIOUS
<1> DEFINE s == [shelf EXCEPT !.selected = o, !.page = one, !.repeated = again]
<1>1. Choose(s, FALSE) /\ shelf.members = "loaded"
  BY <1>0, <1>one, Zenon DEF changeOrganization, Choose
<1>2. /\ s \in Shelf /\ s.selected = o /\ s.page = 1 /\ s.repeated = again
      /\ s.members = shelf.members
  BY <1>one DEF CatalogueInv, Shelf
<1>3. shelf \in Shelf /\ shelf.selected \in CatalogueOrgs \cup {ALL_ORGANIZATIONS}
  BY DEF CatalogueInv, Shelf
<1> HIDE DEF s
<1>4. Choices(s) = Choices(shelf) => again
  <2> SUFFICES ASSUME Choices(s) = Choices(shelf) PROVE again
    OBVIOUS
  <2>1. Choices(s).combined = Choices(shelf).combined /\ Choices(s).orgs = Choices(shelf).orgs
    OBVIOUS
  <2>2. (o = ALL_ORGANIZATIONS) <=> (shelf.selected = ALL_ORGANIZATIONS)
    BY <1>2, <2>1 DEF Choices
  <2>3. o # ALL_ORGANIZATIONS => {o} = {shelf.selected}
    BY <1>2, <2>1, <2>2 DEF Choices
  <2>4. Choices(s).page = 1 /\ Choices(shelf).page = shelf.page
    BY <1>2, <1>3, ChoicesTyped
  <2> QED
    BY <1>0, <2>2, <2>3, <2>4
<1> QED
  BY <1>1, <1>2, <1>4, ChooseInv

LEMMA ApplySearchInv ==
    ASSUME CatalogueInv, NEW text \in BOOLEAN, applySearch(text)
    PROVE  CatalogueInv'
<1>one. PICK one \in Nat \ {0} : one = 1
  OBVIOUS
<1> DEFINE s == [Fresh EXCEPT !.page = one, !.search = text]
<1>1. Choose(s, TRUE) /\ shelf.members = "loaded"
  BY <1>one, Zenon DEF applySearch, Choose
<1>2. s \in Shelf /\ s.members = shelf.members
  BY FreshOnShelf DEF Shelf
<1> HIDE DEF s
<1> QED
  BY <1>1, <1>2, ChooseInv

LEMMA ClearSearchInv ==
    ASSUME CatalogueInv, clearSearch
    PROVE  CatalogueInv'
<1>one. PICK one \in Nat \ {0} : one = 1
  OBVIOUS
<1> DEFINE s == [Fresh EXCEPT !.page = one, !.search = FALSE]
<1>1. Choose(s, TRUE) /\ shelf.members = "loaded"
  BY <1>one, Zenon DEF clearSearch, Choose
<1>2. s \in Shelf /\ s.members = shelf.members
  BY FreshOnShelf DEF Shelf
<1> HIDE DEF s
<1> QED
  BY <1>1, <1>2, ChooseInv

LEMMA ChangeTabInv ==
    ASSUME CatalogueInv, NEW tab \in Tabs, changeTab(tab)
    PROVE  CatalogueInv'
<1>0. PICK again \in BOOLEAN : again = (tab = shelf.tab /\ shelf.page = 1)
  OBVIOUS
<1>one. PICK one \in Nat \ {0} : one = 1
  OBVIOUS
<1> DEFINE s == [shelf EXCEPT !.page = one, !.tab = tab, !.repeated = again]
<1>1. Choose(s, FALSE) /\ shelf.members = "loaded"
  BY <1>0, <1>one, Zenon DEF changeTab, Choose
<1>2. /\ s \in Shelf /\ s.tab = tab /\ s.page = 1 /\ s.repeated = again
      /\ s.members = shelf.members
  BY <1>one DEF CatalogueInv, Shelf
<1>3. shelf \in Shelf
  BY DEF CatalogueInv
<1> HIDE DEF s
<1>4. Choices(s).tab = tab /\ Choices(shelf).tab = shelf.tab
  BY <1>2 DEF Choices
<1>5. Choices(s).page = 1 /\ Choices(shelf).page = shelf.page
  BY <1>2, <1>3, ChoicesTyped
<1> QED
  BY <1>0, <1>1, <1>2, <1>4, <1>5, ChooseInv

\* The buttons ask for a page that the state does not have, also when the page
\* that is shown was clamped.
LEMMA ChangePageInv ==
    ASSUME CatalogueInv, NEW n \in Nat \ {0}, changePage(n)
    PROVE  CatalogueInv'
<1> DEFINE s == [Fresh EXCEPT !.page = n]
<1>1. Choose(s, FALSE) /\ shelf.status = "loaded" /\ shelf.members = "loaded"
  BY Zenon DEF changePage, Choose
<1>2. s \in Shelf /\ s.page = n /\ s.members = shelf.members
  BY FreshOnShelf DEF Shelf
<1> HIDE DEF s
<1>3. PICK a : a = shelf.shown
  OBVIOUS
<1>4. AnswerOK(a, Choices(shelf)) /\ shelf \in Shelf
  BY <1>1, <1>3 DEF CatalogueInv
<1>5. a.page \in Nat /\ a.totalPages \in Nat
  BY <1>4 DEF AnswerOK, CatalogueAnswer
<1>6. shelf.page \in Nat /\ Choices(shelf).page = shelf.page
  BY <1>4, ChoicesTyped DEF Shelf
<1>7. a.page <= shelf.page /\ (a.page < a.totalPages => a.page = shelf.page)
  BY <1>4, <1>6 DEF AnswerOK
<1>8. (n = a.page + 1 /\ a.page < a.totalPages) \/ n + 1 = a.page
  BY <1>3 DEF changePage, HasNext
<1>9. n # shelf.page
  BY <1>5, <1>6, <1>7, <1>8
<1>10. Choices(s).page # Choices(shelf).page
  BY <1>2, <1>6, <1>9, ChoicesTyped
<1> QED
  BY <1>1, <1>2, <1>10, ChooseInv

LEMMA RetryCatalogueInv ==
    ASSUME CatalogueInv, retryCatalogue
    PROVE  CatalogueInv'
<1>1. Choose(Fresh, TRUE) /\ shelf.members = "loaded"
  BY Zenon DEF retryCatalogue, Choose
<1>2. Fresh \in Shelf /\ Fresh.members = "loaded"
  BY <1>1, FreshOnShelf
<1> QED
  BY <1>1, <1>2, ChooseInv

\* Nothing that the invariant is about moves.
LEMMA CatalogueStays ==
    ASSUME CatalogueInv, UNCHANGED <<memberships, shelf, asking>>
    PROVE  CatalogueInv'
<1>1. memberships' = memberships /\ shelf' = shelf /\ asking' = asking
  OBVIOUS
<1>2. AskingOK(asking', shelf')
  BY <1>1, Zenon DEF CatalogueInv
<1>3. shelf'.status = "loaded" => AnswerOK(shelf'.shown, Choices(shelf'))
  BY <1>1, Zenon DEF CatalogueInv
<1> QED
  BY <1>1, <1>2, <1>3 DEF CatalogueInv, SkeletonsEnd

\* The memberships are asked for before anything else.
LEMMA MembershipsWait ==
    ASSUME CatalogueInv, NEW m \in {"loading", "error"}, shelf.members # "loaded",
           shelf' = [shelf EXCEPT !.members = m], UNCHANGED <<memberships, asking>>
    PROVE  CatalogueInv'
<1>1. shelf' \in Shelf /\ shelf'.status = "idle" /\ asking' = NoRequest
  BY DEF CatalogueInv, Shelf
<1>2. AskingOK(asking', shelf')
  BY <1>1, Zenon DEF AskingOK
<1>3. memberships' = memberships /\ memberships \in SUBSET CatalogueOrgs
  BY DEF CatalogueInv
<1> QED
  BY <1>1, <1>2, <1>3 DEF CatalogueInv, SkeletonsEnd

LEMMA FailMembershipsInv ==
    ASSUME CatalogueInv, failMemberships \/ retryMemberships
    PROVE  CatalogueInv'
<1>1. CASE failMemberships
  BY <1>1, MembershipsWait DEF failMemberships
<1>2. CASE retryMemberships
  BY <1>2, MembershipsWait DEF retryMemberships
<1> QED
  BY <1>1, <1>2

LEMMA LoadMembershipsInv ==
    ASSUME CatalogueInv, loadMemberships
    PROVE  CatalogueInv'
<1>1. PICK sel : sel = IF shelf.selected \in memberships THEN shelf.selected ELSE ALL_ORGANIZATIONS
  OBVIOUS
<1>2. PICK st : st = IF memberships # {} THEN "loading" ELSE shelf.status
  OBVIOUS
<1>3. shelf' = [shelf EXCEPT !.members = "loaded", !.orgs = memberships,
                             !.selected = sel, !.status = st]
  BY <1>1, <1>2, Zenon DEF loadMemberships
<1>4. asking' = NewQuestion(shelf') /\ memberships' = memberships /\ shelf.members = "loading"
  BY Zenon DEF loadMemberships
<1>5. shelf \in Shelf /\ memberships \in SUBSET CatalogueOrgs /\ shelf.status = "idle"
  BY <1>4 DEF CatalogueInv
<1>6. sel \in CatalogueOrgs \cup {ALL_ORGANIZATIONS} /\ st \in {"loading", "idle"}
  BY <1>1, <1>2, <1>5
<1>7. shelf' \in Shelf /\ shelf'.status = st /\ shelf'.members = "loaded"
  BY <1>3, <1>5, <1>6 DEF Shelf
<1>8. AskingOK(asking', shelf') /\ asking'.pending = TRUE
  BY <1>4, NewQuestionAsks
<1> QED
  BY <1>4, <1>5, <1>6, <1>7, <1>8 DEF CatalogueInv, SkeletonsEnd

\* One more organization has answered.
LEMMA GetAccessibleInv ==
    ASSUME CatalogueInv, NEW o \in CatalogueOrgs, getAccessibleResources(o)
    PROVE  CatalogueInv'
<1>1. asking.pending /\ UNCHANGED <<memberships, shelf>>
  BY DEF getAccessibleResources
<1>2. PICK r \in Readings : asking = [question |-> Choices(shelf), read |-> r, pending |-> TRUE]
  BY <1>1, AskingIsOther DEF CatalogueInv
<1>3. PICK new \in SUBSET Items : new = findAll(o, asking.question)
  BY DEF findAll
<1>4. PICK R : R = [p \in DOMAIN r \cup {o} |-> IF p = o THEN new ELSE r[p]]
  OBVIOUS
<1>5. asking.read = r
  BY <1>2
<1>6. asking' = [asking EXCEPT !.read = R]
  BY <1>3, <1>4, <1>5, Zenon DEF getAccessibleResources
<1>7. PICK D \in SUBSET CatalogueOrgs : r \in [D -> SUBSET Items]
  BY DEF Readings
<1>8. R \in [D \cup {o} -> SUBSET Items] /\ D \cup {o} \in SUBSET CatalogueOrgs
  BY <1>4, <1>7
<1>9. R \in Readings
  BY <1>8 DEF Readings
<1>10. asking' = [question |-> Choices(shelf), read |-> R, pending |-> TRUE]
  BY <1>2, <1>6
<1>11. AskingOK(asking', shelf') /\ asking'.pending = TRUE
  BY <1>1, <1>9, <1>10 DEF AskingOK
<1>12. shelf.status # "error" /\ shelf.members = "loaded"
  BY <1>1, AskingIsOther DEF CatalogueInv, SkeletonsEnd, NoRequest
<1>13. shelf'.status = "loaded" => AnswerOK(shelf'.shown, Choices(shelf'))
  BY <1>1, Zenon DEF CatalogueInv
<1> QED
  BY <1>1, <1>11, <1>12, <1>13 DEF CatalogueInv, SkeletonsEnd

LEMMA FailCatalogueInv ==
    ASSUME CatalogueInv, failCatalogue
    PROVE  CatalogueInv'
<1>1. /\ shelf' = [shelf EXCEPT !.status = "error", !.repeated = FALSE, !.shown = NothingShown]
      /\ asking' = NoRequest /\ memberships' = memberships /\ asking.pending
  BY Zenon DEF failCatalogue
<1>2. shelf.members = "loaded"
  BY <1>1 DEF CatalogueInv, NoRequest
<1>3. shelf' \in Shelf /\ shelf'.status = "error" /\ shelf'.members = "loaded"
  BY <1>1, <1>2 DEF CatalogueInv, Shelf
<1>4. AskingOK(asking', shelf') /\ asking'.pending = FALSE
  BY <1>1 DEF AskingOK, NoRequest
<1> QED
  BY <1>1, <1>3, <1>4 DEF CatalogueInv, SkeletonsEnd

-----------------------------------------------------------------------------
(* What the catalogue answers                                              *)

LEMMA ReadingsAreItems ==
    ASSUME NEW read \in Readings
    PROVE  /\ DOMAIN read \in SUBSET CatalogueOrgs
           /\ \A o \in DOMAIN read : read[o] \in SUBSET Items
           /\ AllRead(read) \in SUBSET Items
           /\ IsFiniteSet(AllRead(read)) /\ Cardinality(AllRead(read)) \in Nat
           /\ EveryRow(read) \in SUBSET (Items \X CatalogueOrgs)
<1>1. PICK D \in SUBSET CatalogueOrgs : read \in [D -> SUBSET Items]
  BY DEF Readings
<1>2. DOMAIN read \in SUBSET CatalogueOrgs /\ \A o \in DOMAIN read : read[o] \in SUBSET Items
  BY <1>1
<1>3. AllRead(read) \in SUBSET Items
  BY <1>2 DEF AllRead
<1>4. IsFiniteSet(AllRead(read))
  BY <1>3, FS_Subset, CatalogueAssumption
<1>5. EveryRow(read) \in SUBSET (Items \X CatalogueOrgs)
  BY <1>2 DEF EveryRow
<1> QED
  BY <1>2, <1>3, <1>4, <1>5, FS_CardinalityType

\* A row names an item and an organization that answered with it.
LEMMA RowsAreRead ==
    ASSUME NEW read, NEW x \in EveryRow(read)
    PROVE  \E o \in DOMAIN read : \E i \in read[o] : x = <<i, o>>
  BY DEF EveryRow

\* No item is listed for two organizations.
LEMMA FirstRowsAreOne ==
    ASSUME NEW read \in Readings, NEW x \in FirstRows(read), NEW y \in FirstRows(read),
           x[1] = y[1]
    PROVE  x = y
<1>1. PICK o \in DOMAIN read : \E i \in read[o] : x = <<i, o>>
  BY RowsAreRead DEF FirstRows
<1>2. PICK p \in DOMAIN read : \E j \in read[p] : y = <<j, p>>
  BY RowsAreRead DEF FirstRows
<1>7. PICK i \in read[o] : x = <<i, o>>
  BY <1>1
<1>8. PICK j \in read[p] : y = <<j, p>>
  BY <1>2
<1>3. i = j
  BY <1>7, <1>8
<1>4. ~(p < o) /\ ~(o < p)
  BY <1>3, <1>7, <1>8 DEF FirstRows
<1>5. o \in Nat /\ p \in Nat
  BY ReadingsAreItems, CatalogueAssumption
<1>6. o = p
  BY <1>4, <1>5
<1> QED
  BY <1>3, <1>6, <1>7, <1>8

\* An item that was read is listed for the first organization that has it.
LEMMA EveryItemHasARow ==
    ASSUME NEW read \in Readings, NEW i \in AllRead(read)
    PROVE  \E x \in FirstRows(read) : x[1] = i
<1> DEFINE P == {o \in DOMAIN read : i \in read[o]}
<1>1. P \in SUBSET Nat /\ P # {}
  BY ReadingsAreItems, CatalogueAssumption DEF AllRead
<1>2. PICK o \in P : \A p \in P : o <= p
  BY <1>1, LeastNumber
<1>3. PICK x : x = <<i, o>>
  OBVIOUS
<1>4. x \in EveryRow(read)
  BY <1>2, <1>3 DEF EveryRow
<1>5. ASSUME NEW p \in DOMAIN read, p < o PROVE i \notin read[p]
  <2>1. p \in Nat /\ o \in Nat
    BY <1>1, ReadingsAreItems, CatalogueAssumption
  <2> QED
    BY <1>2, <1>5, <2>1
<1>6. x \in FirstRows(read)
  BY <1>3, <1>4, <1>5 DEF FirstRows
<1> QED
  BY <1>3, <1>6

\* A page that is not past the end holds an item.
LEMMA PagesHoldItems ==
    ASSUME NEW items \in SUBSET Items, NEW p \in Nat \ {0}, p <= totalPages(items)
    PROVE  PageOf(items, p) # {}
<1> DEFINE N == Cardinality(items)
           z == RESOURCE_PAGE_SIZE
<1>1. items \in SUBSET Nat /\ IsFiniteSet(items) /\ z \in Nat \ {0}
  BY FS_Subset, CatalogueAssumption
<1>2. N \in Nat
  BY <1>1, FS_CardinalityType
<1>3. p <= (N + z - 1) \div z
  BY DEF totalPages
<1> HIDE DEF N, z
<1>4. PICK r \in Nat : r < N /\ r \div z = p - 1
  BY <1>1, <1>2, <1>3, PageBegins
<1>5. PICK i \in items : Rank(items, i) = r
  BY <1>1, <1>4, RanksAreTaken DEF N
<1>6. i \in PageOf(items, p)
  BY <1>4, <1>5, Zenon DEF PageOf, Rank, z
<1> QED
  BY <1>6

\* The clamped page exists where there is anything.
LEMMA ClampedPages ==
    ASSUME NEW items \in SUBSET Items, NEW n \in Nat \ {0}
    PROVE  /\ totalPages(items) \in Nat
           /\ ClampedPage(items, n) \in Nat \ {0}
           /\ ClampedPage(items, n) <= n
           /\ ClampedPage(items, n) < totalPages(items) => ClampedPage(items, n) = n
           /\ Cardinality(items) > 0 => ClampedPage(items, n) <= totalPages(items)
<1> DEFINE z == RESOURCE_PAGE_SIZE
<1>1. IsFiniteSet(items) /\ z \in Nat \ {0}
  BY FS_Subset, CatalogueAssumption
<1>2. PICK N \in Nat : N = Cardinality(items)
  BY <1>1, FS_CardinalityType
<1>3. N = 0 <=> items = {}
  BY <1>1, <1>2, FS_EmptySet
<1>4. totalPages(items) = (N + z - 1) \div z
  BY <1>2 DEF totalPages
<1> HIDE DEF z
<1>5. N + z - 1 \in Nat
  BY <1>1
<1>6. PICK t \in Nat : t = totalPages(items)
  BY <1>1, <1>4, <1>5, DivBounds
<1>7. N # 0 => t # 0
  BY <1>1, <1>4, <1>6, SomePage
<1>8. N = 0 => t = 0
  <2>1. N = 0 => 0 \div z = 0 /\ N + z - 1 < z
    BY <1>1
  <2> QED
    BY <1>1, <1>4, <1>5, <1>6, <2>1, DivUnique
<1>9. CASE N = 0
  <2>1. ClampedPage(items, n) = 1
    BY <1>3, <1>9 DEF ClampedPage
  <2> QED
    BY <1>2, <1>6, <1>8, <1>9, <2>1
<1>10. CASE N # 0
  <2>1. ClampedPage(items, n) = IF n > t THEN t ELSE n
    BY <1>3, <1>6, <1>10 DEF ClampedPage
  <2> QED
    BY <1>2, <1>6, <1>7, <1>10, <2>1
<1> QED
  BY <1>9, <1>10

LEMMA CombinedAnswerOK ==
    ASSUME NEW read \in Readings, NEW q \in CatalogueQuestion
    PROVE  AnswerOK(getCombinedCatalogue(read, q), q)
<1>1. PICK items \in SUBSET Items : items = AllRead(read)
  BY ReadingsAreItems
<1>2. q.page \in Nat \ {0}
  BY DEF CatalogueQuestion
<1>3. PICK p \in Nat \ {0} : p = ClampedPage(items, q.page)
  BY <1>2, ClampedPages
<1>4. PICK t \in Nat : t = totalPages(items)
  BY <1>2, ClampedPages
<1>5. PICK n \in Nat : n = Cardinality(items)
  BY <1>1, ReadingsAreItems
<1>6. p <= q.page /\ (p < t => p = q.page) /\ (n > 0 => p <= t)
  BY <1>2, <1>3, <1>4, <1>5, ClampedPages
<1>7. PICK rows : rows = {x \in FirstRows(read) : x[1] \in PageOf(items, p)}
  OBVIOUS
<1>8. FirstRows(read) \subseteq EveryRow(read)
  BY DEF FirstRows
<1>9. rows \in SUBSET (Items \X CatalogueOrgs)
  BY <1>7, <1>8, ReadingsAreItems
<1>10. PICK a : a = getCombinedCatalogue(read, q)
  OBVIOUS
<1>11. a = [question |-> q, rows |-> rows, page |-> p, totalPages |-> t, total |-> n]
  BY <1>1, <1>3, <1>4, <1>5, <1>7, <1>10, Zenon DEF getCombinedCatalogue
<1>12. a \in CatalogueAnswer
  BY <1>9, <1>11 DEF CatalogueAnswer
<1>13. \A x, y \in rows : x[1] = y[1] => x = y
  BY <1>7, FirstRowsAreOne
<1>14. ASSUME n > 0 PROVE rows # {}
  <2>1. PICK i \in PageOf(items, p) : TRUE
    BY <1>4, <1>6, <1>14, PagesHoldItems
  <2>2. i \in AllRead(read)
    BY <1>1, <2>1 DEF PageOf
  <2> QED
    BY <1>7, <2>1, <2>2, EveryItemHasARow
<1>15. /\ a.question = q /\ a.rows = rows /\ a.page = p /\ a.totalPages = t /\ a.total = n
  BY <1>11
<1>16. AnswerOK(a, q)
  BY <1>6, <1>12, <1>13, <1>14, <1>15 DEF AnswerOK, RowsOnce
<1> QED
  BY <1>10, <1>16

LEMMA OneAnswerOK ==
    ASSUME NEW read \in Readings, NEW q \in CatalogueQuestion, ~q.combined
    PROVE  AnswerOK(getOneCatalogue(read, q), q)
<1>1. PICK items \in SUBSET Items : items = AllRead(read)
  BY ReadingsAreItems
<1>2. PICK p \in Nat \ {0} : p = q.page
  BY DEF CatalogueQuestion
<1>3. PICK t \in Nat : t = totalPages(items)
  BY <1>2, ClampedPages
<1>4. PICK n \in Nat : n = Cardinality(items)
  BY <1>1, ReadingsAreItems
<1>5. PICK rows : rows = {x \in EveryRow(read) : x[1] \in PageOf(items, p)}
  OBVIOUS
<1>6. rows \in SUBSET (Items \X CatalogueOrgs)
  BY <1>5, ReadingsAreItems
<1>7. PICK a : a = getOneCatalogue(read, q)
  OBVIOUS
<1>8. a = [question |-> q, rows |-> rows, page |-> p, totalPages |-> t, total |-> n]
  BY <1>1, <1>2, <1>3, <1>4, <1>5, <1>7, Zenon DEF getOneCatalogue
<1>9. a \in CatalogueAnswer
  BY <1>6, <1>8 DEF CatalogueAnswer
<1>10. a.question = q /\ a.page = q.page
  BY <1>2, <1>8
<1>11. AnswerOK(a, q)
  BY <1>2, <1>9, <1>10 DEF AnswerOK
<1> QED
  BY <1>7, <1>11

LEMMA AnswerCatalogueInv ==
    ASSUME CatalogueInv, answerCatalogue
    PROVE  CatalogueInv'
<1>1. asking.pending /\ asking' = NoRequest /\ memberships' = memberships
  BY DEF answerCatalogue
<1>2. shelf \in Shelf /\ shelf.members = "loaded" /\ memberships \in SUBSET CatalogueOrgs
  BY <1>1 DEF CatalogueInv, NoRequest
<1>3. PICK r \in Readings : asking = [question |-> Choices(shelf), read |-> r, pending |-> TRUE]
  BY <1>1, AskingIsOther DEF CatalogueInv
<1>4. PICK q \in CatalogueQuestion : q = Choices(shelf)
  BY <1>2, ChoicesTyped
<1>5. asking.read = r /\ asking.question = q
  BY <1>3, <1>4
<1>6. PICK a : a = IF q.combined THEN getCombinedCatalogue(r, q) ELSE getOneCatalogue(r, q)
  OBVIOUS
<1>7. shelf' = [shelf EXCEPT !.status = "loaded", !.repeated = FALSE, !.shown = a]
  BY <1>5, <1>6, Zenon DEF answerCatalogue
<1>8. q.combined \in BOOLEAN
  BY DEF CatalogueQuestion
<1>9. AnswerOK(a, q)
  BY <1>6, <1>8, CombinedAnswerOK, OneAnswerOK
<1>10. a \in CatalogueAnswer
  BY <1>9 DEF AnswerOK
<1>11. shelf' \in Shelf
  BY <1>2, <1>7, <1>10 DEF Shelf
<1>12. /\ shelf'.selected = shelf.selected /\ shelf'.orgs = shelf.orgs
       /\ shelf'.page = shelf.page /\ shelf'.search = shelf.search /\ shelf'.tab = shelf.tab
       /\ shelf'.members = "loaded" /\ shelf'.status = "loaded" /\ shelf'.shown = a
  BY <1>2, <1>7 DEF Shelf
<1>13. Choices(shelf') = q
  BY <1>4, <1>12, Zenon DEF Choices
<1>14. AskingOK(asking', shelf')
  BY <1>1, Zenon DEF AskingOK
<1> QED
  BY <1>1, <1>2, <1>9, <1>11, <1>12, <1>13, <1>14 DEF CatalogueInv, SkeletonsEnd

\* Beside the property: the request under way asks what is on the screen, and a
\* page that has a successor was not clamped.
THEOREM CatalogueInvariance == CatalogueSpec => []CatalogueInv
<1>1. CatalogueInit => CatalogueInv
  <2> SUFFICES ASSUME CatalogueInit PROVE CatalogueInv
    OBVIOUS
  <2>1. PICK one \in Nat \ {0} : one = 1
    OBVIOUS
  <2>2. PICK no \in BOOLEAN : no = FALSE
    OBVIOUS
  <2>3. shelf = [members |-> "loading", orgs |-> {}, selected |-> ALL_ORGANIZATIONS,
                 search |-> no, page |-> one, tab |-> "ACTIVE", status |-> "idle",
                 repeated |-> no, shown |-> NothingShown]
    BY <2>1, <2>2, Zenon DEF CatalogueInit
  <2>4. shelf \in Shelf /\ shelf.status = "idle"
    BY <2>3 DEF Shelf, Tabs
  <2>5. memberships \in SUBSET CatalogueOrgs /\ asking = NoRequest
    BY DEF CatalogueInit
  <2> QED
    BY <2>4, <2>5 DEF CatalogueInv, AskingOK, SkeletonsEnd
<1>2. CatalogueInv /\ [CatalogueNext]_catalogueVars => CatalogueInv'
  <2> SUFFICES ASSUME CatalogueInv, [CatalogueNext]_catalogueVars PROVE CatalogueInv'
    OBVIOUS
  <2>1. ASSUME NEW i \in Items, NEW orgs \in SUBSET CatalogueOrgs, NEW tab \in Tabs,
               changeAccess(i, orgs, tab)
        PROVE  CatalogueInv'
    BY <2>1, CatalogueStays DEF changeAccess
  <2>2. ASSUME NEW n \in 1..(Cardinality(Items) + 1), changePage(n) PROVE CatalogueInv'
    <3>1. Cardinality(Items) \in Nat
      BY FS_CardinalityType, CatalogueAssumption
    <3>2. n \in Nat \ {0}
      BY <3>1
    <3> QED
      BY <2>2, <3>2, ChangePageInv
  <2>3. CASE UNCHANGED catalogueVars
    BY <2>3, CatalogueStays DEF catalogueVars
  <2> QED
    BY <2>1, <2>2, <2>3, LoadMembershipsInv, FailMembershipsInv, ChangeOrganizationInv,
       ApplySearchInv, ClearSearchInv, RetryCatalogueInv, ChangeTabInv, GetAccessibleInv,
       AnswerCatalogueInv, FailCatalogueInv, Zenon DEF CatalogueNext
<1> QED
  BY <1>1, <1>2, PTL DEF CatalogueSpec

\* The section runs as its own specification says.
LEMMA CatalogueRuns == DashboardSpec => CatalogueSpec
<1>1. DashboardInit => CatalogueInit
  BY DEF DashboardInit
<1>2. [DashboardNext]_dashboardVars => [CatalogueNext]_catalogueVars
  BY DEF DashboardNext, dashboardVars
<1> QED
  BY <1>1, <1>2, PTL DEF DashboardSpec, CatalogueSpec

\* For any organizations, resources, page size and number of choices, failures
\* and changes elsewhere, resource-catalogue.tsx shows the answer to the choices on
\* the screen, ends every skeleton that a new choice starts, lists a shared resource
\* once and shows a page that has resources where there are any.
THEOREM CatalogueStaysSound == DashboardSpec => []CatalogueIsSound
<1>1. CatalogueInv => CatalogueIsSound
  BY DEF CatalogueInv, CatalogueIsSound, AnswersTheLastQuestion, EachResourceOnce, AnswerOK, RowsOnce
<1> QED
  BY <1>1, CatalogueRuns, CatalogueInvariance, PTL

-----------------------------------------------------------------------------
(* The notifications                                                       *)

FetchRec ==
    {NoFetch} \cup [stage : {"sent", "answered"}, ofTask : BOOLEAN,
                    got : [Notices -> NoticeStates], stale : SUBSET Notices]
MarkRec ==
    {NoMark} \cup [stage : {"sent", "found", "answered"}, notice : {{n} : n \in Notices},
                   to : {"READ", "UNREAD"}, stale : BOOLEAN, heard : BOOLEAN]
TaskRec ==
    {NoTask} \cup [op : {"markAll", "test", "enable"},
                   stage : {"sent", "answered", "load", "ask", "register"}]

\* An answer differs from the first page only in what changed after it was read.
FetchOK(r, table) ==
    r.stage = "answered" =>
        /\ \A n \in Notices : /\ \/ r.got[n] = table[n] \/ n \in r.stale
                                 \/ r.got[n] = "ABSENT" /\ n \notin Newest(table)
                              /\ r.got[n] # "ABSENT" => table[n] # "ABSENT"
        /\ r.stale = {} => r.got = FirstPage(table)

\* A mark is of a notice that exists, which is as asked unless another request
\* changed it after the answer.
MarkOK(k, table) ==
    \A n \in k.notice : /\ table[n] # "ABSENT"
                        /\ k.stage = "answered" /\ ~k.stale => table[n] = k.to

Reloading == task.op \in {"markAll", "test"} /\ task.stage = "answered"
Loading == \E f \in Fetches : fetches[f] # NoFetch
Marking(n) == list[n] # "ABSENT" /\ \E m \in Marks : marks[m].heard /\ n \in marks[m].notice
Accounted(n) ==
    \/ list[n] = inbox[n] \/ n \in excused \/ Marking(n)
    \/ list[n] = "ABSENT" /\ n \notin Newest(inbox)

NoticesTyped ==
    /\ inbox \in [Notices -> NoticeStates] /\ list \in [Notices -> NoticeStates]
    /\ listed \in BOOLEAN /\ spot \in {"page", "card", "away"}
    /\ fetches \in [Fetches -> FetchRec] /\ marks \in [Marks -> MarkRec] /\ task \in TaskRec
    /\ permission \in {"default", "granted", "denied"} /\ subs \in SUBSET {"this"}
    /\ ear \in [starting : BOOLEAN, handlers : Nat]
    /\ excused \in SUBSET Notices /\ noticeFaults \in Nat /\ Notices # {}

FetchesOK == \A f \in Fetches : FetchOK(fetches[f], inbox)
MarksOK == \A m \in Marks : MarkOK(marks[m], inbox)
ListOK == \A n \in Notices : list[n] # "ABSENT" => inbox[n] # "ABSENT"

PageOK == spot = "page" => Loading \/ Reloading \/ \A n \in Notices : Accounted(n)
CardOK ==
    spot = "card" =>
        /\ task = NoTask /\ strays = {} /\ \A m \in Marks : marks[m] = NoMark
        /\ \/ Loading \/ excused # {}
           \/ counter = <<"count", Cardinality(IsUnread(FirstPage(inbox)))>>
AwayOK == spot = "away" => ~Loading

TaskOK ==
    \A f \in Fetches : fetches[f].ofTask =>
        /\ task.op \in {"markAll", "test"} /\ task.stage = "load"
        /\ \A g \in Fetches : fetches[g].ofTask => f = g

EarOK ==
    /\ ear.starting => ear.handlers = 0
    /\ ear.handlers <= 1
    /\ ear.handlers > 0 => spot # "away"
    /\ "this" \in subs => permission = "granted"
    /\ task.op = "enable" /\ task.stage # "ask" => permission = "granted"
    /\ (\E r \in strays : r[1] = "enable") => permission = "granted"
    /\ strays # {} => noticeFaults # 0
    /\ spot # "away" /\ "this" \in subs /\ noticeFaults = 0 =>
          ear.handlers = 1 \/ ear.starting \/ (task.op = "enable" /\ task.stage = "answered")

Shows == FetchesOK /\ MarksOK /\ ListOK /\ PageOK /\ CardOK /\ AwayOK /\ NoticesAppear
NoticeInv == NoticesTyped /\ Shows /\ TaskOK /\ EarOK

\* What changes of the table may do to notices: none disappears.
Grows(old, new, changed) ==
    \A n \in Notices : /\ n \notin changed => new[n] = old[n]
                       /\ old[n] # "ABSENT" => new[n] # "ABSENT"
SameFetch(old, new) ==
    /\ new.stage = old.stage /\ new.ofTask = old.ofTask /\ (new = NoFetch <=> old = NoFetch)
SameMark(old, new) ==
    new.notice = old.notice /\ new.heard = old.heard /\ (new = NoMark <=> old = NoMark)

LEMMA NoticeConstants ==
    /\ Nothing \in [Notices -> NoticeStates] /\ \A n \in Notices : Nothing[n] = "ABSENT"
    /\ NoFetch \in FetchRec /\ NoFetch.stage = "none" /\ NoFetch.ofTask = FALSE
    /\ NoMark \in MarkRec /\ NoMark.stage = "none" /\ NoMark.notice = {}
    /\ NoTask \in TaskRec /\ NoTask.op = "none" /\ NoTask.stage = "none"
  BY DEF Nothing, NoFetch, NoMark, NoTask, FetchRec, MarkRec, TaskRec, NoticeStates

LEMMA FetchFields ==
    ASSUME NEW r \in FetchRec
    PROVE  /\ r.stage \in {"none", "sent", "answered"} /\ r.ofTask \in BOOLEAN
           /\ r = NoFetch <=> r.stage = "none"
           /\ r # NoFetch => r.got \in [Notices -> NoticeStates] /\ r.stale \in SUBSET Notices
  BY NoticeConstants DEF FetchRec

LEMMA MarkFields ==
    ASSUME NEW k \in MarkRec
    PROVE  /\ k.stage \in {"none", "sent", "found", "answered"}
           /\ k = NoMark <=> k.stage = "none"
           /\ k # NoMark => \E n \in Notices : k.notice = {n}
           /\ k # NoMark => k.to \in {"READ", "UNREAD"} /\ k.stale \in BOOLEAN /\ k.heard \in BOOLEAN
           /\ k.notice \in SUBSET Notices
  BY NoticeConstants DEF MarkRec

LEMMA TaskFields ==
    ASSUME NEW t \in TaskRec
    PROVE  /\ t = NoTask <=> t.op = "none"
           /\ t # NoTask => t.op \in {"markAll", "test", "enable"}
           /\ t.stage \in {"none", "sent", "answered", "load", "ask", "register"}
  BY NoticeConstants DEF TaskRec

\* A notification that is past the first page does not come back to it.
LEMMA PageMovesOn ==
    ASSUME inbox \in [Notices -> NoticeStates], inbox' \in [Notices -> NoticeStates],
           NEW ch, Grows(inbox, inbox', ch), NEW n \in Notices, n \notin Newest(inbox)
    PROVE  n \notin Newest(inbox')
<1>1. PICK A \in SUBSET Notices : A = {m \in Notices : m > n /\ inbox[m] # "ABSENT"}
  OBVIOUS
<1>2. PICK B \in SUBSET Notices : B = {m \in Notices : m > n /\ inbox'[m] # "ABSENT"}
  OBVIOUS
<1>3. A \subseteq B
  BY <1>1, <1>2 DEF Grows
<1>4. IsFiniteSet(Notices) /\ NOTIFICATION_TAKE \in Nat
  BY NotificationPagesAssumption
<1>5. IsFiniteSet(B)
  BY <1>4, FS_Subset
<1>6. IsFiniteSet(A) /\ Cardinality(A) <= Cardinality(B)
  BY <1>3, <1>5, FS_Subset
<1>7. Cardinality(A) \in Nat /\ Cardinality(B) \in Nat
  BY <1>5, <1>6, FS_CardinalityType
<1>8. ~(Cardinality(A) < NOTIFICATION_TAKE)
  BY <1>1 DEF Newest
<1>9. ~(Cardinality(B) < NOTIFICATION_TAKE)
  BY <1>4, <1>6, <1>7, <1>8
<1> QED
  BY <1>2, <1>9 DEF Newest

LEMMA NewFetches ==
    ASSUME NEW b \in BOOLEAN
    PROVE  /\ NewFetch(b) \in FetchRec /\ NewFetch(b).stage = "sent" /\ NewFetch(b).ofTask = b
           /\ NewFetch(b) # NoFetch
<1>1. NoFetch \in [stage : {"none"}, ofTask : BOOLEAN, got : [Notices -> NoticeStates],
                   stale : SUBSET Notices]
  BY NoticeConstants DEF NoFetch
<1>2. /\ NewFetch(b) \in [stage : {"sent", "answered"}, ofTask : BOOLEAN,
                          got : [Notices -> NoticeStates], stale : SUBSET Notices]
      /\ NewFetch(b).stage = "sent" /\ NewFetch(b).ofTask = b
  BY <1>1 DEF NewFetch
<1>3. NewFetch(b) \in FetchRec
  BY <1>2 DEF FetchRec
<1> QED
  BY <1>2, <1>3, NoticeConstants

\* A load moves on.
LEMMA FetchMoves ==
    ASSUME NoticesTyped, FetchesOK, NEW f \in Fetches, NEW r \in FetchRec, FetchOK(r, inbox),
           fetches' = [fetches EXCEPT ![f] = r], inbox' = inbox
    PROVE  /\ fetches' \in [Fetches -> FetchRec] /\ FetchesOK'
           /\ fetches'[f] = r /\ \A g \in Fetches : g # f => fetches'[g] = fetches[g]
<1>1. fetches \in [Fetches -> FetchRec]
  BY DEF NoticesTyped
<1>2. /\ fetches' \in [Fetches -> FetchRec]
      /\ fetches'[f] = r /\ \A g \in Fetches : g # f => fetches'[g] = fetches[g]
  BY <1>1
<1>3. \A g \in Fetches : FetchOK(fetches'[g], inbox)
  BY <1>2 DEF FetchesOK
<1>4. FetchesOK'
  BY <1>3 DEF FetchesOK
<1> QED
  BY <1>2, <1>4

\* The table changes behind the answers.
LEMMA FetchesOvertaken ==
    ASSUME NoticesTyped, FetchesOK, NEW ch \in SUBSET Notices,
           inbox' \in [Notices -> NoticeStates], Grows(inbox, inbox', ch),
           fetches' = Overtaken(ch)
    PROVE  /\ fetches' \in [Fetches -> FetchRec] /\ FetchesOK'
           /\ \A f \in Fetches : SameFetch(fetches[f], fetches'[f])
<1>1. ASSUME NEW f \in Fetches
      PROVE  /\ fetches'[f] \in FetchRec /\ FetchOK(fetches'[f], inbox')
             /\ SameFetch(fetches[f], fetches'[f])
  <2>1. PICK r \in FetchRec : r = fetches[f]
    BY DEF NoticesTyped
  <2>2. FetchOK(r, inbox)
    BY <2>1 DEF FetchesOK
  <2>3. fetches'[f] = IF r.stage # "answered" THEN r ELSE [r EXCEPT !.stale = @ \cup ch]
    BY <2>1 DEF Overtaken
  <2>4. CASE r.stage # "answered"
    <3>1. fetches'[f] = r
      BY <2>3, <2>4
    <3> QED
      BY <2>1, <2>4, <3>1 DEF FetchOK, SameFetch
  <2>5. CASE r.stage = "answered"
    <3>1. PICK s : s = [r EXCEPT !.stale = @ \cup ch]
      OBVIOUS
    <3>2. r \in [stage : {"sent", "answered"}, ofTask : BOOLEAN,
                 got : [Notices -> NoticeStates], stale : SUBSET Notices]
      BY <2>5, NoticeConstants DEF FetchRec
    <3>3. /\ s \in [stage : {"sent", "answered"}, ofTask : BOOLEAN,
                    got : [Notices -> NoticeStates], stale : SUBSET Notices]
          /\ s.stage = r.stage /\ s.ofTask = r.ofTask /\ s.got = r.got
          /\ s.stale = r.stale \cup ch
      BY <3>1, <3>2
    <3>4. s \in FetchRec
      BY <3>3 DEF FetchRec
    <3>5. FetchOK(s, inbox')
      <4>1. inbox \in [Notices -> NoticeStates]
        BY DEF NoticesTyped
      <4>2. ASSUME NEW n \in Notices
            PROVE  /\ \/ s.got[n] = inbox'[n] \/ n \in s.stale
                      \/ s.got[n] = "ABSENT" /\ n \notin Newest(inbox')
                   /\ s.got[n] # "ABSENT" => inbox'[n] # "ABSENT"
        <5>1. /\ \/ r.got[n] = inbox[n] \/ n \in r.stale
                 \/ r.got[n] = "ABSENT" /\ n \notin Newest(inbox)
              /\ r.got[n] # "ABSENT" => inbox[n] # "ABSENT"
          BY <2>2, <2>5 DEF FetchOK
        <5>2. n \notin Newest(inbox) => n \notin Newest(inbox')
          BY <4>1, PageMovesOn
        <5> QED
          BY <3>3, <5>1, <5>2 DEF Grows
      <4>3. s.stale = {} => s.got = FirstPage(inbox')
        <5> SUFFICES ASSUME s.stale = {} PROVE s.got = FirstPage(inbox')
          OBVIOUS
        <5>1. ch = {} /\ r.stale = {}
          BY <3>3
        <5>2. inbox' = inbox
          BY <4>1, <5>1 DEF Grows
        <5>3. r.got = FirstPage(inbox)
          BY <2>2, <2>5, <5>1 DEF FetchOK
        <5> QED
          BY <3>3, <5>2, <5>3
      <4> QED
        BY <4>2, <4>3 DEF FetchOK
    <3>6. SameFetch(r, s)
      BY <2>5, <3>3, NoticeConstants DEF SameFetch
    <3> QED
      BY <2>1, <2>3, <2>5, <3>1, <3>4, <3>5, <3>6
  <2> QED
    BY <2>4, <2>5
<1>2. fetches' = [f \in Fetches |-> fetches'[f]]
  BY DEF Overtaken
<1>3. fetches' \in [Fetches -> FetchRec]
  BY <1>1, <1>2
<1>4. FetchesOK'
  BY <1>1 DEF FetchesOK
<1> QED
  BY <1>1, <1>3, <1>4

\* A mark moves on.
LEMMA MarkMoves ==
    ASSUME NoticesTyped, MarksOK, NEW m \in Marks, NEW k \in MarkRec, MarkOK(k, inbox),
           marks' = [marks EXCEPT ![m] = k], inbox' = inbox
    PROVE  /\ marks' \in [Marks -> MarkRec] /\ MarksOK'
           /\ marks'[m] = k /\ \A j \in Marks : j # m => marks'[j] = marks[j]
<1>1. marks \in [Marks -> MarkRec]
  BY DEF NoticesTyped
<1>2. /\ marks' \in [Marks -> MarkRec]
      /\ marks'[m] = k /\ \A j \in Marks : j # m => marks'[j] = marks[j]
  BY <1>1
<1>3. \A j \in Marks : MarkOK(marks'[j], inbox)
  BY <1>2 DEF MarksOK
<1>4. MarksOK'
  BY <1>3 DEF MarksOK
<1> QED
  BY <1>2, <1>4

\* An answered mark whose notice changes becomes old.
LEMMA MarksOvertaken ==
    ASSUME NoticesTyped, MarksOK, NEW ch \in SUBSET Notices,
           inbox' \in [Notices -> NoticeStates], Grows(inbox, inbox', ch), NEW m \in Marks
    PROVE  LET k == OvertakenMarks(ch)[m] IN
           k \in MarkRec /\ MarkOK(k, inbox') /\ SameMark(marks[m], k)
<1>1. PICK k \in MarkRec : k = marks[m]
  BY DEF NoticesTyped
<1>2. MarkOK(k, inbox)
  BY <1>1 DEF MarksOK
<1>3. PICK o : o = OvertakenMarks(ch)[m]
  OBVIOUS
<1>4. o = IF k.stage # "answered" THEN k
          ELSE [k EXCEPT !.stale = @ \/ k.notice \subseteq ch]
  BY <1>1, <1>3 DEF OvertakenMarks
<1>5. k.notice \in SUBSET Notices
  BY MarkFields
<1>6. CASE k.stage # "answered"
  <2>1. o = k
    BY <1>4, <1>6
  <2>2. MarkOK(k, inbox')
    BY <1>2, <1>5, <1>6 DEF MarkOK, Grows
  <2> QED
    BY <1>1, <1>3, <2>1, <2>2 DEF SameMark
<1>7. CASE k.stage = "answered"
  <2>1. k # NoMark
    BY <1>7, NoticeConstants
  <2>2. PICK n \in Notices : k.notice = {n}
    BY <2>1, MarkFields
  <2>3. k \in [stage : {"sent", "found", "answered"}, notice : {{x} : x \in Notices},
               to : {"READ", "UNREAD"}, stale : BOOLEAN, heard : BOOLEAN]
    BY <2>1 DEF MarkRec
  <2>4. PICK b \in BOOLEAN : b = (k.stale \/ k.notice \subseteq ch)
    OBVIOUS
  <2>5. o = [k EXCEPT !.stale = b]
    BY <1>4, <1>7, <2>4, Zenon
  <2>6. /\ o \in [stage : {"sent", "found", "answered"}, notice : {{x} : x \in Notices},
                  to : {"READ", "UNREAD"}, stale : BOOLEAN, heard : BOOLEAN]
        /\ o.stage = k.stage /\ o.notice = k.notice /\ o.to = k.to /\ o.stale = b
        /\ o.heard = k.heard
    BY <2>3, <2>5
  <2>7. o \in MarkRec
    BY <2>6 DEF MarkRec
  <2>8. ~b => n \notin ch /\ ~k.stale
    BY <2>2, <2>4
  <2>9. MarkOK(o, inbox')
    BY <1>2, <1>7, <2>2, <2>6, <2>8 DEF MarkOK, Grows
  <2>10. SameMark(k, o)
    BY <1>7, <2>1, <2>6, NoticeConstants DEF SameMark
  <2> QED
    BY <1>1, <1>3, <2>7, <2>9, <2>10
<1> QED
  BY <1>6, <1>7

LEMMA AllMarksOvertaken ==
    ASSUME NoticesTyped, MarksOK, NEW ch \in SUBSET Notices,
           inbox' \in [Notices -> NoticeStates], Grows(inbox, inbox', ch),
           marks' = OvertakenMarks(ch)
    PROVE  /\ marks' \in [Marks -> MarkRec] /\ MarksOK'
           /\ \A m \in Marks : SameMark(marks[m], marks'[m])
<1>1. \A m \in Marks : /\ marks'[m] \in MarkRec /\ MarkOK(marks'[m], inbox')
                       /\ SameMark(marks[m], marks'[m])
  BY MarksOvertaken
<1>2. marks' = [m \in Marks |-> marks'[m]]
  BY DEF OvertakenMarks
<1>3. marks' \in [Marks -> MarkRec]
  BY <1>1, <1>2
<1> QED
  BY <1>1, <1>3 DEF MarksOK

\* What is shown depends on the task only while that reloads.
LEMMA ShownStays ==
    ASSUME NoticesTyped, Shows,
           UNCHANGED <<inbox, list, listed, spot, counter, fetches, marks, excused>>,
           spot = "page" /\ Reloading => Reloading', strays' \subseteq strays,
           spot = "card" => task' = NoTask
    PROVE  Shows'
<1>1. /\ inbox' = inbox /\ list' = list /\ listed' = listed /\ spot' = spot
      /\ counter' = counter /\ fetches' = fetches /\ marks' = marks /\ excused' = excused
  OBVIOUS
<1>2. FetchesOK' /\ MarksOK' /\ ListOK'
  BY <1>1 DEF Shows, FetchesOK, MarksOK, ListOK
<1>3. Loading' <=> Loading
  BY <1>1 DEF Loading
<1>4. \A n \in Notices : Accounted(n)' <=> Accounted(n)
  BY <1>1 DEF Accounted, Marking
<1>5. PageOK' /\ AwayOK'
  BY <1>1, <1>3, <1>4 DEF Shows, PageOK, AwayOK
<1>6. IsUnread(FirstPage(inbox')) = IsUnread(FirstPage(inbox))
  BY <1>1
<1>7. CardOK'
  BY <1>1, <1>3, <1>6 DEF Shows, CardOK
<1>8. NoticesAppear'
  BY <1>1 DEF Shows, NoticesAppear
<1> QED
  BY <1>2, <1>5, <1>7, <1>8 DEF Shows

Enabling == task.op = "enable" /\ task.stage # "ask"
Enabled == task.op = "enable" /\ task.stage = "answered"

\* The listener depends on little.
LEMMA EarStays ==
    ASSUME EarOK, NoticesTyped, UNCHANGED <<ear, permission, subs, spot>>,
           Enabling' => Enabling, Enabled => Enabled', strays' \subseteq strays,
           noticeFaults' \in Nat, noticeFaults' = 0 => noticeFaults = 0
    PROVE  EarOK'
<1>1. ear' = ear /\ permission' = permission /\ subs' = subs /\ spot' = spot
  OBVIOUS
<1> QED
  BY <1>1 DEF EarOK, Enabling, Enabled

LEMMA NoticeFaults ==
    ASSUME NoticesTyped, NoticeFault
    PROVE  noticeFaults' \in Nat /\ noticeFaults' # 0
  BY DEF NoticesTyped, NoticeFault

\* No load of a task ends or begins.
LEMMA TasksStay ==
    ASSUME NoticesTyped, TaskOK, fetches' \in [Fetches -> FetchRec],
           \A f \in Fetches : fetches'[f].ofTask => fetches[f].ofTask,
           task.stage = "load" => task' = task
    PROVE  TaskOK'
  BY DEF TaskOK

-----------------------------------------------------------------------------
(* Buttons and web push                                                    *)

\* The button of a task, on the page, where no task works.
LEMMA StartInv ==
    ASSUME NoticeInv, NEW op \in {"markAll", "test", "enable"}, NEW stage \in {"sent", "ask"},
           op = "enable" => stage = "ask", Start(op, stage)
    PROVE  NoticeInv'
<1>1. /\ UNCHANGED <<inbox, list, listed, spot, counter, fetches, marks, excused>>
      /\ UNCHANGED <<ear, permission, subs, noticeFaults, strays>>
      /\ spot = "page" /\ task = NoTask /\ task' = [op |-> op, stage |-> stage]
  BY DEF Start, shownVars, pushVars
<1>2. task' \in TaskRec /\ task'.op = op /\ task'.stage = stage
  BY <1>1 DEF TaskRec
<1>3. NoticesTyped'
  BY <1>1, <1>2 DEF NoticeInv, NoticesTyped
<1>4. ~Reloading
  BY <1>1, NoticeConstants DEF Reloading
<1>5. Shows'
  BY <1>1, <1>4, ShownStays DEF NoticeInv
<1>6. TaskOK'
  BY <1>1, TasksStay, NoticeConstants DEF NoticeInv, NoticesTyped
<1>7. (Enabling' => Enabling) /\ (Enabled => Enabled')
  BY <1>1, <1>2, NoticeConstants DEF Enabling, Enabled
<1>8. EarOK'
  BY <1>1, <1>7, EarStays DEF NoticeInv, NoticesTyped
<1> QED
  BY <1>3, <1>5, <1>6, <1>8 DEF NoticeInv

LEMMA ButtonsInv ==
    ASSUME NoticeInv, markAllRead \/ sendTest \/ enableNotifications
    PROVE  NoticeInv'
  BY StartInv DEF markAllRead, sendTest, enableNotifications

\* A task goes on or ends without a load, and nothing that is shown changes.
LEMMA TaskMoves ==
    ASSUME NoticeInv, NEW t \in TaskRec, task' = t, task.stage # "load" \/ spot = "away",
           spot = "page" => ~Reloading, spot = "card" => t = NoTask, strays' \subseteq strays,
           UNCHANGED <<inbox, list, listed, spot, counter, fetches, marks, excused>>
    PROVE  Shows' /\ TaskOK'
<1>1. Shows'
  BY ShownStays DEF NoticeInv
<1>2. TaskOK'
  <2>1. fetches' = fetches /\ fetches \in [Fetches -> FetchRec]
    BY DEF NoticeInv, NoticesTyped
  <2>2. CASE task.stage # "load"
    BY <2>1, <2>2, TasksStay DEF NoticeInv
  <2>3. CASE spot = "away"
    <3>1. \A f \in Fetches : fetches'[f] = NoFetch
      BY <2>1, <2>3 DEF NoticeInv, Shows, AwayOK, Loading
    <3>2. \A f \in Fetches : ~fetches'[f].ofTask
      BY <3>1, NoticeConstants
    <3> QED
      BY <3>2 DEF TaskOK
  <2> QED
    BY <2>2, <2>3
<1> QED
  BY <1>1, <1>2

LEMMA CardHasNoTask ==
    ASSUME NoticeInv, task # NoTask
    PROVE  spot # "card"
  BY DEF NoticeInv, Shows, CardOK

LEMMA RefuseTestPushInv ==
    ASSUME NoticeInv, refuseTestPush
    PROVE  NoticeInv'
<1>1. /\ UNCHANGED <<inbox, list, listed, spot, counter, fetches, marks, excused>>
      /\ UNCHANGED <<ear, permission, subs, noticeFaults, strays>>
      /\ task.op = "test" /\ task.stage = "sent" /\ task' = NoTask
  BY DEF refuseTestPush, shownVars, pushVars
<1>2. Shows' /\ TaskOK'
  BY <1>1, TaskMoves, NoticeConstants DEF Reloading
<1>3. NoticesTyped'
  BY <1>1, NoticeConstants DEF NoticeInv, NoticesTyped
<1>4. EarOK'
  BY <1>1, NoticeConstants, EarStays DEF NoticeInv, NoticesTyped, Enabling, Enabled
<1> QED
  BY <1>2, <1>3, <1>4 DEF NoticeInv

LEMMA EndUnseenInv ==
    ASSUME NoticeInv, endUnseen
    PROVE  NoticeInv'
<1>1. /\ UNCHANGED <<inbox, list, listed, spot, counter, fetches, marks, excused>>
      /\ UNCHANGED <<ear, permission, subs, noticeFaults, strays>>
      /\ task.op \in {"markAll", "test"} /\ spot = "away" /\ task' = NoTask
  BY DEF endUnseen, shownVars, pushVars
<1>2. Shows' /\ TaskOK'
  BY <1>1, TaskMoves, NoticeConstants
<1>3. NoticesTyped'
  BY <1>1, NoticeConstants DEF NoticeInv, NoticesTyped
<1>4. EarOK'
  BY <1>1, NoticeConstants, EarStays DEF NoticeInv, NoticesTyped, Enabling, Enabled
<1> QED
  BY <1>2, <1>3, <1>4 DEF NoticeInv

\* The subscription is stored: the listener will be started.
LEMMA RegisterWebPushInv ==
    ASSUME NoticeInv, registerWebPush
    PROVE  NoticeInv'
<1>1. /\ UNCHANGED <<inbox, list, listed, spot, counter, fetches, marks, excused>>
      /\ UNCHANGED <<ear, permission, noticeFaults, strays>>
      /\ task.op = "enable" /\ task.stage = "register" /\ subs' = subs \cup {"this"}
      /\ task' = [task EXCEPT !.stage = "answered"]
  BY DEF registerWebPush, shownVars, pushVars
<1>2. task # NoTask /\ task \in TaskRec
  BY <1>1, NoticeConstants DEF NoticeInv, NoticesTyped
<1>3. task' \in TaskRec /\ task'.op = "enable" /\ task'.stage = "answered"
  BY <1>1, <1>2 DEF TaskRec
<1>4. Shows' /\ TaskOK'
  BY <1>1, <1>2, <1>3, TaskMoves, CardHasNoTask DEF Reloading
<1>5. NoticesTyped'
  BY <1>1, <1>3 DEF NoticeInv, NoticesTyped
<1>6. permission = "granted"
  BY <1>1 DEF NoticeInv, EarOK
<1>7. EarOK'
  BY <1>1, <1>3, <1>6 DEF NoticeInv, EarOK
<1> QED
  BY <1>4, <1>5, <1>7 DEF NoticeInv

\* A browser that has not asked for permission is not registered.
LEMMA RequestPermissionInv ==
    ASSUME NoticeInv, NEW answer \in {"granted", "denied"}, requestPermission(answer)
    PROVE  NoticeInv'
<1>1. /\ UNCHANGED <<inbox, list, listed, spot, counter, fetches, marks, excused>>
      /\ UNCHANGED <<ear, subs, noticeFaults, strays>>
      /\ task.op = "enable" /\ task.stage = "ask"
      /\ permission # "default" => answer = permission
      /\ permission' = answer
      /\ task' = IF answer = "granted" THEN [task EXCEPT !.stage = "register"] ELSE NoTask
  BY DEF requestPermission, shownVars, pushVars
<1>2. task # NoTask /\ task \in TaskRec
  BY <1>1, NoticeConstants DEF NoticeInv, NoticesTyped
<1>3. /\ task' \in TaskRec
      /\ answer = "granted" => task'.op = "enable" /\ task'.stage = "register"
      /\ answer # "granted" => task' = NoTask
  BY <1>1, <1>2, NoticeConstants DEF TaskRec
<1>4. Shows' /\ TaskOK'
  BY <1>1, <1>2, <1>3, TaskMoves, CardHasNoTask DEF Reloading
<1>5. NoticesTyped'
  BY <1>1, <1>3 DEF NoticeInv, NoticesTyped
<1>6. EarOK'
  BY <1>1, <1>3, NoticeConstants DEF NoticeInv, EarOK
<1> QED
  BY <1>4, <1>5, <1>6 DEF NoticeInv

LEMMA WebpushEnabledInv ==
    ASSUME NoticeInv, webpushEnabled
    PROVE  NoticeInv'
<1>1. /\ UNCHANGED <<inbox, list, listed, spot, counter, fetches, marks, excused>>
      /\ UNCHANGED <<permission, subs, noticeFaults, strays>>
      /\ task.op = "enable" /\ task.stage = "answered" /\ task' = NoTask /\ start
  BY DEF webpushEnabled, shownVars, pushVars
<1>2. Shows' /\ TaskOK'
  BY <1>1, TaskMoves, NoticeConstants DEF Reloading
<1>3. permission = "granted" /\ EarOK /\ NoticesTyped
  BY <1>1 DEF NoticeInv, EarOK
<1>4. CASE ear' = ear /\ (ear.starting \/ ear.handlers > 0 \/ spot = "away")
  <2>1. NoticesTyped'
    BY <1>1, <1>3, <1>4, NoticeConstants DEF NoticesTyped
  <2>2. EarOK'
    BY <1>1, <1>3, <1>4, NoticeConstants DEF EarOK, NoticesTyped
  <2> QED
    BY <1>2, <2>1, <2>2 DEF NoticeInv
<1>5. CASE /\ ear' = [ear EXCEPT !.starting = TRUE] /\ ~ear.starting
           /\ ~(ear.handlers > 0) /\ spot # "away"
  <2>1. PICK yes \in BOOLEAN : yes = TRUE
    OBVIOUS
  <2>2. ear' = [ear EXCEPT !.starting = yes]
    BY <1>5, <2>1
  <2>3. /\ ear' \in [starting : BOOLEAN, handlers : Nat]
        /\ ear'.handlers = ear.handlers /\ ear'.starting = yes
    BY <1>3, <2>2 DEF NoticesTyped
  <2>4. ear.handlers = 0
    BY <1>3, <1>5 DEF NoticesTyped
  <2>5. NoticesTyped'
    BY <1>1, <1>3, <2>3, NoticeConstants DEF NoticesTyped
  <2>6. EarOK'
    BY <1>1, <1>3, <2>1, <2>3, <2>4, NoticeConstants DEF EarOK
  <2> QED
    BY <1>2, <2>5, <2>6 DEF NoticeInv
<1> QED
  BY <1>1, <1>3, <1>4, <1>5 DEF start

\* Only the listener changes.
LEMMA EarMoves ==
    ASSUME NoticeInv, NEW b \in BOOLEAN, NEW h \in Nat,
           ear' = [ear EXCEPT !.starting = b, !.handlers = h],
           UNCHANGED <<inbox, list, listed, spot, counter, fetches, marks, excused, task,
                       permission, subs, strays>>,
           noticeFaults' \in Nat
    PROVE  /\ NoticesTyped' /\ Shows' /\ TaskOK'
           /\ ear'.starting = b /\ ear'.handlers = h
<1>1. ear \in [starting : BOOLEAN, handlers : Nat]
  BY DEF NoticeInv, NoticesTyped
<1>2. /\ ear' \in [starting : BOOLEAN, handlers : Nat]
      /\ ear'.starting = b /\ ear'.handlers = h
  BY <1>1
<1>3. NoticesTyped'
  BY <1>2 DEF NoticeInv, NoticesTyped
<1>4. Reloading' <=> Reloading
  BY DEF Reloading
<1>5. Shows'
  BY <1>4, ShownStays DEF NoticeInv, Shows, CardOK
<1>6. TaskOK'
  BY TasksStay DEF NoticeInv, NoticesTyped
<1> QED
  BY <1>2, <1>3, <1>5, <1>6

LEMMA ListeningInv ==
    ASSUME NoticeInv, listening
    PROVE  NoticeInv'
<1>1. PICK no \in BOOLEAN : no = FALSE
  OBVIOUS
<1>2. PICK h : h = IF spot # "away" THEN ear.handlers + 1 ELSE ear.handlers
  OBVIOUS
<1>3. /\ UNCHANGED <<inbox, list, listed, spot, counter, fetches, marks, excused, task,
                     permission, subs, strays, noticeFaults>>
      /\ ear.starting
  BY DEF listening, shownVars
<1>4. ear' = [ear EXCEPT !.starting = no, !.handlers = h]
  BY <1>1, <1>2, Zenon DEF listening
<1>5. NoticesTyped /\ EarOK /\ ear.handlers = 0
  BY <1>3 DEF NoticeInv, EarOK
<1>6. h \in Nat /\ h = IF spot # "away" THEN 1 ELSE 0
  BY <1>2, <1>5
<1>7. noticeFaults' \in Nat
  BY <1>3, <1>5 DEF NoticesTyped
<1>8. NoticesTyped' /\ Shows' /\ TaskOK' /\ ear'.starting = no /\ ear'.handlers = h
  BY <1>3, <1>4, <1>6, <1>7, EarMoves
<1>9. EarOK'
  BY <1>1, <1>3, <1>5, <1>6, <1>8 DEF EarOK
<1> QED
  BY <1>8, <1>9 DEF NoticeInv

LEMMA ListeningFailsInv ==
    ASSUME NoticeInv, listeningFails
    PROVE  NoticeInv'
<1>1. PICK no \in BOOLEAN : no = FALSE
  OBVIOUS
<1>2. PICK h \in Nat : h = ear.handlers
  BY DEF NoticeInv, NoticesTyped
<1>3. /\ UNCHANGED <<inbox, list, listed, spot, counter, fetches, marks, excused, task,
                     permission, subs, strays>>
      /\ ear.starting /\ NoticeFault
  BY DEF listeningFails, shownVars
<1>4. ear' = [ear EXCEPT !.starting = no]
  BY <1>1, Zenon DEF listeningFails
<1>5. ear' = [ear EXCEPT !.starting = no, !.handlers = h]
  BY <1>2, <1>4 DEF NoticeInv, NoticesTyped
<1>6. NoticesTyped /\ EarOK /\ noticeFaults' \in Nat /\ noticeFaults' # 0
  BY <1>3, NoticeFaults DEF NoticeInv
<1>7. NoticesTyped' /\ Shows' /\ TaskOK' /\ ear'.starting = no /\ ear'.handlers = h
  BY <1>3, <1>5, <1>6, EarMoves
<1>8. EarOK'
  BY <1>1, <1>2, <1>3, <1>6, <1>7 DEF EarOK
<1> QED
  BY <1>7, <1>8 DEF NoticeInv

\* Nothing that the invariant is about moves.
LEMMA NoticesStay ==
    ASSUME NoticeInv,
           UNCHANGED <<inbox, list, listed, spot, counter, fetches, marks, excused, task,
                       permission, subs, ear, noticeFaults>>,
           strays' \subseteq strays
    PROVE  NoticeInv'
<1>1. NoticesTyped'
  BY DEF NoticeInv, NoticesTyped
<1>2. Reloading' <=> Reloading
  BY DEF Reloading
<1>3. Shows'
  BY <1>2, ShownStays DEF NoticeInv, Shows, CardOK
<1>4. TaskOK'
  BY TasksStay DEF NoticeInv, NoticesTyped
<1>5. EarOK'
  BY EarStays DEF NoticeInv, NoticesTyped, Enabling, Enabled
<1> QED
  BY <1>1, <1>3, <1>4, <1>5 DEF NoticeInv

LEMMA PushUnheardInv ==
    ASSUME NoticeInv, NEW n \in Notices, pushUnheard(n)
    PROVE  NoticeInv'
  BY NoticesStay DEF pushUnheard, shownVars

\* What a task that failed may have changed is not on the page.
LEMMA TaskFailsInv ==
    ASSUME NoticeInv, taskFails
    PROVE  NoticeInv'
<1>1. /\ UNCHANGED <<inbox, list, listed, spot, counter, fetches, marks>>
      /\ UNCHANGED <<ear, permission, subs>>
      /\ NoticeFault /\ task.op # "none" /\ task.stage # "load" /\ task' = NoTask
      /\ excused' = IF task.op # "enable" /\ task.stage = "answered" THEN Notices ELSE excused
      /\ strays' = IF task.stage \in {"sent", "register"}
                   THEN strays \cup {<<task.op, noticeFaults>>} ELSE strays
  BY DEF taskFails
<1>2. NoticesTyped /\ noticeFaults' \in Nat /\ noticeFaults' # 0
  BY <1>1, NoticeFaults DEF NoticeInv
<1>3. excused' \in SUBSET Notices /\ excused \subseteq excused'
  BY <1>1, <1>2 DEF NoticesTyped
<1>4. NoticesTyped'
  BY <1>1, <1>2, <1>3, NoticeConstants DEF NoticesTyped
<1>5. FetchesOK' /\ MarksOK' /\ ListOK'
  BY <1>1 DEF NoticeInv, Shows, FetchesOK, MarksOK, ListOK
<1>6. Loading' <=> Loading
  BY <1>1 DEF Loading
<1>7. PageOK'
  <2> SUFFICES ASSUME spot = "page", ~Loading PROVE \A n \in Notices : Accounted(n)'
    BY <1>1, <1>6 DEF PageOK
  <2>1. CASE task.op # "enable" /\ task.stage = "answered"
    BY <1>1, <2>1 DEF Accounted
  <2>2. CASE ~(task.op # "enable" /\ task.stage = "answered")
    <3>1. \A n \in Notices : Accounted(n)
      BY <2>2 DEF NoticeInv, Shows, PageOK, Reloading
    <3> QED
      BY <1>1, <1>3, <3>1 DEF Accounted, Marking
  <2> QED
    BY <2>1, <2>2
<1>8. spot # "card"
  BY <1>1, NoticeConstants, CardHasNoTask
<1>9. CardOK' /\ AwayOK' /\ NoticesAppear'
  BY <1>1, <1>6, <1>8 DEF NoticeInv, Shows, CardOK, AwayOK, NoticesAppear
<1>10. Shows'
  BY <1>5, <1>7, <1>9 DEF Shows
<1>11. TaskOK'
  BY <1>1, <1>2, TasksStay DEF NoticeInv, NoticesTyped
<1>12. EarOK'
  <2>1. ASSUME NEW r \in strays', r[1] = "enable" PROVE permission = "granted"
    <3>1. CASE r \in strays
      BY <2>1, <3>1 DEF NoticeInv, EarOK
    <3>2. CASE r \notin strays
      <4>1. task.stage # "ask" /\ r = <<task.op, noticeFaults>>
        BY <1>1, <3>2
      <4>2. task.op = "enable"
        BY <2>1, <4>1
      <4> QED
        BY <4>1, <4>2 DEF NoticeInv, EarOK
    <3> QED
      BY <3>1, <3>2
  <2> QED
    BY <1>1, <1>2, <2>1, NoticeConstants DEF NoticeInv, EarOK
<1> QED
  BY <1>4, <1>10, <1>11, <1>12 DEF NoticeInv

-----------------------------------------------------------------------------
(* The table changes                                                       *)

\* A change is known, or belongs to a mark or a task that is under way.
LEMMA TableChanges ==
    ASSUME NoticeInv, NEW ch \in SUBSET Notices,
           inbox' \in [Notices -> NoticeStates], Grows(inbox, inbox', ch),
           fetches' = Overtaken(ch),
           marks' \in [Marks -> MarkRec], MarksOK',
           \A m \in Marks : SameMark(marks[m], marks'[m]),
           UNCHANGED <<list, listed, spot, counter>>, excused \subseteq excused',
           spot = "page" =>
               \/ Reloading'
               \/ /\ ~Reloading
                  /\ \A n \in ch : \/ n \in excused'
                                   \/ \E m \in Marks : marks[m].heard /\ n \in marks[m].notice,
           spot = "card" => task' = NoTask /\ strays' = {} /\ excused' # {}
    PROVE  Shows' /\ fetches' \in [Fetches -> FetchRec]
           /\ \A f \in Fetches : fetches'[f].ofTask = fetches[f].ofTask
<1>1. NoticesTyped /\ Shows
  BY DEF NoticeInv
<1>2. /\ fetches' \in [Fetches -> FetchRec] /\ FetchesOK'
      /\ \A f \in Fetches : SameFetch(fetches[f], fetches'[f])
  BY <1>1, FetchesOvertaken DEF Shows
<1>3. Loading' <=> Loading
  BY <1>2 DEF Loading, SameFetch
<1>4. ListOK'
  BY <1>1 DEF Shows, ListOK, Grows
<1>5. PageOK'
  <2> SUFFICES ASSUME spot = "page", ~Loading, ~Reloading', NEW n \in Notices
               PROVE  Accounted(n)'
    BY <1>3 DEF PageOK
  <2>1. /\ ~Reloading
        /\ n \in ch => \/ n \in excused'
                       \/ \E m \in Marks : marks[m].heard /\ n \in marks[m].notice
    OBVIOUS
  <2>2. Accounted(n)
    BY <1>1, <2>1 DEF Shows, PageOK
  <2>3. Marking(n) => Marking(n)'
    BY DEF Marking, SameMark
  <2>4. n \notin Newest(inbox) => n \notin Newest(inbox')
    BY <1>1, PageMovesOn DEF NoticesTyped
  <2>5. CASE n \notin ch
    BY <2>2, <2>3, <2>5, <2>4 DEF Accounted, Grows
  <2>6. CASE n \in ch /\ n \notin excused'
    <3>1. PICK m \in Marks : marks[m].heard /\ n \in marks[m].notice
      BY <2>1, <2>6
    <3>2. inbox[n] # "ABSENT"
      BY <1>1, <3>1 DEF Shows, MarksOK, MarkOK
    <3>3. CASE list[n] # "ABSENT"
      <4>1. Marking(n)
        BY <3>1, <3>3 DEF Marking
      <4> QED
        BY <2>3, <4>1 DEF Accounted
    <3>4. CASE list[n] = "ABSENT"
      <4>1. n \notin Newest(inbox)
        BY <2>2, <2>6, <3>2, <3>4 DEF Accounted, Marking
      <4> QED
        BY <2>4, <3>4, <4>1 DEF Accounted
    <3> QED
      BY <3>3, <3>4
  <2> QED
    BY <2>5, <2>6 DEF Accounted
<1>6. CardOK'
  BY <1>1 DEF Shows, CardOK, SameMark
<1>7. AwayOK'
  BY <1>1, <1>3 DEF Shows, AwayOK
<1>8. NoticesAppear'
  BY <1>1, <1>3 DEF Shows, NoticesAppear, Loading
<1>9. \A f \in Fetches : fetches'[f].ofTask = fetches[f].ofTask
  BY <1>2 DEF SameFetch
<1> QED
  BY <1>2, <1>4, <1>5, <1>6, <1>7, <1>8, <1>9 DEF Shows

\* A notification is made.
LEMMA Created ==
    ASSUME NoticesTyped, MarksOK, NEW n \in Notices, CreateNotice(n), marks' = marks
    PROVE  /\ inbox' \in [Notices -> NoticeStates] /\ Grows(inbox, inbox', {n})
           /\ fetches' = Overtaken({n})
           /\ MarksOK'
<1>1. inbox' = [inbox EXCEPT ![n] = "UNREAD"] /\ inbox[n] = "ABSENT" /\ fetches' = Overtaken({n})
  BY DEF CreateNotice
<1>2. inbox \in [Notices -> NoticeStates]
  BY DEF NoticesTyped
<1>3. inbox' \in [Notices -> NoticeStates] /\ inbox'[n] = "UNREAD"
      /\ \A o \in Notices : o # n => inbox'[o] = inbox[o]
  BY <1>1, <1>2 DEF NoticeStates
<1>4. Grows(inbox, inbox', {n})
  BY <1>3 DEF Grows
<1>5. ASSUME NEW m \in Marks PROVE MarkOK(marks[m], inbox')
  <2>1. MarkOK(marks[m], inbox) /\ marks[m] \in MarkRec
    BY DEF MarksOK, NoticesTyped
  <2>2. n \notin marks[m].notice /\ marks[m].notice \in SUBSET Notices
    BY <1>1, <2>1, MarkFields DEF MarkOK
  <2> QED
    BY <1>3, <2>1, <2>2 DEF MarkOK
<1>6. MarksOK'
  BY <1>5 DEF MarksOK
<1> QED
  BY <1>1, <1>3, <1>4, <1>6

LEMMA ArriveInv ==
    ASSUME NoticeInv, NEW n \in Notices, arrive(n)
    PROVE  NoticeInv'
<1>1. /\ UNCHANGED <<list, listed, spot, counter, marks, task, permission, subs, ear,
                     strays, noticeFaults>>
      /\ CreateNotice(n) /\ excused' = excused \cup {n}
  BY DEF arrive
<1>2. NoticesTyped /\ MarksOK
  BY DEF NoticeInv, Shows
<1>3. /\ inbox' \in [Notices -> NoticeStates] /\ Grows(inbox, inbox', {n})
      /\ fetches' = Overtaken({n}) /\ MarksOK'
  BY <1>1, <1>2, Created
<1>4. marks' \in [Marks -> MarkRec] /\ \A m \in Marks : SameMark(marks[m], marks'[m])
  BY <1>1, <1>2 DEF NoticesTyped, SameMark
<1>5. Reloading' <=> Reloading
  BY <1>1 DEF Reloading
<1>6. spot = "card" => task' = NoTask /\ strays' = {}
  BY <1>1 DEF NoticeInv, Shows, CardOK
<1>7. /\ Shows' /\ fetches' \in [Fetches -> FetchRec]
      /\ \A f \in Fetches : fetches'[f].ofTask = fetches[f].ofTask
  BY <1>1, <1>3, <1>4, <1>5, <1>6, TableChanges
<1>8. NoticesTyped'
  BY <1>1, <1>2, <1>3, <1>7 DEF NoticesTyped
<1>9. TaskOK'
  BY <1>1, <1>7, TasksStay DEF NoticeInv
<1>10. EarOK'
  BY <1>1, EarStays DEF NoticeInv, NoticesTyped, Enabling, Enabled
<1> QED
  BY <1>7, <1>8, <1>9, <1>10 DEF NoticeInv

LEMMA QueueTestPushInv ==
    ASSUME NoticeInv, NEW n \in Notices, queueTestPush(n)
    PROVE  NoticeInv'
<1>1. /\ UNCHANGED <<list, listed, spot, counter, marks, permission, subs, ear, strays,
                     noticeFaults>>
      /\ CreateNotice(n) /\ excused' = excused \cup {n}
      /\ task.op = "test" /\ task.stage = "sent"
      /\ task' = [task EXCEPT !.stage = "answered"]
  BY DEF queueTestPush
<1>2. NoticesTyped /\ MarksOK
  BY DEF NoticeInv, Shows
<1>3. /\ inbox' \in [Notices -> NoticeStates] /\ Grows(inbox, inbox', {n})
      /\ fetches' = Overtaken({n}) /\ MarksOK'
  BY <1>1, <1>2, Created
<1>4. marks' \in [Marks -> MarkRec] /\ \A m \in Marks : SameMark(marks[m], marks'[m])
  BY <1>1, <1>2 DEF NoticesTyped, SameMark
<1>5. task # NoTask /\ task \in TaskRec
  BY <1>1, <1>2, NoticeConstants DEF NoticesTyped
<1>6. task' \in TaskRec /\ task'.op = "test" /\ task'.stage = "answered"
  BY <1>1, <1>5 DEF TaskRec
<1>7. Reloading'
  BY <1>6 DEF Reloading
<1>8. spot # "card"
  BY <1>5, CardHasNoTask
<1>9. /\ Shows' /\ fetches' \in [Fetches -> FetchRec]
      /\ \A f \in Fetches : fetches'[f].ofTask = fetches[f].ofTask
  BY <1>1, <1>3, <1>4, <1>7, <1>8, TableChanges
<1>10. NoticesTyped'
  BY <1>1, <1>2, <1>3, <1>6, <1>9 DEF NoticesTyped
<1>11. TaskOK'
  BY <1>1, <1>9, TasksStay DEF NoticeInv
<1>12. EarOK'
  BY <1>1, <1>6, EarStays DEF NoticeInv, NoticesTyped, Enabling, Enabled
<1> QED
  BY <1>9, <1>10, <1>11, <1>12 DEF NoticeInv

LEMMA MarkElsewhereInv ==
    ASSUME NoticeInv, NEW n \in Notices, NEW to \in {"READ", "UNREAD"}, markElsewhere(n, to)
    PROVE  NoticeInv'
<1>1. /\ UNCHANGED <<list, listed, spot, counter, task, permission, subs, ear, strays,
                     noticeFaults>>
      /\ inbox' = [inbox EXCEPT ![n] = to] /\ excused' = excused \cup {n}
      /\ fetches' = Overtaken({n}) /\ marks' = OvertakenMarks({n})
  BY DEF markElsewhere, pushVars
<1>2. NoticesTyped /\ MarksOK
  BY DEF NoticeInv, Shows
<1>3. inbox' \in [Notices -> NoticeStates] /\ Grows(inbox, inbox', {n})
  BY <1>1, <1>2 DEF NoticesTyped, NoticeStates, Grows
<1>4. /\ marks' \in [Marks -> MarkRec] /\ MarksOK'
      /\ \A m \in Marks : SameMark(marks[m], marks'[m])
  BY <1>1, <1>2, <1>3, AllMarksOvertaken
<1>5. Reloading' <=> Reloading
  BY <1>1 DEF Reloading
<1>6. spot = "card" => task' = NoTask /\ strays' = {}
  BY <1>1 DEF NoticeInv, Shows, CardOK
<1>7. /\ Shows' /\ fetches' \in [Fetches -> FetchRec]
      /\ \A f \in Fetches : fetches'[f].ofTask = fetches[f].ofTask
  BY <1>1, <1>3, <1>4, <1>5, <1>6, TableChanges
<1>8. NoticesTyped'
  BY <1>1, <1>2, <1>3, <1>4, <1>7 DEF NoticesTyped
<1>9. TaskOK'
  BY <1>1, <1>7, TasksStay DEF NoticeInv
<1>10. EarOK'
  BY <1>1, EarStays DEF NoticeInv, NoticesTyped, Enabling, Enabled
<1> QED
  BY <1>7, <1>8, <1>9, <1>10 DEF NoticeInv

LEMMA MarkAllReadInv ==
    ASSUME NoticeInv, markAllReadForUser
    PROVE  NoticeInv'
<1>1. PICK ch \in SUBSET Notices : ch = IsUnread(inbox)
  BY DEF IsUnread
<1>2. /\ UNCHANGED <<list, listed, spot, counter, excused, permission, subs, ear, strays,
                     noticeFaults>>
      /\ inbox' = [n \in Notices |-> IF n \in ch THEN "READ" ELSE inbox[n]]
      /\ fetches' = Overtaken(ch) /\ marks' = OvertakenMarks(ch)
      /\ task.op = "markAll" /\ task.stage = "sent"
      /\ task' = [task EXCEPT !.stage = "answered"]
  BY <1>1 DEF markAllReadForUser, MarkAll, pushVars, shownVars
<1>3. NoticesTyped /\ MarksOK
  BY DEF NoticeInv, Shows
<1>4. inbox' \in [Notices -> NoticeStates] /\ Grows(inbox, inbox', ch)
  BY <1>2, <1>3 DEF NoticesTyped, NoticeStates, Grows
<1>5. /\ marks' \in [Marks -> MarkRec] /\ MarksOK'
      /\ \A m \in Marks : SameMark(marks[m], marks'[m])
  BY <1>2, <1>3, <1>4, AllMarksOvertaken
<1>6. task # NoTask /\ task \in TaskRec
  BY <1>2, <1>3, NoticeConstants DEF NoticesTyped
<1>7. task' \in TaskRec /\ task'.op = "markAll" /\ task'.stage = "answered"
  BY <1>2, <1>6 DEF TaskRec
<1>8. Reloading' /\ spot # "card"
  BY <1>6, <1>7, CardHasNoTask DEF Reloading
<1>9. /\ Shows' /\ fetches' \in [Fetches -> FetchRec]
      /\ \A f \in Fetches : fetches'[f].ofTask = fetches[f].ofTask
  BY <1>2, <1>4, <1>5, <1>8, TableChanges
<1>10. NoticesTyped'
  BY <1>2, <1>3, <1>4, <1>5, <1>7, <1>9 DEF NoticesTyped
<1>11. TaskOK'
  BY <1>2, <1>9, TasksStay DEF NoticeInv
<1>12. EarOK'
  BY <1>2, <1>7, EarStays DEF NoticeInv, NoticesTyped, Enabling, Enabled
<1> QED
  BY <1>9, <1>10, <1>11, <1>12 DEF NoticeInv

\* The service does what the client gave up on; nobody waits for it.
LEMMA StrayMarkAllInv ==
    ASSUME NoticeInv, NEW r \in strays, strayMarkAll(r)
    PROVE  NoticeInv'
<1>1. PICK ch \in SUBSET Notices : ch = IsUnread(inbox)
  BY DEF IsUnread
<1>2. /\ UNCHANGED <<list, listed, spot, counter, task, permission, subs, ear, noticeFaults>>
      /\ inbox' = [n \in Notices |-> IF n \in ch THEN "READ" ELSE inbox[n]]
      /\ fetches' = Overtaken(ch) /\ marks' = OvertakenMarks(ch)
      /\ excused' = excused \cup ch /\ strays' \subseteq strays
  BY <1>1 DEF strayMarkAll, MarkAll
<1>3. NoticesTyped /\ MarksOK
  BY DEF NoticeInv, Shows
<1>4. inbox' \in [Notices -> NoticeStates] /\ Grows(inbox, inbox', ch)
  BY <1>2, <1>3 DEF NoticesTyped, NoticeStates, Grows
<1>5. /\ marks' \in [Marks -> MarkRec] /\ MarksOK'
      /\ \A m \in Marks : SameMark(marks[m], marks'[m])
  BY <1>2, <1>3, <1>4, AllMarksOvertaken
<1>6. spot # "card" /\ (Reloading' <=> Reloading)
  BY <1>2 DEF NoticeInv, Shows, CardOK, Reloading
<1>7. /\ Shows' /\ fetches' \in [Fetches -> FetchRec]
      /\ \A f \in Fetches : fetches'[f].ofTask = fetches[f].ofTask
  BY <1>2, <1>4, <1>5, <1>6, TableChanges
<1>8. NoticesTyped'
  BY <1>2, <1>3, <1>4, <1>5, <1>7 DEF NoticesTyped
<1>9. TaskOK'
  BY <1>2, <1>7, TasksStay DEF NoticeInv
<1>10. EarOK'
  BY <1>2, EarStays DEF NoticeInv, NoticesTyped, Enabling, Enabled
<1> QED
  BY <1>7, <1>8, <1>9, <1>10 DEF NoticeInv

LEMMA StrayTestInv ==
    ASSUME NoticeInv, NEW r \in strays, NEW n \in Notices, strayTest(r, n)
    PROVE  NoticeInv'
<1>1. /\ UNCHANGED <<list, listed, spot, counter, marks, task, permission, subs, ear,
                     noticeFaults>>
      /\ CreateNotice(n) /\ excused' = excused \cup {n} /\ strays' \subseteq strays
  BY DEF strayTest
<1>2. NoticesTyped /\ MarksOK
  BY DEF NoticeInv, Shows
<1>3. /\ inbox' \in [Notices -> NoticeStates] /\ Grows(inbox, inbox', {n})
      /\ fetches' = Overtaken({n}) /\ MarksOK'
  BY <1>1, <1>2, Created
<1>4. marks' \in [Marks -> MarkRec] /\ \A m \in Marks : SameMark(marks[m], marks'[m])
  BY <1>1, <1>2 DEF NoticesTyped, SameMark
<1>5. spot # "card" /\ (Reloading' <=> Reloading)
  BY <1>1 DEF NoticeInv, Shows, CardOK, Reloading
<1>6. /\ Shows' /\ fetches' \in [Fetches -> FetchRec]
      /\ \A f \in Fetches : fetches'[f].ofTask = fetches[f].ofTask
  BY <1>1, <1>3, <1>4, <1>5, TableChanges
<1>7. NoticesTyped'
  BY <1>1, <1>2, <1>3, <1>6 DEF NoticesTyped
<1>8. TaskOK'
  BY <1>1, <1>6, TasksStay DEF NoticeInv
<1>9. EarOK'
  BY <1>1, EarStays DEF NoticeInv, NoticesTyped, Enabling, Enabled
<1> QED
  BY <1>6, <1>7, <1>8, <1>9 DEF NoticeInv

\* The browser is registered unknown to its listener, after a failure.
LEMMA StrayRegisterInv ==
    ASSUME NoticeInv, NEW r \in strays, strayRegister(r)
    PROVE  NoticeInv'
<1>1. /\ UNCHANGED <<inbox, list, listed, spot, counter, fetches, marks, excused, task,
                     permission, ear, noticeFaults>>
      /\ r[1] = "enable" /\ subs' = subs \cup {"this"} /\ strays' \subseteq strays
  BY DEF strayRegister, shownVars
<1>2. NoticesTyped'
  BY <1>1 DEF NoticeInv, NoticesTyped
<1>3. Reloading' <=> Reloading
  BY <1>1 DEF Reloading
<1>4. Shows'
  BY <1>1, <1>3, ShownStays DEF NoticeInv, Shows, CardOK
<1>5. TaskOK'
  BY <1>1, TasksStay DEF NoticeInv, NoticesTyped
<1>6. permission = "granted" /\ noticeFaults # 0
  BY <1>1 DEF NoticeInv, EarOK
<1>7. EarOK'
  BY <1>1, <1>6 DEF NoticeInv, EarOK
<1> QED
  BY <1>2, <1>4, <1>5, <1>7 DEF NoticeInv

LEMMA StrayEndsInv ==
    ASSUME NoticeInv, NEW r \in strays, strayEnds(r)
    PROVE  NoticeInv'
  BY NoticesStay DEF strayEnds, shownVars

-----------------------------------------------------------------------------
(* Marks                                                                   *)

MarkUnderWay ==
    [stage : {"sent", "found", "answered"}, notice : {{n} : n \in Notices},
     to : {"READ", "UNREAD"}, stale : BOOLEAN, heard : BOOLEAN]

LEMMA StagedMark ==
    ASSUME NEW k \in MarkRec, k.stage # "none", NEW stage \in {"sent", "found", "answered"}
    PROVE  LET j == [k EXCEPT !.stage = stage] IN
           /\ k \in MarkUnderWay /\ j \in MarkRec /\ j # NoMark
           /\ j.stage = stage /\ j.notice = k.notice /\ j.to = k.to /\ j.stale = k.stale
           /\ j.heard = k.heard
<1>1. k \in MarkUnderWay
  BY NoticeConstants DEF MarkRec, MarkUnderWay
<1>2. PICK j : j = [k EXCEPT !.stage = stage]
  OBVIOUS
<1>3. /\ j \in MarkUnderWay
      /\ j.stage = stage /\ j.notice = k.notice /\ j.to = k.to /\ j.stale = k.stale
           /\ j.heard = k.heard
  BY <1>1, <1>2 DEF MarkUnderWay
<1>4. j \in MarkRec /\ j # NoMark
  BY <1>3, NoticeConstants DEF MarkRec, MarkUnderWay
<1> QED
  BY <1>1, <1>2, <1>3, <1>4

\* Marks begin and go on, and nothing else changes.
LEMMA MarksMoveOn ==
    ASSUME NoticeInv, marks' \in [Marks -> MarkRec], MarksOK',
           spot = "page" \/ \A i \in Marks : SameMark(marks[i], marks'[i]),
           \A i \in Marks : \A n \in marks[i].notice :
               marks[i].heard => n \in marks'[i].notice /\ marks'[i].heard,
           UNCHANGED <<inbox, list, listed, spot, counter, fetches, excused, task,
                       permission, subs, ear, strays, noticeFaults>>
    PROVE  NoticeInv'
<1>1. NoticesTyped /\ Shows
  BY DEF NoticeInv
<1>2. NoticesTyped'
  BY <1>1 DEF NoticesTyped
<1>3. FetchesOK' /\ ListOK' /\ AwayOK' /\ NoticesAppear'
  BY <1>1 DEF Shows, FetchesOK, ListOK, AwayOK, NoticesAppear, Loading
<1>4. PageOK'
  <2>1. (Loading' <=> Loading) /\ (Reloading' <=> Reloading)
    BY DEF Loading, Reloading
  <2>2. \A n \in Notices : Accounted(n) => Accounted(n)'
    BY DEF Accounted, Marking
  <2> QED
    BY <1>1, <2>1, <2>2 DEF Shows, PageOK
<1>5. CardOK'
  <2>1. Loading' <=> Loading
    BY DEF Loading
  <2>2. IsUnread(FirstPage(inbox')) = IsUnread(FirstPage(inbox))
    OBVIOUS
  <2> QED
    BY <1>1, <2>1, <2>2 DEF Shows, CardOK, SameMark
<1>6. TaskOK'
  BY <1>1, TasksStay DEF NoticeInv, NoticesTyped
<1>7. EarOK'
  BY EarStays DEF NoticeInv, NoticesTyped, Enabling, Enabled
<1> QED
  BY <1>2, <1>3, <1>4, <1>5, <1>6, <1>7 DEF NoticeInv, Shows

\* The row is found as asked, or will be updated.
LEMMA FindMarkedInv ==
    ASSUME NoticeInv, NEW m \in Marks, findMarked(m)
    PROVE  NoticeInv'
<1>1. NoticesTyped /\ Shows /\ MarksOK
  BY DEF NoticeInv, Shows
<1>2. PICK k \in MarkRec : k = marks[m]
  BY <1>1 DEF NoticesTyped
<1>3. /\ UNCHANGED <<inbox, list, listed, spot, counter, fetches, excused, task,
                     permission, subs, ear, strays, noticeFaults>>
      /\ k.stage = "sent"
  BY <1>2 DEF findMarked, shownVars, pushVars
<1>4. PICK st \in {"sent", "found", "answered"} :
        st = IF \E n \in k.notice : inbox[n] = k.to THEN "answered" ELSE "found"
  OBVIOUS
<1>5. PICK j : j = [k EXCEPT !.stage = st]
  OBVIOUS
<1>6. marks' = [marks EXCEPT ![m] = j]
  BY <1>1, <1>2, <1>4, <1>5 DEF findMarked, NoticesTyped
<1>7. /\ j \in MarkRec /\ j # NoMark
      /\ j.stage = st /\ j.notice = k.notice /\ j.to = k.to /\ j.stale = k.stale
      /\ j.heard = k.heard
  BY <1>3, <1>5, StagedMark
<1>8. PICK n \in Notices : k.notice = {n}
  BY <1>3, MarkFields, NoticeConstants
<1>9. MarkOK(k, inbox)
  BY <1>1, <1>2 DEF MarksOK
<1>10. MarkOK(j, inbox)
  BY <1>4, <1>7, <1>8, <1>9 DEF MarkOK
<1>11. /\ marks' \in [Marks -> MarkRec] /\ MarksOK'
       /\ marks'[m] = j /\ \A i \in Marks : i # m => marks'[i] = marks[i]
  BY <1>1, <1>3, <1>6, <1>7, <1>10, MarkMoves
<1>12. \A i \in Marks : SameMark(marks[i], marks'[i])
  BY <1>2, <1>3, <1>7, <1>11, NoticeConstants DEF SameMark
<1>13. \A i \in Marks : \A x \in marks[i].notice :
         marks[i].heard => x \in marks'[i].notice /\ marks'[i].heard
  BY <1>12 DEF SameMark
<1> QED
  BY <1>3, <1>11, <1>12, <1>13, MarksMoveOn

\* toggleRead: the notice is on the page, so it exists.
LEMMA ToggleReadInv ==
    ASSUME NoticeInv, NEW m \in Marks, NEW n \in Notices, toggleRead(m, n)
    PROVE  NoticeInv'
<1>1. NoticesTyped /\ Shows /\ MarksOK /\ ListOK
  BY DEF NoticeInv, Shows
<1>2. /\ UNCHANGED <<inbox, list, listed, spot, counter, fetches, excused, task,
                     permission, subs, ear, strays, noticeFaults>>
      /\ FreeMark(m) /\ spot = "page" /\ list[n] # "ABSENT"
  BY DEF toggleRead, shownVars, pushVars
<1>3. PICK to \in {"READ", "UNREAD"} : to = IF list[n] = "READ" THEN "UNREAD" ELSE "READ"
  OBVIOUS
<1>4. PICK j : j = [NoMark EXCEPT !.stage = "sent", !.notice = {n}, !.to = to]
  OBVIOUS
<1>5. marks' = [marks EXCEPT ![m] = j]
  BY <1>3, <1>4 DEF toggleRead
<1>6. j \in MarkUnderWay /\ j.stage = "sent" /\ j.notice = {n}
  BY <1>4 DEF NoMark, MarkUnderWay
<1>7. j \in MarkRec /\ j # NoMark
  BY <1>6, NoticeConstants DEF MarkRec, MarkUnderWay
<1>8. inbox[n] # "ABSENT"
  BY <1>1, <1>2 DEF ListOK
<1>9. MarkOK(j, inbox)
  BY <1>6, <1>8 DEF MarkOK
<1>10. /\ marks' \in [Marks -> MarkRec] /\ MarksOK'
       /\ marks'[m] = j /\ \A i \in Marks : i # m => marks'[i] = marks[i]
  BY <1>1, <1>2, <1>5, <1>7, <1>9, MarkMoves
<1>11. \A i \in Marks : \A x \in marks[i].notice :
         marks[i].heard => x \in marks'[i].notice /\ marks'[i].heard
  BY <1>2, <1>10, NoticeConstants DEF FreeMark
<1> QED
  BY <1>1, <1>2, <1>10, <1>11, MarksMoveOn

\* The update makes the notice what was asked for, behind answers to others.
LEMMA UpdateMarkedInv ==
    ASSUME NoticeInv, NEW m \in Marks, updateMarked(m)
    PROVE  NoticeInv'
<1>1. NoticesTyped /\ Shows /\ MarksOK
  BY DEF NoticeInv, Shows
<1>2. PICK k \in MarkRec : k = marks[m]
  BY <1>1 DEF NoticesTyped
<1>3. PICK ch \in SUBSET Notices : ch = k.notice
  BY MarkFields
<1>4. /\ UNCHANGED <<list, listed, spot, counter, task, permission, subs, ear, strays,
                     noticeFaults>>
      /\ excused' = IF k.heard THEN excused ELSE excused \cup ch
      /\ k.stage = "found"
      /\ inbox' = [n \in Notices |-> IF n \in ch THEN k.to ELSE inbox[n]]
      /\ fetches' = Overtaken(ch)
      /\ marks' = [OvertakenMarks(ch) EXCEPT ![m].stage = "answered"]
  BY <1>2, <1>3 DEF updateMarked, shownVars, pushVars
<1>5. k # NoMark /\ k.to \in {"READ", "UNREAD"}
  BY <1>4, MarkFields, NoticeConstants
<1>6. /\ inbox' \in [Notices -> NoticeStates] /\ Grows(inbox, inbox', ch)
      /\ \A n \in ch : inbox'[n] = k.to
  BY <1>1, <1>4, <1>5 DEF NoticesTyped, NoticeStates, Grows
<1>7. \A i \in Marks : LET o == OvertakenMarks(ch)[i] IN
        o \in MarkRec /\ MarkOK(o, inbox') /\ SameMark(marks[i], o)
  BY <1>1, <1>6, MarksOvertaken
<1>8. OvertakenMarks(ch)[m] = k
  BY <1>2, <1>4 DEF OvertakenMarks
<1>9. PICK j : j = [k EXCEPT !.stage = "answered"]
  OBVIOUS
<1>10. /\ j \in MarkRec /\ j # NoMark
       /\ j.stage = "answered" /\ j.notice = k.notice /\ j.to = k.to /\ j.stale = k.stale
       /\ j.heard = k.heard
  BY <1>4, <1>9, StagedMark
<1>11. MarkOK(j, inbox')
  BY <1>3, <1>5, <1>6, <1>10 DEF MarkOK
<1>12. PICK O : O = OvertakenMarks(ch)
  OBVIOUS
<1>13. O = [i \in Marks |-> O[i]]
  BY <1>12 DEF OvertakenMarks
<1>14. marks' = [O EXCEPT ![m] = j]
  BY <1>4, <1>8, <1>9, <1>12, <1>13
<1>15. marks'[m] = j /\ \A i \in Marks : i # m => marks'[i] = O[i]
  BY <1>13, <1>14
<1>16. marks' = [i \in Marks |-> marks'[i]]
  BY <1>13, <1>14
<1>17. \A i \in Marks : /\ marks'[i] \in MarkRec /\ MarkOK(marks'[i], inbox')
                        /\ SameMark(marks[i], marks'[i])
  BY <1>2, <1>5, <1>7, <1>10, <1>11, <1>12, <1>15 DEF SameMark
<1>18. marks' \in [Marks -> MarkRec] /\ MarksOK'
  BY <1>16, <1>17 DEF MarksOK
<1>19. spot # "card"
  BY <1>1, <1>2, <1>5 DEF Shows, CardOK
<1>20. Reloading' <=> Reloading
  BY <1>4 DEF Reloading
<1>21. \A n \in ch : n \in excused' \/ \E i \in Marks : marks[i].heard /\ n \in marks[i].notice
  BY <1>2, <1>3, <1>4
<1>22. /\ Shows' /\ fetches' \in [Fetches -> FetchRec]
       /\ \A f \in Fetches : fetches'[f].ofTask = fetches[f].ofTask
  BY <1>4, <1>6, <1>17, <1>18, <1>19, <1>20, <1>21, TableChanges
<1>23. NoticesTyped'
  BY <1>1, <1>4, <1>6, <1>18, <1>22 DEF NoticesTyped
<1>24. TaskOK'
  BY <1>4, <1>22, TasksStay DEF NoticeInv
<1>25. EarOK'
  BY <1>4, EarStays DEF NoticeInv, NoticesTyped, Enabling, Enabled
<1> QED
  BY <1>22, <1>23, <1>24, <1>25 DEF NoticeInv

\* Nobody waits for a mark any more: its notice is shown as it is, or its change is
\* not on the page.
LEMMA MarkLeaves ==
    ASSUME NoticeInv, NEW m \in Marks, marks[m] # NoMark,
           NEW k \in MarkRec, MarkOK(k, inbox), marks' = [marks EXCEPT ![m] = k],
           UNCHANGED <<inbox, listed, spot, counter, fetches, task, permission, subs, ear,
                       strays>>,
           list' \in [Notices -> NoticeStates], excused' \in SUBSET Notices, ListOK',
           noticeFaults' \in Nat, noticeFaults' = 0 => noticeFaults = 0,
           spot = "page" =>
               \A n \in Notices :
                   \/ /\ ~(marks[m].heard /\ n \in marks[m].notice)
                      /\ list'[n] = list[n] /\ (n \in excused' <=> n \in excused)
                   \/ list'[n] = inbox[n] \/ n \in excused'
                   \/ list'[n] = "ABSENT" /\ list[n] = "ABSENT" /\ excused' = excused
    PROVE  NoticeInv'
<1>1. NoticesTyped /\ Shows /\ MarksOK
  BY DEF NoticeInv, Shows
<1>2. inbox' = inbox
  OBVIOUS
<1>3. /\ marks' \in [Marks -> MarkRec] /\ MarksOK'
      /\ marks'[m] = k /\ \A i \in Marks : i # m => marks'[i] = marks[i]
  BY <1>1, <1>2, MarkMoves
<1>4. NoticesTyped'
  BY <1>1, <1>3 DEF NoticesTyped
<1>5. FetchesOK' /\ AwayOK' /\ NoticesAppear'
  BY <1>1 DEF Shows, FetchesOK, AwayOK, NoticesAppear, Loading
<1>6. CardOK'
  BY <1>1 DEF Shows, CardOK
<1>7. PageOK'
  <2>1. (Loading' <=> Loading) /\ (Reloading' <=> Reloading)
    BY DEF Loading, Reloading
  <2> SUFFICES ASSUME spot = "page", ~Loading, ~Reloading, NEW n \in Notices
               PROVE  Accounted(n)'
    BY <2>1 DEF PageOK
  <2>2. Accounted(n)
    BY <1>1 DEF Shows, PageOK
  <2>3. CASE list'[n] = inbox[n] \/ n \in excused'
    BY <2>3 DEF Accounted
  <2>4. CASE list'[n] = "ABSENT" /\ list[n] = "ABSENT" /\ excused' = excused
    BY <2>2, <2>4 DEF Accounted, Marking
  <2>5. CASE /\ ~(marks[m].heard /\ n \in marks[m].notice)
             /\ list'[n] = list[n] /\ (n \in excused' <=> n \in excused)
    <3>1. Marking(n) => Marking(n)'
      BY <1>3, <2>5 DEF Marking
    <3> QED
      BY <2>2, <2>5, <3>1 DEF Accounted
  <2> QED
    BY <2>3, <2>4, <2>5
<1>8. TaskOK'
  BY <1>1, TasksStay DEF NoticeInv, NoticesTyped
<1>9. EarOK'
  BY EarStays DEF NoticeInv, NoticesTyped, Enabling, Enabled
<1> QED
  BY <1>3, <1>4, <1>5, <1>6, <1>7, <1>8, <1>9 DEF NoticeInv, Shows

LEMMA MarkFailsInv ==
    ASSUME NoticeInv, NEW m \in Marks, markFails(m)
    PROVE  NoticeInv'
<1>1. NoticesTyped /\ ListOK /\ MarksOK
  BY DEF NoticeInv, Shows
<1>2. PICK k \in MarkRec : k = marks[m]
  BY <1>1 DEF NoticesTyped
<1>3. /\ UNCHANGED <<inbox, list, listed, counter, spot, fetches, task, permission, subs, ear,
                     strays>>
      /\ excused' = excused \cup k.notice /\ NoticeFault /\ k.stage # "none"
  BY <1>2 DEF markFails, pushVars
<1>4. PICK no \in BOOLEAN : no = FALSE
  OBVIOUS
<1>5. PICK j : j = [k EXCEPT !.heard = no]
  OBVIOUS
<1>6. marks' = [marks EXCEPT ![m] = j]
  <2>1. marks' = [marks EXCEPT ![m].heard = no]
    BY <1>4, Zenon DEF markFails
  <2> QED
    BY <1>1, <1>2, <1>5, <2>1 DEF NoticesTyped
<1>7. k # NoMark /\ k \in MarkUnderWay
  BY <1>3, NoticeConstants DEF MarkRec, MarkUnderWay
<1>8. /\ j \in MarkUnderWay
      /\ j.stage = k.stage /\ j.notice = k.notice /\ j.to = k.to /\ j.stale = k.stale
  BY <1>5, <1>7 DEF MarkUnderWay
<1>9. j \in MarkRec
  BY <1>8 DEF MarkRec, MarkUnderWay
<1>10. MarkOK(j, inbox)
  BY <1>1, <1>2, <1>8 DEF MarksOK, MarkOK
<1>11. noticeFaults' \in Nat /\ noticeFaults' # 0
  BY <1>1, <1>3, NoticeFaults
<1>12. list' \in [Notices -> NoticeStates] /\ excused' \in SUBSET Notices /\ ListOK'
  BY <1>1, <1>3, MarkFields DEF NoticesTyped, ListOK
<1>13. \A n \in Notices : n \in k.notice \/ (list'[n] = list[n] /\ (n \in excused' <=> n \in excused))
  BY <1>3
<1> QED
  BY <1>2, <1>3, <1>6, <1>7, <1>9, <1>10, <1>11, <1>12, <1>13, MarkLeaves

LEMMA MarkEndsInv ==
    ASSUME NoticeInv, NEW m \in Marks, markEnds(m)
    PROVE  NoticeInv'
<1>1. /\ UNCHANGED <<inbox, list, listed, counter, spot, fetches, task, permission, subs, ear,
                     strays, excused, noticeFaults>>
      /\ marks' = [marks EXCEPT ![m] = NoMark] /\ ~marks[m].heard
  BY DEF markEnds, shownVars, pushVars
<1>2. NoticesTyped /\ ListOK
  BY DEF NoticeInv, Shows
<1>3. marks[m] # NoMark
  BY <1>1 DEF NoMark
<1>4. NoMark \in MarkRec /\ MarkOK(NoMark, inbox)
  BY NoticeConstants DEF MarkOK
<1>5. list' \in [Notices -> NoticeStates] /\ excused' \in SUBSET Notices /\ ListOK'
  BY <1>1, <1>2 DEF NoticesTyped, ListOK
<1>6. noticeFaults' \in Nat /\ noticeFaults' = noticeFaults
  BY <1>1, <1>2 DEF NoticesTyped
<1> QED
  BY <1>1, <1>3, <1>4, <1>5, <1>6, MarkLeaves

LEMMA ApplyMarkedInv ==
    ASSUME NoticeInv, NEW m \in Marks, applyMarked(m)
    PROVE  NoticeInv'
<1>1. NoticesTyped /\ ListOK /\ MarksOK
  BY DEF NoticeInv, Shows
<1>2. PICK k \in MarkRec : k = marks[m]
  BY <1>1 DEF NoticesTyped
<1>3. PICK here \in BOOLEAN : here = (spot = "page" /\ \E n \in k.notice : list[n] # "ABSENT")
  OBVIOUS
<1>4. /\ UNCHANGED <<inbox, listed, counter, spot, fetches, task, permission, subs, ear,
                     strays, noticeFaults>>
      /\ k.stage = "answered" /\ marks' = [marks EXCEPT ![m] = NoMark]
      /\ list' = [n \in Notices |-> IF here /\ n \in k.notice THEN k.to ELSE list[n]]
  BY <1>2, <1>3 DEF applyMarked, pushVars
<1>5. /\ here /\ k.stale => excused' = excused \cup k.notice
      /\ here /\ ~k.stale => excused' = excused \ k.notice
      /\ ~here => excused' = excused
  BY <1>2, <1>3 DEF applyMarked
<1>6. k # NoMark
  BY <1>4, NoticeConstants
<1>7. PICK n \in Notices : k.notice = {n}
  BY <1>6, MarkFields
<1>8. k.to \in {"READ", "UNREAD"} /\ k.stale \in BOOLEAN
  BY <1>6, MarkFields
<1>9. inbox[n] # "ABSENT" /\ (~k.stale => inbox[n] = k.to)
  BY <1>1, <1>2, <1>4, <1>7 DEF MarksOK, MarkOK
<1>10. /\ list' \in [Notices -> NoticeStates]
       /\ \A o \in Notices : o # n => list'[o] = list[o]
       /\ list'[n] = IF here THEN k.to ELSE list[n]
  BY <1>1, <1>4, <1>7, <1>8 DEF NoticesTyped, NoticeStates
<1>11. /\ excused' \in SUBSET Notices
       /\ \A o \in Notices : o # n => (o \in excused' <=> o \in excused)
       /\ here /\ k.stale => n \in excused'
  BY <1>1, <1>5, <1>7, <1>8 DEF NoticesTyped
<1>12. ListOK'
  BY <1>1, <1>4, <1>9, <1>10 DEF ListOK
<1>13. spot = "page" /\ ~here => list[n] = "ABSENT" /\ list'[n] = "ABSENT"
  BY <1>3, <1>7, <1>10
<1>14. spot = "page" =>
         \/ list'[n] = inbox[n] \/ n \in excused'
         \/ list'[n] = "ABSENT" /\ list[n] = "ABSENT" /\ excused' = excused
  BY <1>5, <1>8, <1>9, <1>10, <1>11, <1>13
<1>15. noticeFaults' \in Nat /\ (noticeFaults' = 0 => noticeFaults = 0)
  BY <1>1, <1>4 DEF NoticesTyped
<1>16. NoMark \in MarkRec /\ MarkOK(NoMark, inbox)
  BY NoticeConstants DEF MarkOK
<1>17. ASSUME spot = "page", NEW o \in Notices
       PROVE  \/ /\ ~(k.heard /\ o \in k.notice)
                 /\ list'[o] = list[o] /\ (o \in excused' <=> o \in excused)
              \/ list'[o] = inbox[o] \/ o \in excused'
              \/ list'[o] = "ABSENT" /\ list[o] = "ABSENT" /\ excused' = excused
  BY <1>7, <1>10, <1>11, <1>14, <1>17
<1> QED
  BY <1>2, <1>4, <1>6, <1>10, <1>11, <1>12, <1>15, <1>16, <1>17, MarkLeaves

-----------------------------------------------------------------------------
(* Loads                                                                   *)

FetchUnderWay ==
    [stage : {"sent", "answered"}, ofTask : BOOLEAN, got : [Notices -> NoticeStates],
     stale : SUBSET Notices]

LEMMA FindManyInv ==
    ASSUME NoticeInv, NEW f \in Fetches, findManyForUser(f)
    PROVE  NoticeInv'
<1>1. NoticesTyped /\ Shows /\ FetchesOK
  BY DEF NoticeInv, Shows
<1>2. PICK r \in FetchRec : r = fetches[f]
  BY <1>1 DEF NoticesTyped
<1>3. /\ UNCHANGED <<inbox, list, listed, spot, counter, marks, excused, task,
                     permission, subs, ear, strays, noticeFaults>>
      /\ r.stage = "sent"
  BY <1>2 DEF findManyForUser, shownVars, pushVars
<1>4. PICK B \in [Notices -> NoticeStates] : B = FirstPage(inbox)
  BY <1>1 DEF NoticesTyped, FirstPage, NoticeStates
<1>5. PICK s : s = [r EXCEPT !.stage = "answered", !.got = B]
  OBVIOUS
<1>6. fetches' = [fetches EXCEPT ![f] = s]
  BY <1>1, <1>2, <1>4, <1>5 DEF findManyForUser, NoticesTyped
<1>7. r \in FetchUnderWay
  BY <1>3, NoticeConstants DEF FetchRec, FetchUnderWay
<1>8. s \in FetchUnderWay /\ s.stage = "answered" /\ s.got = B /\ s.ofTask = r.ofTask
  BY <1>5, <1>7 DEF FetchUnderWay
<1>9. s \in FetchRec /\ s # NoFetch
  BY <1>8, NoticeConstants DEF FetchRec, FetchUnderWay
<1>10. FetchOK(s, inbox)
  BY <1>4, <1>8 DEF FetchOK, FirstPage
<1>11. /\ fetches' \in [Fetches -> FetchRec] /\ FetchesOK'
       /\ fetches'[f] = s /\ \A g \in Fetches : g # f => fetches'[g] = fetches[g]
  BY <1>1, <1>3, <1>6, <1>9, <1>10, FetchMoves
<1>12. Loading /\ Loading'
  BY <1>2, <1>3, <1>9, <1>11, NoticeConstants DEF Loading
<1>13. spot # "away"
  BY <1>1, <1>12 DEF Shows, AwayOK
<1>14. MarksOK' /\ ListOK'
  BY <1>1, <1>3 DEF Shows, MarksOK, ListOK
<1>15. PageOK' /\ CardOK' /\ AwayOK' /\ NoticesAppear'
  BY <1>1, <1>3, <1>12, <1>13 DEF Shows, PageOK, CardOK, AwayOK, NoticesAppear, Loading
<1>16. NoticesTyped'
  BY <1>1, <1>3, <1>11 DEF NoticesTyped
<1>17. TaskOK'
  BY <1>1, <1>2, <1>3, <1>8, <1>11, TasksStay DEF NoticeInv
<1>18. EarOK'
  BY <1>3, EarStays DEF NoticeInv, NoticesTyped, Enabling, Enabled
<1> QED
  BY <1>11, <1>14, <1>15, <1>16, <1>17, <1>18 DEF NoticeInv, Shows

\* A load begins, on the page.
LEMMA FetchBegins ==
    ASSUME NoticeInv, NEW f \in Fetches, NEW b \in BOOLEAN, FreeFetch(f), spot = "page",
           fetches' = [fetches EXCEPT ![f] = NewFetch(b)],
           UNCHANGED <<inbox, list, listed, spot, counter, marks>>
    PROVE  /\ Shows' /\ fetches' \in [Fetches -> FetchRec]
           /\ fetches'[f].ofTask = b
           /\ \A g \in Fetches : g # f => fetches'[g] = fetches[g]
<1>1. NoticesTyped /\ Shows /\ FetchesOK
  BY DEF NoticeInv, Shows
<1>2. /\ NewFetch(b) \in FetchRec /\ NewFetch(b).stage = "sent" /\ NewFetch(b).ofTask = b
      /\ NewFetch(b) # NoFetch
  BY NewFetches
<1>3. FetchOK(NewFetch(b), inbox) /\ inbox' = inbox
  BY <1>2 DEF FetchOK
<1>4. /\ fetches' \in [Fetches -> FetchRec] /\ FetchesOK'
      /\ fetches'[f] = NewFetch(b) /\ \A g \in Fetches : g # f => fetches'[g] = fetches[g]
  BY <1>1, <1>2, <1>3, FetchMoves
<1>5. Loading'
  BY <1>2, <1>4 DEF Loading
<1>6. MarksOK' /\ ListOK'
  BY <1>1 DEF Shows, MarksOK, ListOK
<1>7. PageOK' /\ CardOK' /\ AwayOK' /\ NoticesAppear'
  BY <1>5 DEF PageOK, CardOK, AwayOK, NoticesAppear, Loading
<1> QED
  BY <1>2, <1>4, <1>6, <1>7 DEF Shows

LEMMA ReloadInv ==
    ASSUME NoticeInv, NEW f \in Fetches, reload(f)
    PROVE  NoticeInv'
<1>1. /\ UNCHANGED <<inbox, list, listed, counter, spot, marks, permission, subs, ear,
                     strays, noticeFaults>>
      /\ task.op \in {"markAll", "test"} /\ task.stage = "answered" /\ spot = "page"
      /\ FreeFetch(f) /\ excused' = {}
      /\ task' = [task EXCEPT !.stage = "load"]
  BY DEF reload, pushVars
<1>2. PICK yes \in BOOLEAN : yes = TRUE
  OBVIOUS
<1>3. fetches' = [fetches EXCEPT ![f] = NewFetch(yes)]
  BY <1>2 DEF reload
<1>4. /\ Shows' /\ fetches' \in [Fetches -> FetchRec]
      /\ fetches'[f].ofTask = yes
      /\ \A g \in Fetches : g # f => fetches'[g] = fetches[g]
  BY <1>1, <1>3, FetchBegins
<1>5. NoticesTyped /\ task # NoTask
  BY <1>1, NoticeConstants DEF NoticeInv
<1>6. task' \in TaskRec /\ task'.op = task.op /\ task'.stage = "load"
  BY <1>1, <1>5 DEF NoticesTyped, TaskRec
<1>7. NoticesTyped'
  BY <1>1, <1>4, <1>5, <1>6 DEF NoticesTyped
<1>8. \A g \in Fetches : ~fetches[g].ofTask
  BY <1>1 DEF NoticeInv, TaskOK
<1>9. TaskOK'
  BY <1>1, <1>4, <1>6, <1>8 DEF TaskOK
<1>10. EarOK'
  BY <1>1, <1>5, <1>6, EarStays DEF NoticeInv, NoticesTyped, Enabling, Enabled
<1> QED
  BY <1>4, <1>7, <1>9, <1>10 DEF NoticeInv

\* A push that is heard makes the page load again.
LEMMA NotificationReceivedInv ==
    ASSUME NoticeInv, NEW n \in Notices, NEW f \in Fetches, notificationReceived(n, f)
    PROVE  NoticeInv'
<1>1. /\ UNCHANGED <<inbox, list, listed, counter, spot, marks, task, permission, subs, ear,
                     strays, noticeFaults>>
      /\ spot = "page" => /\ FreeFetch(f)
                          /\ fetches' = [fetches EXCEPT ![f] = NewFetch(FALSE)]
                          /\ excused' = excused \ {n}
      /\ spot # "page" => UNCHANGED <<fetches, excused>>
  BY DEF notificationReceived
<1>2. CASE spot # "page"
  BY <1>1, <1>2, NoticesStay
<1>3. CASE spot = "page"
  <2>1. PICK no \in BOOLEAN : no = FALSE
    OBVIOUS
  <2>2. fetches' = [fetches EXCEPT ![f] = NewFetch(no)]
    BY <1>1, <1>3, <2>1
  <2>3. /\ Shows' /\ fetches' \in [Fetches -> FetchRec]
        /\ fetches'[f].ofTask = no
        /\ \A g \in Fetches : g # f => fetches'[g] = fetches[g]
    BY <1>1, <1>3, <2>2, FetchBegins
  <2>4. NoticesTyped'
    BY <1>1, <1>3, <2>3 DEF NoticeInv, NoticesTyped
  <2>5. TaskOK'
    BY <1>1, <2>1, <2>3, TasksStay DEF NoticeInv
  <2>6. EarOK'
    BY <1>1, EarStays DEF NoticeInv, NoticesTyped, Enabling, Enabled
  <2> QED
    BY <2>3, <2>4, <2>5, <2>6 DEF NoticeInv
<1> QED
  BY <1>2, <1>3

\* A load ends, and with it the task whose load it was.
LEMMA FetchEnds ==
    ASSUME NoticeInv, NEW f \in Fetches, fetches[f] # NoFetch,
           fetches' = [fetches EXCEPT ![f] = NoFetch],
           EndOfLoad(f) \/ (~fetches[f].ofTask /\ task' = task),
           UNCHANGED <<inbox, spot, marks, ear, permission, subs, strays>>,
           noticeFaults' \in Nat, noticeFaults' = 0 => noticeFaults = 0
    PROVE  /\ fetches' \in [Fetches -> FetchRec] /\ FetchesOK' /\ MarksOK'
           /\ task' \in TaskRec /\ (task = NoTask => task' = NoTask)
           /\ TaskOK' /\ EarOK' /\ AwayOK'
           /\ spot \in {"page", "card"}
<1>1. NoticesTyped /\ Shows /\ FetchesOK /\ TaskOK /\ EarOK
  BY DEF NoticeInv, Shows
<1>2. NoFetch \in FetchRec /\ FetchOK(NoFetch, inbox) /\ inbox' = inbox
  BY NoticeConstants DEF FetchOK
<1>3. /\ fetches' \in [Fetches -> FetchRec] /\ FetchesOK'
      /\ fetches'[f] = NoFetch /\ \A g \in Fetches : g # f => fetches'[g] = fetches[g]
  BY <1>1, <1>2, FetchMoves
<1>4. MarksOK'
  BY <1>1 DEF Shows, MarksOK
<1>5. fetches[f].ofTask \in BOOLEAN /\ task \in TaskRec
  BY <1>1, FetchFields DEF NoticesTyped
<1>6. /\ fetches[f].ofTask => task' = NoTask
      /\ ~fetches[f].ofTask => task' = task
  BY <1>5 DEF EndOfLoad
<1>7. task' \in TaskRec /\ (task = NoTask => task' = NoTask)
  BY <1>5, <1>6, NoticeConstants
<1>8. TaskOK'
  <2>1. CASE fetches[f].ofTask
    <3>1. \A g \in Fetches : fetches[g].ofTask => g = f
      BY <1>1, <2>1 DEF TaskOK
    <3>2. \A g \in Fetches : ~fetches'[g].ofTask
      BY <1>3, <3>1, NoticeConstants
    <3> QED
      BY <3>2 DEF TaskOK
  <2>2. CASE ~fetches[f].ofTask
    BY <1>1, <1>3, <1>6, <2>2, TasksStay, NoticeConstants
  <2> QED
    BY <2>1, <2>2
<1>9. fetches[f].ofTask => task.op # "enable"
  BY <1>1 DEF TaskOK
<1>10. EarOK'
  BY <1>1, <1>5, <1>6, <1>9, EarStays, NoticeConstants DEF Enabling, Enabled
<1>11. Loading
  BY DEF Loading
<1>12. spot \in {"page", "card"}
  BY <1>1, <1>11 DEF NoticesTyped, Shows, AwayOK
<1>13. AwayOK'
  BY <1>12 DEF AwayOK
<1> QED
  BY <1>3, <1>4, <1>7, <1>8, <1>10, <1>12, <1>13

\* The page shows what the answer says.
LEMMA LoadInv ==
    ASSUME NoticeInv, NEW f \in Fetches, load(f)
    PROVE  NoticeInv'
<1>1. PICK r \in FetchRec : r = fetches[f]
  BY DEF NoticeInv, NoticesTyped
<1>2. /\ UNCHANGED <<inbox, counter, spot, marks, permission, subs, ear, strays, noticeFaults>>
      /\ r.stage = "answered" /\ spot = "page"
      /\ list' = r.got /\ excused' = r.stale /\ listed' = TRUE
      /\ fetches' = [fetches EXCEPT ![f] = NoFetch] /\ EndOfLoad(f)
  BY <1>1 DEF load, setNotifications, pushVars
<1>3. NoticesTyped /\ FetchesOK /\ r # NoFetch
  BY <1>2, NoticeConstants DEF NoticeInv, Shows
<1>4. r.got \in [Notices -> NoticeStates] /\ r.stale \in SUBSET Notices
  BY <1>3, FetchFields
<1>5. noticeFaults' \in Nat /\ noticeFaults' = noticeFaults
  BY <1>2, <1>3 DEF NoticesTyped
<1>6. /\ fetches' \in [Fetches -> FetchRec] /\ FetchesOK' /\ MarksOK'
      /\ task' \in TaskRec /\ TaskOK' /\ EarOK' /\ AwayOK'
  BY <1>1, <1>2, <1>3, <1>5, FetchEnds
<1>7. FetchOK(r, inbox)
  BY <1>1, <1>3 DEF FetchesOK
<1>8. PICK yes \in BOOLEAN : yes = TRUE /\ listed' = yes
  BY <1>2
<1>9. NoticesTyped'
  BY <1>2, <1>3, <1>4, <1>5, <1>6, <1>8 DEF NoticesTyped
<1>10. ListOK' /\ PageOK'
  BY <1>2, <1>7 DEF ListOK, PageOK, Accounted, FetchOK
<1>11. CardOK' /\ NoticesAppear'
  BY <1>2 DEF CardOK, NoticesAppear
<1> QED
  BY <1>6, <1>9, <1>10, <1>11 DEF NoticeInv, Shows

\* The card counts what the answer says.
LEMMA CountUnreadInv ==
    ASSUME NoticeInv, NEW f \in Fetches, countUnread(f)
    PROVE  NoticeInv'
<1>1. PICK r \in FetchRec : r = fetches[f]
  BY DEF NoticeInv, NoticesTyped
<1>2. /\ UNCHANGED <<inbox, list, listed, spot, marks, task, permission, subs, ear, strays,
                     noticeFaults>>
      /\ r.stage = "answered" /\ spot = "card"
      /\ counter' = <<"count", Cardinality(IsUnread(r.got))>> /\ excused' = r.stale
      /\ fetches' = [fetches EXCEPT ![f] = NoFetch]
  BY <1>1 DEF countUnread, pushVars
<1>3. NoticesTyped /\ FetchesOK /\ r # NoFetch /\ ListOK /\ CardOK
  BY <1>2, NoticeConstants DEF NoticeInv, Shows
<1>4. r.got \in [Notices -> NoticeStates] /\ r.stale \in SUBSET Notices
  BY <1>3, FetchFields
<1>5. noticeFaults' \in Nat /\ noticeFaults' = noticeFaults
  BY <1>2, <1>3 DEF NoticesTyped
<1>6. task = NoTask /\ strays = {} /\ \A m \in Marks : marks[m] = NoMark
  BY <1>2, <1>3 DEF CardOK
<1>7. ~fetches[f].ofTask
  BY <1>6, NoticeConstants DEF NoticeInv, TaskOK
<1>8. /\ fetches' \in [Fetches -> FetchRec] /\ FetchesOK' /\ MarksOK'
      /\ task' \in TaskRec /\ TaskOK' /\ EarOK' /\ AwayOK'
  BY <1>1, <1>2, <1>3, <1>5, <1>7, FetchEnds
<1>9. NoticesTyped'
  BY <1>2, <1>3, <1>4, <1>5, <1>8 DEF NoticesTyped
<1>10. FetchOK(r, inbox)
  BY <1>1, <1>3 DEF FetchesOK
<1>11. CardOK'
  <2>1. r.stale = {} => r.got = FirstPage(inbox)
    BY <1>2, <1>10 DEF FetchOK
  <2>2. excused' # {} \/ counter' = <<"count", Cardinality(IsUnread(FirstPage(inbox)))>>
    BY <1>2, <2>1
  <2>3. FirstPage(inbox') = FirstPage(inbox)
    BY <1>2
  <2> QED
    BY <1>2, <1>6, <2>2, <2>3 DEF CardOK
<1>12. ListOK' /\ PageOK'
  BY <1>2, <1>3 DEF ListOK, PageOK
<1>13. counter' # <<"busy">>
  BY <1>2
<1>14. NoticesAppear'
  BY <1>2, <1>13 DEF NoticesAppear
<1> QED
  BY <1>8, <1>9, <1>11, <1>12, <1>14 DEF NoticeInv, Shows

\* A load that fails leaves what is shown as it was.
LEMMA LoadFailsInv ==
    ASSUME NoticeInv, NEW f \in Fetches, loadFails(f)
    PROVE  NoticeInv'
<1>1. /\ UNCHANGED <<inbox, list, spot, marks, permission, subs, ear, strays>>
      /\ NoticeFault /\ fetches[f].stage = "answered"
      /\ listed' = (spot = "page") /\ excused' = Notices
      /\ counter' = IF spot = "card" THEN <<"error">> ELSE counter
      /\ fetches' = [fetches EXCEPT ![f] = NoFetch] /\ EndOfLoad(f)
  BY DEF loadFails, pushVars
<1>2. NoticesTyped /\ ListOK /\ CardOK
  BY DEF NoticeInv, Shows
<1>3. noticeFaults' \in Nat /\ noticeFaults' # 0
  BY <1>1, <1>2, NoticeFaults
<1>4. fetches[f] # NoFetch
  BY <1>1, NoticeConstants
<1>5. /\ fetches' \in [Fetches -> FetchRec] /\ FetchesOK' /\ MarksOK'
      /\ task' \in TaskRec /\ (task = NoTask => task' = NoTask)
      /\ TaskOK' /\ EarOK' /\ AwayOK'
  BY <1>1, <1>3, <1>4, FetchEnds
<1>6. listed' \in BOOLEAN
  BY <1>1
<1>7. NoticesTyped'
  BY <1>1, <1>2, <1>3, <1>5, <1>6 DEF NoticesTyped
<1>8. ListOK' /\ PageOK'
  BY <1>1, <1>2 DEF ListOK, PageOK, Accounted
<1>9. CardOK'
  BY <1>1, <1>2, <1>5 DEF CardOK, NoticesTyped
<1>10. <<"error">> # <<"busy">>
  OBVIOUS
<1>11. NoticesAppear'
  BY <1>1, <1>10 DEF NoticesAppear
<1> QED
  BY <1>5, <1>7, <1>8, <1>9, <1>11 DEF NoticeInv, Shows

\* Nothing is loaded for a dashboard that was left.
LEMMA LeaveDashboardInv ==
    ASSUME NoticeInv, leaveDashboard
    PROVE  NoticeInv'
<1>1. /\ UNCHANGED <<inbox, marks, task, permission, subs, strays, noticeFaults>>
      /\ spot' = "away" /\ ear' = [ear EXCEPT !.handlers = 0]
      /\ list' = Nothing /\ excused' = {} /\ listed' = FALSE
      /\ fetches' = [f \in Fetches |-> NoFetch]
  BY DEF leaveDashboard
<1>2. NoticesTyped /\ MarksOK /\ EarOK
  BY DEF NoticeInv, Shows
<1>3. PICK zero \in Nat : zero = 0
  OBVIOUS
<1>4. /\ ear' \in [starting : BOOLEAN, handlers : Nat]
      /\ ear'.starting = ear.starting /\ ear'.handlers = 0
  <2>1. ear' = [ear EXCEPT !.handlers = zero]
    BY <1>1, <1>3
  <2>2. /\ ear' \in [starting : BOOLEAN, handlers : Nat]
        /\ ear'.starting = ear.starting /\ ear'.handlers = zero
    BY <1>2, <2>1 DEF NoticesTyped
  <2> QED
    BY <1>3, <2>2
<1>5. \A f \in Fetches : fetches'[f] = NoFetch
  BY <1>1
<1>6. fetches' \in [Fetches -> FetchRec]
  BY <1>1, NoticeConstants
<1>7. PICK no \in BOOLEAN : no = FALSE /\ listed' = no
  BY <1>1
<1>8. NoticesTyped'
  BY <1>1, <1>2, <1>4, <1>6, <1>7, NoticeConstants DEF NoticesTyped
<1>9. FetchesOK' /\ MarksOK' /\ ListOK'
  BY <1>1, <1>2, <1>5, NoticeConstants DEF FetchesOK, FetchOK, MarksOK, ListOK
<1>10. PageOK' /\ CardOK' /\ NoticesAppear'
  BY <1>1 DEF PageOK, CardOK, NoticesAppear
<1>11. AwayOK' /\ TaskOK'
  BY <1>5, NoticeConstants DEF AwayOK, Loading, TaskOK
<1>12. EarOK'
  BY <1>1, <1>2, <1>4 DEF EarOK
<1> QED
  BY <1>8, <1>9, <1>10, <1>11, <1>12 DEF NoticeInv, Shows

\* A component begins with a load.
LEMMA NoticeInitInv ==
    ASSUME NoticeInit
    PROVE  NoticeInv
<1>1. /\ list = Nothing /\ listed = FALSE /\ excused = {} /\ spot \in {"page", "card"}
      /\ fetches = FirstLoad /\ marks = [m \in Marks |-> NoMark] /\ task = NoTask
      /\ permission \in {"default", "granted"} /\ subs \in SUBSET {"this"}
      /\ "this" \in subs => permission = "granted"
      /\ noticeFaults = 0 /\ strays = {}
  BY DEF NoticeInit
<1>2. inbox \in [Notices -> NoticeStates] /\ Notices # {}
  BY DEF NoticeInit
<1>3. PICK b \in BOOLEAN : b = (permission = "granted")
  OBVIOUS
<1>4. PICK zero \in Nat : zero = 0
  OBVIOUS
<1>5. ear = [starting |-> b, handlers |-> zero]
  BY <1>3, <1>4, Zenon DEF NoticeInit
<1>6. ear \in [starting : BOOLEAN, handlers : Nat] /\ ear.starting = b /\ ear.handlers = 0
  BY <1>4, <1>5
<1>7. PICK no \in BOOLEAN : no = FALSE
  OBVIOUS
<1>8. \A f \in Fetches : fetches[f] = NewFetch(no) \/ fetches[f] = NoFetch
  BY <1>1, <1>7 DEF FirstLoad
<1>9. /\ NewFetch(no) \in FetchRec /\ NewFetch(no).stage = "sent" /\ NewFetch(no).ofTask = no
      /\ NewFetch(no) # NoFetch
  BY NewFetches
<1>10. fetches \in [Fetches -> FetchRec]
  BY <1>1, <1>7, <1>9, NoticeConstants DEF FirstLoad
<1>11. PICK f \in Fetches : \A g \in Fetches : f <= g
  BY LeastNumber, NotificationPagesAssumption
<1>12. fetches[f] = NewFetch(no)
  BY <1>1, <1>7, <1>11 DEF FirstLoad
<1>13. Loading
  BY <1>9, <1>12 DEF Loading
<1>14. PICK off \in BOOLEAN : off = FALSE /\ listed = off
  BY <1>1
<1>15. marks \in [Marks -> MarkRec] /\ \A m \in Marks : marks[m] = NoMark
  BY <1>1, NoticeConstants
<1>16. NoticesTyped
  BY <1>1, <1>2, <1>6, <1>10, <1>14, <1>15, NoticeConstants DEF NoticesTyped
<1>17. FetchesOK /\ MarksOK /\ ListOK
  BY <1>1, <1>8, <1>9, <1>15, NoticeConstants DEF FetchesOK, FetchOK, MarksOK, MarkOK, ListOK
<1>18. PageOK /\ CardOK /\ AwayOK /\ NoticesAppear
  BY <1>1, <1>13, <1>15 DEF PageOK, CardOK, AwayOK, NoticesAppear, Loading
<1>19. TaskOK
  BY <1>7, <1>8, <1>9, NoticeConstants DEF TaskOK
<1>20. EarOK
  BY <1>1, <1>3, <1>6, NoticeConstants DEF EarOK
<1> QED
  BY <1>16, <1>17, <1>18, <1>19, <1>20 DEF NoticeInv, Shows

\* Beside the property: what an answer and a mark under way may differ in from the
\* table, and who will start the listener.
THEOREM NoticeInvariance == NoticeSpec => []NoticeInv
<1>1. NoticeInit => NoticeInv
  BY NoticeInitInv
<1>2. NoticeInv /\ [NoticeNext]_noticeVars => NoticeInv'
  <2> SUFFICES ASSUME NoticeInv, [NoticeNext]_noticeVars PROVE NoticeInv'
    OBVIOUS
  <2>1. CASE UNCHANGED noticeVars
    BY <2>1, NoticesStay DEF noticeVars
  <2> QED
    BY <2>1, FindManyInv, LoadInv, CountUnreadInv, LoadFailsInv, ReloadInv, FindMarkedInv,
       UpdateMarkedInv, ApplyMarkedInv, MarkFailsInv, MarkEndsInv, StrayMarkAllInv,
       StrayTestInv, StrayRegisterInv, StrayEndsInv, ToggleReadInv, ArriveInv,
       QueueTestPushInv, PushUnheardInv, MarkElsewhereInv, NotificationReceivedInv,
       RequestPermissionInv, ButtonsInv, MarkAllReadInv, RefuseTestPushInv,
       RegisterWebPushInv, EndUnseenInv, TaskFailsInv, WebpushEnabledInv, ListeningInv,
       ListeningFailsInv, LeaveDashboardInv, Zenon DEF NoticeNext
<1> QED
  BY <1>1, <1>2, PTL DEF NoticeSpec

LEMMA NotificationsRun == DashboardSpec => NoticeSpec
<1>1. DashboardInit => NoticeInit
  BY DEF DashboardInit
<1>2. [DashboardNext]_dashboardVars => [NoticeNext]_noticeVars
  BY DEF DashboardNext, dashboardVars
<1> QED
  BY <1>1, <1>2, PTL DEF DashboardSpec, NoticeSpec

\* For any notifications, limit of an answer, loads, marks, failures and requests that
\* the service does when the client has given up on them, the notification page and
\* the unread count settle on the first page of the database up to what changed
\* behind their last answer, no skeleton stays, and a push is heard by one listener.
THEOREM NotificationsStayTruthful == DashboardSpec => []NotificationsAreTruthful
<1>1. NoticeInv => NotificationsAreTruthful
  <2> SUFFICES ASSUME NoticeInv PROVE NotificationsAreTruthful
    OBVIOUS
  <2>1. NoticesAppear
    BY DEF NoticeInv, Shows
  <2>2. OneListener
    <3>1. task = NoTask => task.op # "enable"
      BY NoticeConstants
    <3> QED
      BY <3>1 DEF NoticeInv, EarOK, OneListener, NoticesTyped
  <2>3. NoticesHaveACause
    <3> SUFFICES ASSUME Quiet
                 PROVE  /\ spot = "page" =>
                             \A n \in Notices :
                                 \/ list[n] = inbox[n] \/ n \in excused
                                 \/ list[n] = "ABSENT" /\ n \notin Newest(inbox)
                        /\ spot = "card" /\ excused = {} =>
                             counter = <<"count", Cardinality(IsUnread(FirstPage(inbox)))>>
      BY DEF NoticesHaveACause
    <3>1. ~Loading /\ ~Reloading /\ \A n \in Notices : ~Marking(n)
      BY NoticeConstants DEF Quiet, Loading, Reloading, Marking
    <3> QED
      BY <3>1 DEF NoticeInv, Shows, PageOK, CardOK, Accounted
  <2> QED
    BY <2>1, <2>2, <2>3 DEF NotificationsAreTruthful
<1> QED
  BY <1>1, NotificationsRun, NoticeInvariance, PTL

-----------------------------------------------------------------------------
(* The organizations that the allocation dialog ticks                      *)

\* The equation of the recursive function in Above.
Climbing(known, f) ==
    [o \in TreeOrgs |->
        IF o \notin known THEN {}
        ELSE {TreeParent[o]} \cup (IF TreeParent[o] \in TreeOrgs THEN f[TreeParent[o]] ELSE {})]

\* It has a solution: what every set contains that has the parent of the
\* organization and, with a known organization, the parent of that one.
TreeNodes == TreeOrgs \cup {0}
ClosedUp(known, S) == \A x \in S \cap known : TreeParent[x] \in S
Forebears(known, o) ==
    {x \in TreeNodes : \A S \in SUBSET TreeNodes :
        (o \in known => TreeParent[o] \in S) /\ ClosedUp(known, S) => x \in S}

LEMMA TreeFacts ==
    /\ 0 \notin TreeOrgs /\ 1 \in TreeOrgs /\ TreeOrgs \subseteq Nat
    /\ \A o \in TreeOrgs : TreeParent[o] \in TreeNodes /\ TreeParent[o] < o
    /\ \A o \in TreeOrgs : TreeParent[o] = 0 <=> o = 1
  BY OrganizationPagesAssumption DEF TreeNodes

LEMMA NoAncestors ==
    ASSUME NEW known \in SUBSET TreeOrgs, NEW o \in TreeOrgs, o \notin known
    PROVE  Forebears(known, o) = {}
<1>1. {} \in SUBSET TreeNodes /\ ClosedUp(known, {})
  BY DEF ClosedUp
<1> QED
  BY <1>1 DEF Forebears

LEMMA RootAncestors ==
    ASSUME NEW known \in SUBSET TreeOrgs, NEW o \in known, TreeParent[o] \notin TreeOrgs
    PROVE  Forebears(known, o) = {TreeParent[o]}
<1>1. TreeParent[o] = 0
  BY TreeFacts DEF TreeNodes
<1>2. {0} \in SUBSET TreeNodes /\ ClosedUp(known, {0})
  BY TreeFacts DEF TreeNodes, ClosedUp
<1> QED
  BY <1>1, <1>2 DEF Forebears

LEMMA MoreAncestors ==
    ASSUME NEW known \in SUBSET TreeOrgs, NEW o \in known, TreeParent[o] \in TreeOrgs
    PROVE  Forebears(known, o) = {TreeParent[o]} \cup Forebears(known, TreeParent[o])
<1>1. PICK d \in TreeOrgs : d = TreeParent[o]
  OBVIOUS
<1>2. d \in TreeNodes /\ \A x \in TreeOrgs : TreeParent[x] \in TreeNodes
  BY TreeFacts DEF TreeNodes
<1>3. d \in Forebears(known, o)
  BY <1>1, <1>2 DEF Forebears
<1>4. ASSUME NEW x \in Forebears(known, d) PROVE x \in Forebears(known, o)
  <2>1. ASSUME NEW S \in SUBSET TreeNodes, TreeParent[o] \in S, ClosedUp(known, S)
        PROVE  x \in S
    <3>1. d \in known => TreeParent[d] \in S
      BY <1>1, <2>1 DEF ClosedUp
    <3> QED
      BY <1>4, <2>1, <3>1 DEF Forebears
  <2> QED
    BY <1>4, <2>1 DEF Forebears
<1>5. PICK T : T = {d} \cup Forebears(known, d)
  OBVIOUS
<1>6. T \in SUBSET TreeNodes
  BY <1>2, <1>5 DEF Forebears
<1>7. ClosedUp(known, T)
  <2>1. ASSUME NEW x \in T, x \in known PROVE TreeParent[x] \in Forebears(known, d)
    <3>1. TreeParent[x] \in TreeNodes
      BY <1>2, <2>1
    <3>2. ASSUME NEW S \in SUBSET TreeNodes, d \in known => TreeParent[d] \in S,
                 ClosedUp(known, S)
          PROVE  TreeParent[x] \in S
      <4>1. CASE x = d
        BY <2>1, <3>2, <4>1
      <4>2. CASE x \in Forebears(known, d)
        <5>1. x \in S
          BY <3>2, <4>2 DEF Forebears
        <5> QED
          BY <2>1, <3>2, <5>1 DEF ClosedUp
      <4> QED
        BY <1>5, <4>1, <4>2
    <3> QED
      BY <3>1, <3>2 DEF Forebears
  <2> QED
    BY <1>5, <2>1 DEF ClosedUp
<1>8. Forebears(known, o) \subseteq T
  BY <1>1, <1>5, <1>6, <1>7 DEF Forebears
<1> QED
  BY <1>1, <1>3, <1>4, <1>5, <1>8

\* The ancestors of an organization in a list.
LEMMA AboveIsClimbing ==
    ASSUME NEW known \in SUBSET TreeOrgs
    PROVE  \A o \in TreeOrgs : Above(known)[o] =
              IF o \notin known THEN {}
              ELSE {TreeParent[o]} \cup (IF TreeParent[o] \in TreeOrgs
                                         THEN Above(known)[TreeParent[o]] ELSE {})
<1> DEFINE f == [o \in TreeOrgs |-> Forebears(known, o)]
<1>1. ASSUME NEW o \in TreeOrgs PROVE f[o] = Climbing(known, f)[o]
  BY NoAncestors, RootAncestors, MoreAncestors DEF Climbing
<1>2. f = Climbing(known, f)
  <2>1. f = [o \in TreeOrgs |-> f[o]]
    OBVIOUS
  <2>2. Climbing(known, f) = [o \in TreeOrgs |-> Climbing(known, f)[o]]
    BY DEF Climbing
  <2> HIDE DEF f
  <2> QED
    BY <1>1, <2>1, <2>2
<1>3. PICK up : up = CHOOSE g : g = Climbing(known, g)
  OBVIOUS
<1>4. up = Climbing(known, up)
  BY <1>2, <1>3
<1>5. Above(known) = up
  BY <1>3 DEF Above, Climbing
<1> QED
  BY <1>4, <1>5 DEF Climbing

\* A list without the root that has, with an organization, the one above it.
Listing(S) ==
    S \in SUBSET TreeOrgs /\ ROOT \notin S /\ \A o \in S : TreeParent[o] \in S \cup {ROOT}

\* In such a list an organization has all its ancestors, the root among them.
LEMMA ListsAreWhole ==
    ASSUME NEW S, Listing(S), NEW o \in S
    PROVE  /\ ROOT \in Above(S)[o]
           /\ Above(TreeOrgs)[o] = Above(S)[o] \cup {0}
<1> DEFINE Good(x) == ROOT \in Above(S)[x] /\ Above(TreeOrgs)[x] = Above(S)[x] \cup {0}
           Bad == {x \in S : ~Good(x)}
<1>1. S \in SUBSET TreeOrgs /\ TreeOrgs \in SUBSET TreeOrgs
  BY DEF Listing
<1>2. PICK few : few = Above(S)
  OBVIOUS
<1>3. PICK all : all = Above(TreeOrgs)
  OBVIOUS
<1>4. \A x \in TreeOrgs : few[x] = IF x \notin S THEN {}
        ELSE {TreeParent[x]} \cup (IF TreeParent[x] \in TreeOrgs THEN few[TreeParent[x]] ELSE {})
  BY <1>1, <1>2, AboveIsClimbing
<1>5. \A x \in TreeOrgs : all[x] = {TreeParent[x]} \cup
        (IF TreeParent[x] \in TreeOrgs THEN all[TreeParent[x]] ELSE {})
  BY <1>1, <1>3, AboveIsClimbing
<1>6. few[1] = {} /\ all[1] = {0}
  BY <1>4, <1>5, TreeFacts DEF Listing, ROOT
<1>7. ASSUME Bad # {} PROVE FALSE
  <2>1. PICK x \in Bad : \A y \in Bad : x <= y
    <3>1. Bad \in SUBSET Nat
      BY <1>1, TreeFacts
    <3> QED
      BY <1>7, <3>1, LeastNumber
  <2>2. x \in S /\ x \in TreeOrgs /\ ~Good(x)
    BY <1>1
  <2>3. PICK d : d = TreeParent[x]
    OBVIOUS
  <2>4. d \in S \cup {1} /\ d \in TreeOrgs /\ d < x
    BY <1>1, <2>2, <2>3, TreeFacts DEF Listing, ROOT
  <2>5. few[x] = {d} \cup few[d] /\ all[x] = {d} \cup all[d]
    BY <1>4, <1>5, <2>2, <2>3, <2>4
  <2>6. CASE d = 1
    BY <1>2, <1>3, <1>6, <2>2, <2>5, <2>6 DEF ROOT
  <2>7. CASE d \in S
    <3>1. d \in Nat /\ x \in Nat
      BY <2>2, <2>4, TreeFacts
    <3>2. d \notin Bad
      BY <2>1, <2>4, <3>1
    <3>3. 1 \in few[d] /\ all[d] = few[d] \cup {0}
      BY <1>2, <1>3, <2>7, <3>2 DEF ROOT
    <3> QED
      BY <1>2, <1>3, <2>2, <2>5, <3>3 DEF ROOT
  <2> QED
    BY <2>4, <2>6, <2>7
<1> QED
  BY <1>7

Boxes == [open : BOOLEAN, loads : SUBSET SUBSET TreeOrgs, loading : BOOLEAN,
          listed : SUBSET TreeOrgs, targets : SUBSET TreeOrgs, sent : SUBSET TreeOrgs,
          checked : SUBSET TreeOrgs, offered : SUBSET TreeOrgs]

\* The dialog has lists of the tree as it was once, and what it sent is what it
\* showed.
WholeTree == tree \in SUBSET TreeOrgs /\ 1 \in tree /\ \A o \in tree \ {1} : TreeParent[o] \in tree
Listed(S, t) == Listing(S) /\ S \subseteq t
SentOf(b) == {o \in b.offered : o \in b.sent \/ Above(TreeOrgs)[o] \cap b.sent # {}}
BoxOK(b, t) ==
    /\ b \in Boxes
    /\ Listed(b.listed, t) /\ Listed(b.offered, t) /\ \A S \in b.loads : Listed(S, t)
    /\ b.checked = SentOf(b)
BoxInv == WholeTree /\ BoxOK(box, tree)

LEMMA BoxTyped ==
    ASSUME NEW b \in Boxes
    PROVE  /\ b.listed \in SUBSET TreeOrgs /\ b.targets \in SUBSET TreeOrgs
           /\ b.sent \in SUBSET TreeOrgs /\ b.offered \in SUBSET TreeOrgs
           /\ b.loads \in SUBSET SUBSET TreeOrgs
  BY DEF Boxes

\* Lists, dialogs and the tree when an organization is added.
LEMMA BoxesGrow ==
    ASSUME NEW b, NEW t, NEW u, BoxOK(b, t), t \subseteq u
    PROVE  BoxOK(b, u)
<1>1. \A S : Listed(S, t) => Listed(S, u)
  BY DEF Listed
<1> QED
  BY <1>1 DEF BoxOK

LEMMA LoadedLists ==
    ASSUME WholeTree PROVE Listed(tree \ {ROOT}, tree)
  BY TreeFacts DEF WholeTree, Listed, Listing, ROOT

\* A change of the dialog that is not an allocation.
LEMMA BoxMoves ==
    ASSUME NEW b, NEW t, BoxOK(b, t), NEW open \in BOOLEAN, NEW loading \in BOOLEAN,
           NEW ls \in SUBSET SUBSET TreeOrgs, \A S \in ls : Listed(S, t),
           NEW L, Listed(L, t), NEW targets \in SUBSET TreeOrgs, NEW a,
           a = [b EXCEPT !.open = open, !.loads = ls, !.loading = loading, !.listed = L,
                         !.targets = targets]
    PROVE  BoxOK(a, t)
<1>1. L \in SUBSET TreeOrgs
  BY DEF Listed, Listing
<1>2. b \in Boxes
  BY DEF BoxOK
<1>3. a \in Boxes
  BY <1>1, <1>2 DEF Boxes
<1>4. /\ a.offered = b.offered /\ a.sent = b.sent /\ a.checked = b.checked
      /\ a.listed = L /\ a.loads = ls
  BY <1>2 DEF Boxes
<1> QED
  BY <1>3, <1>4 DEF BoxOK, SentOf

LEMMA SetOpenBox ==
    ASSUME BoxInv, NEW open \in BOOLEAN, setOpen(open)
    PROVE  BoxInv'
<1>1. /\ box' = [box EXCEPT !.open = open,
                   !.loads = IF open /\ box.listed = {} THEN @ \cup {tree \ {ROOT}} ELSE @,
                   !.loading = @ \/ (open /\ box.listed = {})]
      /\ tree' = tree
  BY DEF setOpen
<1>2. PICK ls : ls = IF open /\ box.listed = {} THEN box.loads \cup {tree \ {ROOT}} ELSE box.loads
  OBVIOUS
<1>3. PICK loading \in BOOLEAN : loading = (box.loading \/ (open /\ box.listed = {}))
  OBVIOUS
<1>4. box \in Boxes /\ WholeTree
  BY DEF BoxInv, BoxOK
<1>5. /\ box.listed \in SUBSET TreeOrgs /\ box.targets \in SUBSET TreeOrgs
      /\ box.loads \in SUBSET SUBSET TreeOrgs /\ tree \ {ROOT} \in SUBSET TreeOrgs
  BY <1>4, BoxTyped DEF WholeTree
<1>6. ls \in SUBSET SUBSET TreeOrgs
  BY <1>2, <1>5
<1>7. \A S \in ls : Listed(S, tree)
  BY <1>2, <1>4, LoadedLists DEF BoxInv, BoxOK
<1>8. box' = [box EXCEPT !.open = open, !.loads = ls, !.loading = loading,
                         !.listed = box.listed, !.targets = box.targets]
  BY <1>1, <1>2, <1>3, <1>4 DEF Boxes
<1>9. BoxOK(box, tree) /\ Listed(box.listed, tree)
  BY DEF BoxInv, BoxOK
<1>10. PICK a : a = box'
  OBVIOUS
<1>11. BoxOK(a, tree)
  BY <1>5, <1>6, <1>7, <1>8, <1>9, <1>10, BoxMoves, Zenon
<1> QED
  BY <1>1, <1>10, <1>11 DEF BoxInv, WholeTree

LEMMA DescendantsBox ==
    ASSUME BoxInv, NEW orgs \in SUBSET TreeOrgs, NEW ok \in BOOLEAN,
           getRootOrganizationDescendants(orgs, ok)
    PROVE  BoxInv'
<1>1. /\ box' = [box EXCEPT !.loads = @ \ {orgs}, !.loading = FALSE,
                            !.listed = IF ok THEN orgs ELSE @]
      /\ tree' = tree /\ orgs \in box.loads
  BY DEF getRootOrganizationDescendants
<1>2. PICK L : L = IF ok THEN orgs ELSE box.listed
  OBVIOUS
<1>3. PICK no \in BOOLEAN : no = FALSE
  OBVIOUS
<1>4. box \in Boxes
  BY DEF BoxInv, BoxOK
<1>5. box.open \in BOOLEAN
  BY <1>4 DEF Boxes
<1>6. Listed(L, tree)
  BY <1>1, <1>2 DEF BoxInv, BoxOK
<1>7. box' = [box EXCEPT !.open = box.open, !.loads = box.loads \ {orgs}, !.loading = no,
                         !.listed = L, !.targets = box.targets]
  BY <1>1, <1>2, <1>3, <1>4 DEF Boxes
<1>8. /\ box.targets \in SUBSET TreeOrgs /\ box.loads \ {orgs} \in SUBSET SUBSET TreeOrgs
      /\ \A S \in box.loads \ {orgs} : Listed(S, tree)
  BY <1>4, BoxTyped DEF BoxInv, BoxOK
<1>9. BoxOK(box, tree)
  BY DEF BoxInv
<1>10. PICK a : a = box'
  OBVIOUS
<1>11. BoxOK(a, tree)
  BY <1>5, <1>6, <1>7, <1>8, <1>9, <1>10, BoxMoves, Zenon
<1> QED
  BY <1>1, <1>10, <1>11 DEF BoxInv, WholeTree

LEMMA TickBox ==
    ASSUME BoxInv, NEW targets \in SUBSET TreeOrgs, Tick(targets)
    PROVE  BoxInv'
<1>1. box' = [box EXCEPT !.targets = targets] /\ tree' = tree
  BY DEF Tick
<1>2. box \in Boxes
  BY DEF BoxInv, BoxOK
<1>3. box.open \in BOOLEAN /\ box.loading \in BOOLEAN
  BY <1>2 DEF Boxes
<1>4. box' = [box EXCEPT !.open = box.open, !.loads = box.loads, !.loading = box.loading,
                         !.listed = box.listed, !.targets = targets]
  BY <1>1, <1>2 DEF Boxes
<1>5. /\ BoxOK(box, tree) /\ Listed(box.listed, tree)
      /\ \A S \in box.loads : Listed(S, tree)
  BY DEF BoxInv, BoxOK
<1>6. box.loads \in SUBSET SUBSET TreeOrgs
  BY <1>2, BoxTyped
<1>7. PICK a : a = box'
  OBVIOUS
<1>8. BoxOK(a, tree)
  BY <1>3, <1>4, <1>5, <1>6, <1>7, BoxMoves, Zenon
<1> QED
  BY <1>1, <1>7, <1>8 DEF BoxInv, WholeTree

LEMMA ChecksBox ==
    ASSUME BoxInv, checkRoot \/ \E o \in TreeOrgs : checkOrganization(o)
    PROVE  BoxInv'
<1>1. box.targets \in SUBSET TreeOrgs /\ ROOT \in TreeOrgs
  BY BoxTyped, TreeFacts DEF BoxInv, BoxOK, ROOT
<1>2. CASE checkRoot
  <2>1. PICK T : /\ T = IF ROOT \in box.targets THEN box.targets \ {ROOT} ELSE {ROOT}
                 /\ Tick(T)
    BY <1>2 DEF checkRoot
  <2>2. T \in SUBSET TreeOrgs
    BY <1>1, <2>1
  <2> QED
    BY <2>1, <2>2, TickBox
<1>3. ASSUME NEW o \in TreeOrgs, checkOrganization(o) PROVE BoxInv'
  <2>1. PICK T : /\ T = IF o \in box.targets THEN box.targets \ {o}
                        ELSE {x \in box.targets : ~isDescendantOf(x, o)} \cup {o}
                 /\ Tick(T)
    BY <1>3 DEF checkOrganization
  <2>2. T \in SUBSET TreeOrgs
    BY <1>1, <2>1
  <2> QED
    BY <2>1, <2>2, TickBox
<1> QED
  BY <1>2, <1>3

\* The ticks at the moment of the request are the organizations of the list that
\* the service will find.
LEMMA TicksAreSent ==
    ASSUME BoxInv
    PROVE  Checked = {o \in box.listed :
                        o \in box.targets \/ Above(TreeOrgs)[o] \cap box.targets # {}}
<1>1. Listing(box.listed) /\ box.targets \in SUBSET TreeOrgs
  BY BoxTyped DEF BoxInv, BoxOK, Listed
<1>2. 0 \notin box.targets
  BY <1>1, TreeFacts
<1>3. ASSUME NEW o \in box.listed
      PROVE  isCoveredByAncestor(o) <=> Above(TreeOrgs)[o] \cap box.targets # {}
  <2>1. box.listed \cup {o} = box.listed
    OBVIOUS
  <2>2. /\ ROOT \in Above(box.listed)[o]
        /\ Above(TreeOrgs)[o] = Above(box.listed)[o] \cup {0}
    BY <1>1, ListsAreWhole
  <2> QED
    BY <1>2, <2>1, <2>2 DEF isCoveredByAncestor
<1> QED
  BY <1>3 DEF Checked

LEMMA HandleAllocateBox ==
    ASSUME BoxInv, handleAllocate
    PROVE  BoxInv'
<1>1. /\ box' = [box EXCEPT !.sent = box.targets, !.checked = Checked, !.offered = box.listed]
      /\ tree' = tree
  BY DEF handleAllocate
<1>2. PICK C : C = Checked
  OBVIOUS
<1>3. box \in Boxes
  BY DEF BoxInv, BoxOK
<1>4. C \in SUBSET TreeOrgs
  BY <1>2, <1>3, BoxTyped DEF Checked
<1>5. PICK a : a = [box EXCEPT !.sent = box.targets, !.checked = C, !.offered = box.listed]
  OBVIOUS
<1>6. a \in Boxes
  BY <1>3, <1>4, <1>5 DEF Boxes
<1>7. /\ a.listed = box.listed /\ a.loads = box.loads /\ a.offered = box.listed
      /\ a.sent = box.targets /\ a.checked = C
  BY <1>3, <1>5 DEF Boxes
<1>8. C = SentOf(a)
  BY <1>2, <1>7, TicksAreSent DEF SentOf
<1>9. BoxOK(a, tree)
  BY <1>6, <1>7, <1>8 DEF BoxInv, BoxOK
<1> QED
  BY <1>1, <1>2, <1>5, <1>9 DEF BoxInv, WholeTree

LEMMA AllocateBox ==
    ASSUME BoxInv, NEW ok \in BOOLEAN, allocateSemesterPoints(ok)
    PROVE  BoxInv'
<1>1. /\ box' = [box EXCEPT !.sent = {}, !.checked = {}, !.offered = {}, !.open = @ /\ ~ok]
      /\ tree' = tree
  BY DEF allocateSemesterPoints
<1>2. PICK open \in BOOLEAN : open = (box.open /\ ~ok)
  OBVIOUS
<1>3. box \in Boxes
  BY DEF BoxInv, BoxOK
<1>4. PICK a : a = [box EXCEPT !.sent = {}, !.checked = {}, !.offered = {}, !.open = open]
  OBVIOUS
<1>5. a \in Boxes
  BY <1>3, <1>4 DEF Boxes
<1>6. /\ a.listed = box.listed /\ a.loads = box.loads /\ a.offered = {} /\ a.checked = {}
  BY <1>3, <1>4 DEF Boxes
<1>7. Listed({}, tree) /\ SentOf(a) = {}
  BY <1>6 DEF Listed, Listing, SentOf
<1>8. BoxOK(a, tree)
  BY <1>5, <1>6, <1>7 DEF BoxInv, BoxOK
<1> QED
  BY <1>1, <1>2, <1>4, <1>8 DEF BoxInv, WholeTree

LEMMA CreateOrganizationBox ==
    ASSUME BoxInv, NEW o \in TreeOrgs, createOrganization(o)
    PROVE  BoxInv'
<1>1. tree' = tree \cup {o} /\ box' = box /\ TreeParent[o] \in tree
  BY DEF createOrganization
<1>2. WholeTree'
  BY <1>1 DEF BoxInv, WholeTree
<1>3. BoxOK(box, tree')
  BY <1>1, BoxesGrow DEF BoxInv
<1> QED
  BY <1>1, <1>2, <1>3 DEF BoxInv

LEMMA BoxStays ==
    ASSUME BoxInv, UNCHANGED boxVars
    PROVE  BoxInv'
  BY DEF BoxInv, WholeTree, boxVars

THEOREM BoxInvariance == OrgSpec => []BoxInv
<1>1. OrgInit => BoxInv
  <2> SUFFICES ASSUME OrgInit PROVE BoxInv
    OBVIOUS
  <2>1. WholeTree
    BY DEF OrgInit, WholeTree
  <2>2. box = NewDialogBox
    BY DEF OrgInit
  <2>3. ROOT \in TreeOrgs
    BY TreeFacts DEF ROOT
  <2>4. box \in Boxes
    BY <2>2, <2>3 DEF NewDialogBox, Boxes
  <2>5. box.listed = {} /\ box.offered = {} /\ box.loads = {} /\ box.checked = {}
    BY <2>2 DEF NewDialogBox
  <2>6. Listed({}, tree) /\ SentOf(box) = {}
    BY <2>5 DEF Listed, Listing, SentOf
  <2> QED
    BY <2>1, <2>4, <2>5, <2>6 DEF BoxInv, BoxOK
<1>2. BoxInv /\ [OrgNext]_orgVars => BoxInv'
  <2> SUFFICES ASSUME BoxInv, [OrgNext]_orgVars PROVE BoxInv'
    OBVIOUS
  <2>1. CASE UNCHANGED orgVars
    BY <2>1, BoxStays DEF orgVars
  <2>2. ASSUME NEW op \in OtherOps, otherChange(op) PROVE UNCHANGED boxVars
    BY <2>2 DEF otherChange
  <2>3. ASSUME NEW l \in {"first", "reload"}, NEW p \in Parts, getPart(l, p)
        PROVE  UNCHANGED boxVars
    BY <2>3 DEF getPart
  <2>4. applyLists \/ retryLists => UNCHANGED boxVars
    BY DEF applyLists, retryLists
  <2>5. ASSUME NEW s \in {"error", "gone"}, failLists(s) PROVE UNCHANGED boxVars
    BY <2>5 DEF failLists
  <2>6. ASSUME NEW c \in Desk PROVE
          /\ \A op \in DOMAIN Ops : submitChange(c, op) => UNCHANGED boxVars
          /\ updateMembershipStatus(c) \/ refuseChangeOfRow(c) \/ answerDecision(c)
             => UNCHANGED boxVars
          /\ showRefusal(c) \/ perform(c) \/ applyReload(c) \/ failReload(c) \/ loseAnswer(c)
             => UNCHANGED boxVars
          /\ submitRequest(c) \/ findExisting(c) \/ answerRequest(c) => UNCHANGED boxVars
          /\ \A s \in {"PENDING", "APPROVED"} : requestMembership(c, s) => UNCHANGED boxVars
    BY Zenon DEF submitChange, updateMembershipStatus, refuseChangeOfRow, answerDecision, showRefusal,
           perform, applyReload, failReload, loseAnswer, submitRequest, findExisting,
           answerRequest, requestMembership
  <2> QED
    BY <2>1, <2>2, <2>3, <2>4, <2>5, <2>6, BoxStays, SetOpenBox, DescendantsBox, ChecksBox,
       HandleAllocateBox, AllocateBox, CreateOrganizationBox DEF OrgNext
<1> QED
  BY <1>1, <1>2, PTL DEF OrgSpec

LEMMA OrganizationsRun == DashboardSpec => OrgSpec
<1>1. DashboardInit => OrgInit
  BY DEF DashboardInit
<1>2. [DashboardNext]_dashboardVars => [OrgNext]_orgVars
  BY DEF DashboardNext, dashboardVars
<1> QED
  BY <1>1, <1>2, PTL DEF DashboardSpec, OrgSpec

\* For any hierarchy, any order of ticking the boxes and any number of organizations
\* that are created meanwhile, the semester's points go to the organizations of the
\* dialog's list that it shows with a tick, and to no other of the list.
THEOREM TicksAreHonoured == DashboardSpec => []TicksAreAllocated
<1>1. BoxInv => TicksAreAllocated
  BY DEF BoxInv, BoxOK, Listed, SentOf, TicksAreAllocated, Allocated
<1> QED
  BY <1>1, OrganizationsRun, BoxInvariance, PTL

-----------------------------------------------------------------------------
(* The pages of memberships and rules                                      *)

Written == {"NONE", "PENDING", "APPROVED", "REJECTED", "ADMIN", "PLAIN", "AUTO", "LISTED", "USED"}
LoadSet == [stage : {"none", "sent"}, got : [Parts -> Written \cup {Unread}], since : SUBSET Parts]
CallStages == {"none", "sent", "looked", "done", "conflict", "failed", "reloading"}
CallSet == [op : DOMAIN Ops \cup {"none", "request"}, part : Parts \cup {"none"},
            stage : CallStages, mounted : BOOLEAN, lost : BOOLEAN, row : Written \cup {"none"}]
OrgTyped ==
    /\ panel \in DOMAIN PartsOf
    /\ db \in [Parts -> Written] /\ shown \in [Parts -> Written]
    /\ loads \in [{"first", "reload"} -> LoadSet]
    /\ desk \in [Desk -> CallSet] /\ strangers \in SUBSET Parts

\* A call changes a row of the page.  The answer to a request has the row that was
\* made, or finds one, unless somebody else changed it since.
RowKnown == db["members"] # "NONE" \/ "members" \in strangers
ChangeOK(r) ==
    /\ r.op \in DOMAIN Ops /\ panel \in {"members", "rules"}
    /\ r.part = Ops[r.op].part /\ r.part \in PartsOf[panel]
AskedOK(r) ==
    /\ r.op = "request" /\ panel = "request" /\ listState = "loaded" /\ r.part = "members"
    /\ r.stage # "reloading"
    /\ r.stage = "done" => /\ r.row \in Written \ {"NONE"}
                           /\ r.row = db["members"] \/ "members" \in strangers
    /\ r.stage = "conflict" => RowKnown
CallsOK == \A c \in Desk : desk[c] = NoCall \/ ChangeOK(desk[c]) \/ AskedOK(desk[c])

\* What a load has read differs from the row if the row changed behind it; the
\* members page throws the load away when it is told of its own change.
Told(p) == panel # "rules" /\ \E c \in Desk : desk[c].part = p /\ desk[c].stage = "done"
LoadOK(ld) ==
    ld.stage = "sent" => \A p \in PartsOf[panel] :
        ld.got[p] = Unread \/ ld.got[p] = db[p] \/ p \in ld.since \/ Told(p)
LoadsOK ==
    /\ LoadOK(loads["first"]) /\ LoadOK(loads["reload"])
    /\ panel # "rules" => loads["reload"].stage = "none"
    /\ panel # "rules" /\ listState # "loading" => loads["first"].stage = "none"

OneRow == rowsMade = IF db["members"] = "NONE" THEN 0 ELSE 1
RequestCardOK ==
    /\ card # "idle" => panel = "request" /\ listState = "loaded"
    /\ card \in {"success", "exists"} => RowKnown

OrgInv ==
    OrgTyped /\ CallsOK /\ LoadsOK /\ OwnDecisionsAreShown /\ OneRow /\ RequestCardOK

LEMMA OrgTables ==
    /\ DOMAIN PartsOf = {"members", "rules", "request", "mine", "allocate"}
    /\ \A s \in DOMAIN PartsOf : PartsOf[s] \in SUBSET Parts
    /\ PartsOf["request"] = {"members"} /\ "members" \in Parts /\ "none" \notin Parts
  BY DEF PartsOf, Parts

\* Operations on rows of the members list neither make nor remove one.
OpFits(o) ==
    /\ o.part \in Parts /\ o.gives \in Written
    /\ o.part = "members" => "NONE" \notin o.allowed /\ o.gives # "NONE"

LEMMA OpTables ==
    /\ "request" \notin DOMAIN Ops /\ "none" \notin DOMAIN Ops
    /\ \A op \in DOMAIN Ops : OpFits(Ops[op])
<1>1. DOMAIN Ops = {"approve", "reject", "appoint", "revoke", "addDomain", "addAuto", "setAuto",
                    "clearAuto", "removeDomain", "addEmail", "removeEmail"}
  BY DEF Ops
<1>2. /\ Ops["approve"] = approveMembership /\ Ops["reject"] = rejectMembership
      /\ Ops["appoint"] = appointChildAdministrator /\ Ops["revoke"] = revokeChildAdministrator
      /\ Ops["addDomain"] = addEmailDomain(FALSE) /\ Ops["addAuto"] = addEmailDomain(TRUE)
      /\ Ops["setAuto"] = updateEmailDomain(TRUE) /\ Ops["clearAuto"] = updateEmailDomain(FALSE)
      /\ Ops["removeDomain"] = removeEmailDomain /\ Ops["addEmail"] = addToAllowlist
      /\ Ops["removeEmail"] = removeFromAllowlist
  BY DEF Ops
<1>3. OpFits(approveMembership) /\ OpFits(rejectMembership)
  BY DEF OpFits, approveMembership, rejectMembership, Op, Parts, Written
<1>4. OpFits(appointChildAdministrator) /\ OpFits(revokeChildAdministrator)
  BY DEF OpFits, appointChildAdministrator, revokeChildAdministrator, Op, Parts, Written
<1>5. /\ OpFits(addEmailDomain(FALSE)) /\ OpFits(addEmailDomain(TRUE))
      /\ OpFits(updateEmailDomain(FALSE)) /\ OpFits(updateEmailDomain(TRUE))
      /\ OpFits(removeEmailDomain)
  BY DEF OpFits, addEmailDomain, updateEmailDomain, removeEmailDomain, Op, Parts, Written
<1>6. OpFits(addToAllowlist) /\ OpFits(removeFromAllowlist)
  BY DEF OpFits, addToAllowlist, removeFromAllowlist, Op, Parts, Written
<1>7. \A op \in DOMAIN Ops : OpFits(Ops[op])
  BY <1>1, <1>2, <1>3, <1>4, <1>5, <1>6
<1> QED
  BY <1>1, <1>7

LEMMA OtherTables ==
    ASSUME NEW op \in OtherOps
    PROVE  /\ op.part \in Parts /\ op.gives \in Written
           /\ op.part = "members" /\ op.gives = "NONE" => "NONE" \notin op.allowed
<1>1. CASE op \in {Ops[x] : x \in DOMAIN Ops}
  BY <1>1, OpTables DEF OpFits
<1>2. CASE op \in {Op("members", {}, {"NONE"}, "PENDING"), removeMembership,
                   Op("allowlist", {}, {"LISTED"}, "USED")}
  BY <1>2 DEF Op, removeMembership, Parts, Written
<1> QED
  BY <1>1, <1>2 DEF OtherOps

LEMMA Nothings ==
    /\ NoCall \in CallSet /\ NoCall.stage = "none" /\ NoCall.part = "none" /\ NoCall.op = "none"
    /\ NoCall.lost = FALSE
    /\ NoLoad \in LoadSet /\ NoLoad.stage = "none"
    /\ NewLoad \in LoadSet /\ NewLoad.stage = "sent" /\ \A p \in Parts : NewLoad.got[p] = Unread
<1>1. /\ NoCall \in CallSet /\ NoCall.stage = "none" /\ NoCall.part = "none"
      /\ NoCall.op = "none" /\ NoCall.lost = FALSE
  BY DEF NoCall, CallSet, CallStages
<1>2. PICK f : f = [p \in Parts |-> Unread]
  OBVIOUS
<1>3. f \in [Parts -> Written \cup {Unread}] /\ \A p \in Parts : f[p] = Unread
  BY <1>2
<1>4. NoLoad = [stage |-> "none", got |-> f, since |-> {}]
  BY <1>2 DEF NoLoad
<1>5. NoLoad \in LoadSet /\ NoLoad.stage = "none" /\ NoLoad.got = f
  BY <1>3, <1>4 DEF LoadSet
<1>6. NewLoad \in LoadSet /\ NewLoad.stage = "sent" /\ NewLoad.got = f
  BY <1>5 DEF NewLoad, LoadSet
<1> QED
  BY <1>1, <1>3, <1>5, <1>6

\* What is known of a call's answer stays so when the row changes.
RowMoves ==
    /\ strangers \subseteq strangers'
    /\ \/ db'["members"] = db["members"] \/ "members" \in strangers'
       \/ db["members"] = "NONE" /\ db'["members"] # "NONE"

LEMMA AnswersKept ==
    ASSUME panel' = panel, listState' = listState, RowMoves
    PROVE  /\ RowKnown => RowKnown'
           /\ \A r : ChangeOK(r) => ChangeOK(r)'
           /\ \A r : AskedOK(r) => AskedOK(r)'
<1>1. RowKnown => RowKnown'
  BY DEF RowKnown, RowMoves
<1>2. ASSUME NEW r, ChangeOK(r) PROVE ChangeOK(r)'
  BY <1>2 DEF ChangeOK
<1>3. ASSUME NEW r, AskedOK(r) PROVE AskedOK(r)'
  BY <1>1, <1>3 DEF AskedOK, RowMoves
<1> QED
  BY <1>1, <1>2, <1>3

LEMMA ChangesKept ==
    ASSUME panel' = panel, panel # "request"
    PROVE  \A r : (ChangeOK(r) => ChangeOK(r)') /\ ~AskedOK(r)
  BY DEF ChangeOK, AskedOK

LEMMA LoadKept ==
    ASSUME panel' = panel, db' = db, \A p \in PartsOf[panel] : Told(p) => Told(p)'
    PROVE  \A ld : LoadOK(ld) => LoadOK(ld)'
<1> SUFFICES ASSUME NEW ld, LoadOK(ld) PROVE LoadOK(ld)'
  OBVIOUS
<1> QED
  BY DEF LoadOK

\* A load that has read the row does not see its change.
Behind(ld, q) == IF ld.got[q] = Unread THEN ld ELSE [ld EXCEPT !.since = @ \cup {q}]

LEMMA LoadBehind ==
    ASSUME NEW q \in Parts, NEW ld \in LoadSet, NEW m, m = Behind(ld, q), LoadOK(ld),
           panel' = panel, panel \in DOMAIN PartsOf,
           \A p \in Parts : p # q => db'[p] = db[p],
           \A p \in Parts : p # q /\ Told(p) => Told(p)'
    PROVE  m \in LoadSet /\ m.stage = ld.stage /\ LoadOK(m)'
<1>1. PartsOf[panel] \in SUBSET Parts
  BY OrgTables
<1>2. CASE ld.got[q] = Unread
  BY <1>1, <1>2 DEF LoadOK, Behind
<1>3. CASE ld.got[q] # Unread
  <2>1. m = [ld EXCEPT !.since = @ \cup {q}]
    BY <1>3 DEF Behind
  <2>2. m \in LoadSet /\ m.stage = ld.stage /\ m.got = ld.got /\ m.since = ld.since \cup {q}
    BY <2>1 DEF LoadSet
  <2> QED
    BY <1>1, <2>2 DEF LoadOK
<1> QED
  BY <1>2, <1>3

LEMMA MissedIsBehind ==
    ASSUME OrgTyped, NEW q
    PROVE  /\ Missed(q) = [l \in {"first", "reload"} |-> Behind(loads[l], q)]
           /\ Missed(q)["first"] = Behind(loads["first"], q)
           /\ Missed(q)["reload"] = Behind(loads["reload"], q)
<1>1. DOMAIN loads = {"first", "reload"}
  BY DEF OrgTyped
<1> QED
  BY <1>1 DEF Missed, Behind

LEMMA LoadTold ==
    ASSUME NEW q \in Parts, NEW ld, LoadOK(ld), Told(q)',
           panel' = panel, panel \in DOMAIN PartsOf,
           \A p \in Parts : p # q => db'[p] = db[p],
           \A p \in Parts : p # q /\ Told(p) => Told(p)'
    PROVE  LoadOK(ld)'
<1>1. PartsOf[panel] \in SUBSET Parts
  BY OrgTables
<1> QED
  BY <1>1 DEF LoadOK

\* Calls that are done stay so, but for one.
OthersTold(c) ==
    \A d \in Desk : d # c /\ desk[d].stage \in {"done", "reloading"} =>
        desk'[d].part = desk[d].part /\ desk'[d].stage = desk[d].stage

LEMMA ToldKept ==
    ASSUME NEW c \in Desk, OthersTold(c), panel' = panel
    PROVE  /\ \A p : Told(p) => Told(p)' \/ (p = desk[c].part /\ desk[c].stage = "done")
           /\ desk[c].stage # "done" => \A p : Told(p) => Told(p)'
  BY DEF Told, OthersTold

CallOK(r) == r = NoCall \/ ChangeOK(r) \/ AskedOK(r)

\* A call moves whose change the page has not been told of.
LEMMA DeskMoves ==
    ASSUME OrgInv, NEW c \in Desk, NEW r \in CallSet, desk' = [desk EXCEPT ![c] = r],
           desk[c].stage \notin {"done", "reloading"}, CallOK(r)',
           UNCHANGED <<panel, db, shown, listState, loads, strangers, rowsMade>>,
           RequestCardOK'
    PROVE  OrgInv'
<1>1. OrgTyped'
  BY DEF OrgInv, OrgTyped
<1>2. OthersTold(c)
  BY DEF OthersTold, OrgInv, OrgTyped
<1>3. \A p : Told(p) => Told(p)'
  BY <1>2, ToldKept
<1>4. CallsOK'
  <2>1. ASSUME NEW d \in Desk PROVE CallOK(desk[d])'
    <3>1. PICK x : x = desk[d]
      OBVIOUS
    <3>2. CASE d = c
      BY <3>2 DEF OrgInv, OrgTyped
    <3>3. CASE d # c
      <4>1. desk'[d] = x
        BY <3>1, <3>3 DEF OrgInv, OrgTyped
      <4>2. CallOK(x)
        BY <3>1 DEF OrgInv, CallsOK, CallOK
      <4>3. CallOK(x)'
        BY <4>2, AnswersKept DEF CallOK, RowMoves
      <4> QED
        BY <4>1, <4>3
    <3> QED
      BY <3>2, <3>3
  <2> QED
    BY <2>1 DEF CallsOK, CallOK
<1>5. LoadsOK'
  <2>1. \A ld : LoadOK(ld) => LoadOK(ld)'
    BY <1>3, LoadKept
  <2>2. PICK f : f = loads["first"]
    OBVIOUS
  <2>3. PICK g : g = loads["reload"]
    OBVIOUS
  <2>4. LoadOK(f)' /\ LoadOK(g)'
    BY <2>1, <2>2, <2>3 DEF OrgInv, LoadsOK
  <2>5. loads'["first"] = f /\ loads'["reload"] = g
    BY <2>2, <2>3
  <2> QED
    BY <2>2, <2>3, <2>4, <2>5 DEF OrgInv, LoadsOK
<1>6. OwnDecisionsAreShown'
  BY <1>2 DEF OrgInv, OwnDecisionsAreShown, OthersTold
<1>7. OneRow'
  BY DEF OrgInv, OneRow
<1> QED
  BY <1>1, <1>4, <1>5, <1>6, <1>7 DEF OrgInv

LEMMA CardStays ==
    ASSUME RequestCardOK, UNCHANGED <<panel, db, listState, strangers, card>>
    PROVE  RequestCardOK'
  BY DEF RequestCardOK, RowKnown

LEMMA SubmitChangeInv ==
    ASSUME OrgInv, NEW c \in Desk, NEW op \in DOMAIN Ops, submitChange(c, op)
    PROVE  OrgInv'
<1>1. /\ Ops[op].part \in PartsOf[panel] /\ panel \in {"members", "rules"} /\ desk[c] = NoCall
      /\ desk' = [desk EXCEPT ![c] = [NoCall EXCEPT !.op = op, !.part = Ops[op].part,
                                                  !.stage = "sent", !.mounted = TRUE]]
      /\ UNCHANGED <<panel, db, shown, listState, loads, strangers, rowsMade, card>>
  BY DEF submitChange, IsFree
<1>2. PICK yes \in BOOLEAN : yes = TRUE
  OBVIOUS
<1>3. PICK r : r = [NoCall EXCEPT !.op = op, !.part = Ops[op].part, !.stage = "sent",
                                  !.mounted = yes]
  OBVIOUS
<1>4. Ops[op].part \in Parts
  BY OpTables DEF OpFits
<1>5. r \in CallSet /\ r.op = op /\ r.part = Ops[op].part /\ r.stage = "sent"
  BY <1>3, <1>4, Nothings DEF CallSet, CallStages
<1>6. CallOK(r)'
  BY <1>1, <1>5 DEF CallOK, ChangeOK
<1>7. desk' = [desk EXCEPT ![c] = r] /\ desk[c].stage \notin {"done", "reloading"}
  BY <1>1, <1>2, <1>3, Nothings
<1>8. RequestCardOK'
  BY <1>1, CardStays DEF OrgInv
<1> QED
  BY <1>1, <1>5, <1>6, <1>7, <1>8, DeskMoves

LEMMA SubmitRequestInv ==
    ASSUME OrgInv, NEW c \in Desk, submitRequest(c)
    PROVE  OrgInv'
<1>1. /\ panel = "request" /\ listState = "loaded" /\ desk[c] = NoCall /\ card' = "submitting"
      /\ desk' = [desk EXCEPT ![c] = [NoCall EXCEPT !.op = "request", !.part = "members",
                                                  !.stage = "sent", !.mounted = TRUE]]
      /\ UNCHANGED <<panel, db, shown, listState, loads, strangers, rowsMade>>
  BY DEF submitRequest, IsFree
<1>2. PICK yes \in BOOLEAN : yes = TRUE
  OBVIOUS
<1>3. PICK r : r = [NoCall EXCEPT !.op = "request", !.part = "members", !.stage = "sent",
                                  !.mounted = yes]
  OBVIOUS
<1>4. r \in CallSet /\ r.op = "request" /\ r.part = "members" /\ r.stage = "sent"
  BY <1>3, Nothings, OrgTables DEF CallSet, CallStages
<1>5. CallOK(r)'
  BY <1>1, <1>4 DEF CallOK, AskedOK
<1>6. desk' = [desk EXCEPT ![c] = r] /\ desk[c].stage \notin {"done", "reloading"}
  BY <1>1, <1>2, <1>3, Nothings
<1>7. RequestCardOK'
  BY <1>1 DEF RequestCardOK
<1> QED
  BY <1>1, <1>4, <1>5, <1>6, <1>7, DeskMoves

\* A call with another stage.
LEMMA Staged ==
    ASSUME NEW r \in CallSet, NEW s \in CallStages
    PROVE  /\ [r EXCEPT !.stage = s] \in CallSet /\ [r EXCEPT !.stage = s].stage = s
           /\ [r EXCEPT !.stage = s].op = r.op /\ [r EXCEPT !.stage = s].part = r.part
           /\ [r EXCEPT !.stage = s].row = r.row /\ [r EXCEPT !.stage = s].lost = r.lost
  BY DEF CallSet

LEMMA SettleInv ==
    ASSUME OrgInv, NEW c \in Desk, NEW s \in CallStages \ {"done", "reloading"}, Settle(c, s),
           desk[c].stage \in {"sent", "looked"},
           ChangeOK(desk[c]) \/ (AskedOK(desk[c]) /\ (s = "conflict" => RowKnown)),
           UNCHANGED <<panel, db, shown, listState, loads, strangers, rowsMade, card>>
    PROVE  OrgInv'
<1>1. desk[c] \in CallSet
  BY DEF OrgInv, OrgTyped
<1>2. PICK x \in CallSet : x = desk[c]
  BY <1>1
<1>3. PICK y : y = [x EXCEPT !.stage = s]
  OBVIOUS
<1>4. /\ y \in CallSet /\ y.stage = s /\ y.op = x.op /\ y.part = x.part
  BY <1>3, Staged
<1>5. ChangeOK(y) \/ AskedOK(y)
  BY <1>2, <1>4 DEF ChangeOK, AskedOK
<1>6. CallOK(y)' /\ CallOK(NoCall)'
  BY <1>5, AnswersKept DEF CallOK, RowMoves
<1>7. RequestCardOK'
  BY CardStays DEF OrgInv
<1>8. desk' = [desk EXCEPT ![c] = NoCall] \/ desk' = [desk EXCEPT ![c] = y]
  BY <1>2, <1>3 DEF Settle, OrgInv, OrgTyped
<1>9. desk[c].stage \notin {"done", "reloading"}
  OBVIOUS
<1> QED
  BY <1>4, <1>6, <1>7, <1>8, <1>9, Nothings, DeskMoves

LEMMA CallKinds ==
    ASSUME OrgInv, NEW c \in Desk
    PROVE  /\ desk[c].op \in DOMAIN Ops => ChangeOK(desk[c])
           /\ desk[c].op = "request" => AskedOK(desk[c])
           /\ desk[c].stage # "none" => ChangeOK(desk[c]) \/ AskedOK(desk[c])
  BY Nothings, OpTables DEF OrgInv, CallsOK, ChangeOK, AskedOK

LEMMA RefuseChangeOfRowInv ==
    ASSUME OrgInv, NEW c \in Desk, refuseChangeOfRow(c)
    PROVE  OrgInv'
<1>1. /\ desk[c].stage = "sent" /\ desk[c].op \in DOMAIN Ops /\ Settle(c, "conflict")
      /\ UNCHANGED <<panel, db, shown, listState, loads, strangers, rowsMade, card>>
  BY DEF refuseChangeOfRow
<1>2. ChangeOK(desk[c])
  BY <1>1, CallKinds
<1>3. "conflict" \in CallStages \ {"done", "reloading"}
  BY DEF CallStages
<1> QED
  BY <1>1, <1>2, <1>3, SettleInv

LEMMA FindExistingInv ==
    ASSUME OrgInv, NEW c \in Desk, findExisting(c)
    PROVE  OrgInv'
<1>1. /\ desk[c].stage = "sent" /\ desk[c].op = "request"
      /\ IF db["members"] = "NONE" THEN desk' = [desk EXCEPT ![c].stage = "looked"]
         ELSE Settle(c, "conflict")
      /\ UNCHANGED <<panel, db, shown, listState, loads, strangers, rowsMade, card>>
  BY DEF findExisting
<1>2. AskedOK(desk[c]) /\ desk[c] \in CallSet
  BY <1>1, CallKinds DEF OrgInv, OrgTyped
<1>3. CASE db["members"] # "NONE"
  <2>1. "conflict" \in CallStages \ {"done", "reloading"} /\ RowKnown
    BY <1>3 DEF CallStages, RowKnown
  <2> QED
    BY <1>1, <1>2, <1>3, <2>1, SettleInv
<1>4. CASE db["members"] = "NONE"
  <2>1. PICK x \in CallSet : x = desk[c]
    BY <1>2
  <2>2. PICK y : y = [x EXCEPT !.stage = "looked"]
    OBVIOUS
  <2>3. /\ y \in CallSet /\ y.stage = "looked" /\ y.op = x.op /\ y.part = x.part
    BY <2>2, Staged DEF CallStages
  <2>4. AskedOK(y)
    BY <1>2, <2>1, <2>3 DEF AskedOK
  <2>5. CallOK(y)'
    BY <1>1, <2>4, AnswersKept DEF CallOK, RowMoves
  <2>6. desk' = [desk EXCEPT ![c] = y]
    BY <1>1, <1>4, <2>1, <2>2 DEF OrgInv, OrgTyped
  <2>7. RequestCardOK'
    BY <1>1, CardStays DEF OrgInv
  <2> QED
    BY <1>1, <2>3, <2>5, <2>6, <2>7, DeskMoves
<1> QED
  BY <1>3, <1>4

LEMMA ShowRefusalInv ==
    ASSUME OrgInv, NEW c \in Desk, showRefusal(c)
    PROVE  OrgInv'
<1>1. /\ desk[c].stage = "conflict" /\ desk' = [desk EXCEPT ![c] = NoCall]
      /\ UNCHANGED <<panel, db, shown, listState, loads, strangers, rowsMade, card>>
  BY DEF showRefusal
<1>2. CallOK(NoCall)' /\ RequestCardOK'
  BY <1>1, CardStays DEF CallOK, OrgInv
<1> QED
  BY <1>1, <1>2, Nothings, DeskMoves

\* A row changes behind the page.
ToldExcept(q) ==
    \A d \in Desk : desk[d].stage \in {"done", "reloading"} /\ desk[d].part # q =>
        desk'[d].part = desk[d].part /\ desk'[d].stage = desk[d].stage

LEMMA UnseenChange ==
    ASSUME OrgInv, NEW q \in Parts, db' \in [Parts -> Written],
           \A p \in Parts : p # q => db'[p] = db[p],
           ChangeUnseen(q), ToldExcept(q), desk' \in [Desk -> CallSet],
           \A d \in Desk : desk'[d] \in {desk[d], NoCall},
           UNCHANGED <<panel, shown, listState>>,
           card' = card \/ (card' = "error" /\ panel = "request" /\ listState = "loaded"),
           OneRow'
    PROVE  OrgInv'
<1>1. OrgTyped
  BY DEF OrgInv
<1>2. strangers' = strangers \cup {q} /\ loads' = Missed(q)
  BY DEF ChangeUnseen
<1>3. PICK f \in LoadSet : f = loads["first"]
  BY <1>1 DEF OrgTyped
<1>4. PICK g \in LoadSet : g = loads["reload"]
  BY <1>1 DEF OrgTyped
<1>5. \A p \in Parts : p # q /\ Told(p) => Told(p)'
  BY DEF Told, ToldExcept
<1>6. LoadOK(f) /\ LoadOK(g) /\ panel \in DOMAIN PartsOf /\ panel' = panel
  BY <1>1, <1>3, <1>4 DEF OrgInv, LoadsOK, OrgTyped
<1>7. PICK m : m = Behind(f, q)
  OBVIOUS
<1>8. m \in LoadSet /\ m.stage = f.stage /\ LoadOK(m)'
  BY <1>5, <1>6, <1>7, LoadBehind
<1>9. PICK n : n = Behind(g, q)
  OBVIOUS
<1>10. n \in LoadSet /\ n.stage = g.stage /\ LoadOK(n)'
  BY <1>5, <1>6, <1>9, LoadBehind
<1>11. /\ loads' = [l \in {"first", "reload"} |-> Behind(loads[l], q)]
       /\ loads'["first"] = m /\ loads'["reload"] = n
  BY <1>1, <1>2, <1>3, <1>4, <1>7, <1>9, MissedIsBehind
<1>12. loads' \in [{"first", "reload"} -> LoadSet]
  <2>1. \A l \in {"first", "reload"} : loads'[l] \in LoadSet
    BY <1>8, <1>10, <1>11
  <2> QED
    BY <1>11, <2>1
<1>13. OrgTyped'
  BY <1>1, <1>2, <1>12 DEF OrgTyped
<1>14. LoadsOK'
  BY <1>3, <1>4, <1>8, <1>10, <1>11 DEF OrgInv, LoadsOK
<1>15. OwnDecisionsAreShown'
  <2>1. PartsOf[panel] \in SUBSET Parts
    BY <1>6, OrgTables
  <2> QED
    BY <1>2, <2>1 DEF OrgInv, OwnDecisionsAreShown, ToldExcept
<1>16. RowMoves
  BY <1>2, OrgTables DEF RowMoves
<1>17. CallsOK'
  <2>1. ASSUME NEW d \in Desk PROVE CallOK(desk[d])'
    <3>1. PICK x : x = desk[d]
      OBVIOUS
    <3>2. CallOK(x)
      BY <3>1 DEF OrgInv, CallsOK, CallOK
    <3>3. CallOK(x)' /\ CallOK(NoCall)'
      BY <1>16, <3>2, AnswersKept DEF CallOK
    <3>4. desk'[d] = x \/ desk'[d] = NoCall
      BY <3>1
    <3> QED
      BY <3>3, <3>4
  <2> QED
    BY <2>1 DEF CallsOK, CallOK
<1>18. RequestCardOK'
  BY <1>16, AnswersKept DEF OrgInv, RequestCardOK
<1> QED
  BY <1>13, <1>14, <1>15, <1>17, <1>18 DEF OrgInv

LEMMA OtherChangeInv ==
    ASSUME OrgInv, NEW op \in OtherOps, otherChange(op)
    PROVE  OrgInv'
<1>1. /\ db[op.part] \in op.allowed /\ db' = [db EXCEPT ![op.part] = op.gives]
      /\ rowsMade' = CASE op.part = "members" /\ op.gives = "NONE" -> 0
                       [] op.part = "members" /\ db["members"] = "NONE" -> 1
                       [] OTHER -> rowsMade
      /\ ChangeUnseen(op.part) /\ UNCHANGED <<panel, shown, listState, desk, card>>
  BY DEF otherChange
<1>2. PICK q \in Parts : q = op.part
  BY OtherTables
<1>3. PICK v \in Written : v = op.gives
  BY OtherTables
<1>4. /\ db \in [Parts -> Written] /\ desk \in [Desk -> CallSet] /\ OneRow
      /\ "members" \in Parts
  BY OrgTables DEF OrgInv, OrgTyped
<1>5. db' \in [Parts -> Written] /\ (\A p \in Parts : p # q => db'[p] = db[p]) /\ db'[q] = v
  BY <1>1, <1>2, <1>3, <1>4
<1>6. OneRow'
  <2>1. CASE q # "members"
    <3>1. rowsMade' = rowsMade /\ db'["members"] = db["members"]
      BY <1>1, <1>2, <1>4, <1>5, <2>1
    <3> QED
      BY <1>4, <3>1 DEF OneRow
  <2>2. CASE q = "members"
    <3>1. db'["members"] = v /\ (v = "NONE" => db["members"] # "NONE")
      BY <1>1, <1>2, <1>3, <1>5, <2>2, OtherTables
    <3>2. CASE v = "NONE"
      BY <1>1, <1>2, <1>3, <2>2, <3>1, <3>2 DEF OneRow
    <3>3. CASE v # "NONE" /\ db["members"] = "NONE"
      BY <1>1, <1>2, <1>3, <2>2, <3>1, <3>3 DEF OneRow
    <3>4. CASE v # "NONE" /\ db["members"] # "NONE"
      BY <1>1, <1>2, <1>3, <1>4, <2>2, <3>1, <3>4 DEF OneRow
    <3> QED
      BY <3>2, <3>3, <3>4
  <2> QED
    BY <2>1, <2>2
<1>7. ToldExcept(q) /\ \A d \in Desk : desk'[d] \in {desk[d], NoCall}
  BY <1>1 DEF ToldExcept
<1> QED
  BY <1>1, <1>2, <1>4, <1>5, <1>6, <1>7, UnseenChange

LEMMA LoseAnswerInv ==
    ASSUME OrgInv, NEW c \in Desk, loseAnswer(c)
    PROVE  OrgInv'
<1>1. /\ desk[c].stage \in {"sent", "looked", "done", "conflict", "failed"}
      /\ desk' = [desk EXCEPT ![c] = IF desk[c].stage \in {"sent", "looked"}
                                     THEN [@ EXCEPT !.lost = TRUE, !.mounted = FALSE] ELSE NoCall]
      /\ IF desk[c].stage = "done" THEN ChangeUnseen(desk[c].part) ELSE UNCHANGED <<strangers, loads>>
      /\ card' = IF desk[c].op = "request" THEN "error" ELSE card
      /\ UNCHANGED <<panel, db, shown, listState, rowsMade>>
  BY Zenon DEF loseAnswer
<1>2. PICK x \in CallSet : x = desk[c]
  BY DEF OrgInv, OrgTyped
<1>3. ChangeOK(x) \/ AskedOK(x)
  BY <1>1, <1>2, CallKinds
<1>4. x.op = "request" => AskedOK(x)
  BY <1>3, OpTables DEF ChangeOK
<1>5. card' = card \/ (card' = "error" /\ panel = "request" /\ listState = "loaded")
  BY <1>1, <1>2, <1>4 DEF AskedOK
<1>6. CASE x.stage = "done"
  <2>1. x.part \in Parts
    BY <1>3, OrgTables, OpTables DEF ChangeOK, AskedOK, OpFits
  <2>2. desk' = [desk EXCEPT ![c] = NoCall] /\ ChangeUnseen(x.part)
    BY <1>1, <1>2, <1>6
  <2>3. /\ desk' \in [Desk -> CallSet] /\ ToldExcept(x.part)
        /\ \A d \in Desk : desk'[d] \in {desk[d], NoCall}
    BY <1>2, <2>2, Nothings DEF OrgInv, OrgTyped, ToldExcept
  <2>4. OneRow' /\ db' \in [Parts -> Written] /\ \A p \in Parts : p # x.part => db'[p] = db[p]
    BY <1>1 DEF OrgInv, OrgTyped, OneRow
  <2> QED
    BY <1>1, <1>5, <2>1, <2>2, <2>3, <2>4, UnseenChange
<1>7. CASE x.stage # "done"
  <2>1. UNCHANGED <<panel, db, shown, listState, loads, strangers, rowsMade>>
    BY <1>1, <1>2, <1>7
  <2>2. RequestCardOK'
    BY <1>5, <2>1 DEF OrgInv, RequestCardOK, RowKnown
  <2>3. PICK yes \in BOOLEAN : yes = TRUE
    OBVIOUS
  <2>4. PICK no \in BOOLEAN : no = FALSE
    OBVIOUS
  <2>5. PICK y : y = [x EXCEPT !.lost = yes, !.mounted = no]
    OBVIOUS
  <2>6. /\ y \in CallSet /\ y.op = x.op /\ y.part = x.part /\ y.stage = x.stage /\ y.row = x.row
    BY <2>5 DEF CallSet
  <2>7. ChangeOK(y) \/ AskedOK(y)
    BY <1>3, <2>6 DEF ChangeOK, AskedOK
  <2>8. CallOK(y)' /\ CallOK(NoCall)'
    BY <2>1, <2>7, AnswersKept DEF CallOK, RowMoves
  <2>9. desk' = [desk EXCEPT ![c] = NoCall] \/ desk' = [desk EXCEPT ![c] = y]
    BY <1>1, <1>2, <2>3, <2>4, <2>5 DEF OrgInv, OrgTyped
  <2>10. desk[c].stage \notin {"done", "reloading"}
    BY <1>1, <1>2, <1>7
  <2> QED
    BY <2>1, <2>2, <2>6, <2>8, <2>9, <2>10, Nothings, DeskMoves
<1> QED
  BY <1>6, <1>7

LEMMA UpdateMembershipStatusInv ==
    ASSUME OrgInv, NEW c \in Desk, updateMembershipStatus(c)
    PROVE  OrgInv'
<1>1. /\ desk[c].stage = "sent" /\ desk[c].op \in DOMAIN Ops
      /\ db[desk[c].part] \in Ops[desk[c].op].allowed
      /\ db' = [db EXCEPT ![desk[c].part] = Ops[desk[c].op].gives]
      /\ Settle(c, "done")
      /\ IF desk[c].lost THEN ChangeUnseen(desk[c].part)
         ELSE /\ loads' = IF panel = "rules" THEN Missed(desk[c].part) ELSE loads
              /\ UNCHANGED strangers
      /\ UNCHANGED <<panel, shown, listState, card, rowsMade>>
  BY Zenon DEF updateMembershipStatus
<1>2. PICK x \in CallSet : x = desk[c]
  BY DEF OrgInv, OrgTyped
<1>3. ChangeOK(x)
  BY <1>1, <1>2, CallKinds
<1>4. PICK q \in Parts : q = x.part
  BY <1>3, OpTables DEF ChangeOK, OpFits
<1>5. OpFits(Ops[x.op]) /\ Ops[x.op].part = q
  BY <1>3, <1>4, OpTables DEF ChangeOK
<1>6. PICK v \in Written : v = Ops[x.op].gives
  BY <1>5 DEF OpFits
<1>7. db \in [Parts -> Written] /\ desk \in [Desk -> CallSet] /\ "members" \in Parts
  BY OrgTables DEF OrgInv, OrgTyped
<1>8. db' \in [Parts -> Written] /\ (\A p \in Parts : p # q => db'[p] = db[p]) /\ db'[q] = v
  BY <1>1, <1>2, <1>4, <1>6, <1>7
<1>9. OneRow'
  BY <1>1, <1>2, <1>4, <1>5, <1>6, <1>7, <1>8 DEF OrgInv, OneRow, OpFits
<1>10. CASE x.lost
  <2>1. desk' = [desk EXCEPT ![c] = NoCall] /\ ChangeUnseen(q)
    BY <1>1, <1>2, <1>4, <1>10 DEF Settle
  <2>2. /\ desk' \in [Desk -> CallSet] /\ ToldExcept(q)
        /\ \A d \in Desk : desk'[d] \in {desk[d], NoCall}
    BY <1>1, <1>7, <2>1, Nothings DEF ToldExcept
  <2> QED
    BY <1>1, <1>8, <1>9, <2>1, <2>2, UnseenChange
<1>11. CASE ~x.lost
  <2>1. PICK y : y = [x EXCEPT !.stage = "done"]
    OBVIOUS
  <2>2. /\ y \in CallSet /\ y.stage = "done" /\ y.op = x.op /\ y.part = x.part
    BY <2>1, Staged DEF CallStages
  <2>3. desk' = [desk EXCEPT ![c] = y]
    BY <1>1, <1>2, <1>7, <1>11, <2>1 DEF Settle
  <2>4. desk' \in [Desk -> CallSet] /\ desk'[c] = y /\ \A d \in Desk : d # c => desk'[d] = desk[d]
    BY <1>7, <2>2, <2>3
  <2>5. panel # "request" /\ panel' = panel /\ panel \in DOMAIN PartsOf /\ strangers' = strangers
    BY <1>1, <1>2, <1>3, <1>11 DEF ChangeOK, OrgInv, OrgTyped
  <2>6. CallsOK'
    <3>1. ASSUME NEW d \in Desk PROVE CallOK(desk[d])'
      <4>1. CASE d = c
        <5>1. ChangeOK(y)'
          BY <1>3, <2>2, <2>5 DEF ChangeOK
        <5> QED
          BY <2>4, <4>1, <5>1 DEF CallOK
      <4>2. CASE d # c
        <5>1. PICK z : z = desk[d]
          OBVIOUS
        <5>2. CallOK(z)
          BY <5>1 DEF OrgInv, CallsOK, CallOK
        <5>3. CallOK(z)'
          BY <2>5, <5>2, ChangesKept DEF CallOK
        <5> QED
          BY <2>4, <4>2, <5>1, <5>3
      <4> QED
        BY <4>1, <4>2
    <3> QED
      BY <3>1 DEF CallsOK, CallOK
  <2>7. RequestCardOK'
    BY <1>1, <2>5 DEF OrgInv, RequestCardOK
  <2>8. OthersTold(c)
    BY <2>4 DEF OthersTold
  <2>9. \A p \in Parts : p # q /\ Told(p) => Told(p)'
    BY <1>1, <2>5, <2>8, ToldKept
  <2>10. OwnDecisionsAreShown'
    <3>1. PartsOf[panel] \in SUBSET Parts
      BY <2>5, OrgTables
    <3>2. desk'[c].part = q /\ desk'[c].stage = "done"
      BY <1>4, <2>2, <2>4
    <3>3. ASSUME NEW p \in PartsOf[panel], listState = "loaded", p # q
          PROVE  \/ shown[p] = db'[p] \/ p \in strangers
                 \/ \E d \in Desk : desk'[d].part = p /\ desk'[d].stage \in {"done", "reloading"}
      <4>1. p \in Parts /\ db'[p] = db[p]
        BY <1>8, <3>1, <3>3
      <4>2. ASSUME NEW d \in Desk, desk[d].part = p, desk[d].stage \in {"done", "reloading"}
            PROVE  desk'[d] = desk[d]
        BY <1>2, <1>4, <2>4, <3>3, <4>2
      <4> QED
        BY <3>3, <4>1, <4>2 DEF OrgInv, OwnDecisionsAreShown
    <3> QED
      BY <1>1, <2>5, <3>2, <3>3 DEF OwnDecisionsAreShown
  <2>11. PICK f \in LoadSet : f = loads["first"]
    BY DEF OrgInv, OrgTyped
  <2>12. PICK g \in LoadSet : g = loads["reload"]
    BY DEF OrgInv, OrgTyped
  <2>13. LoadOK(f) /\ LoadOK(g)
    BY <2>11, <2>12 DEF OrgInv, LoadsOK
  <2>14. CASE panel = "rules"
    <3>1. PICK m : m = Behind(f, q)
      OBVIOUS
    <3>2. PICK n : n = Behind(g, q)
      OBVIOUS
    <3>3. m \in LoadSet /\ LoadOK(m)'
      BY <1>8, <2>5, <2>9, <2>13, <3>1, LoadBehind
    <3>4. n \in LoadSet /\ LoadOK(n)'
      BY <1>8, <2>5, <2>9, <2>13, <3>2, LoadBehind
    <3>5. loads' = Missed(q)
      BY <1>1, <1>2, <1>4, <1>11, <2>14
    <3>6. /\ loads' = [l \in {"first", "reload"} |-> Behind(loads[l], q)]
          /\ loads'["first"] = m /\ loads'["reload"] = n
      BY <2>11, <2>12, <3>1, <3>2, <3>5, MissedIsBehind DEF OrgInv
    <3>7. \A l \in {"first", "reload"} : loads'[l] \in LoadSet
      BY <3>3, <3>4, <3>6
    <3>8. loads' \in [{"first", "reload"} -> LoadSet]
      BY <3>6, <3>7
    <3>9. OrgTyped'
      BY <1>1, <1>8, <2>4, <2>5, <3>8 DEF OrgInv, OrgTyped
    <3>10. LoadsOK'
      BY <2>5, <2>14, <3>3, <3>4, <3>6 DEF LoadsOK
    <3> QED
      BY <1>9, <2>6, <2>7, <2>10, <3>9, <3>10 DEF OrgInv
  <2>15. CASE panel # "rules"
    <3>1. loads' = loads
      BY <1>1, <1>2, <1>11, <2>15
    <3>2. Told(q)'
      BY <1>4, <2>2, <2>4, <2>5, <2>15 DEF Told
    <3>3. LoadOK(f)' /\ LoadOK(g)'
      BY <1>8, <2>5, <2>9, <2>13, <3>2, LoadTold
    <3>4. OrgTyped'
      BY <1>1, <1>8, <2>4, <2>5, <3>1 DEF OrgInv, OrgTyped
    <3>5. LoadsOK'
      BY <1>1, <2>5, <2>11, <2>12, <3>1, <3>3 DEF OrgInv, LoadsOK
    <3> QED
      BY <1>9, <2>6, <2>7, <2>10, <3>4, <3>5 DEF OrgInv
  <2> QED
    BY <2>14, <2>15
<1> QED
  BY <1>10, <1>11

LEMMA RequestMembershipInv ==
    ASSUME OrgInv, NEW c \in Desk, NEW s \in {"PENDING", "APPROVED"}, requestMembership(c, s)
    PROVE  OrgInv'
<1>1. desk[c].op = "request" /\ desk[c].stage = "looked" /\ UNCHANGED <<panel, shown, listState, card>>
  BY DEF requestMembership
<1>2. PICK x \in CallSet : x = desk[c]
  BY DEF OrgInv, OrgTyped
<1>3. AskedOK(x)
  BY <1>1, <1>2, CallKinds
<1>4. /\ db \in [Parts -> Written] /\ desk \in [Desk -> CallSet] /\ "members" \in Parts
      /\ s \in Written /\ s # "NONE" /\ PartsOf[panel] = {"members"} /\ x.part = "members"
  BY <1>3, OrgTables DEF OrgInv, OrgTyped, Written, AskedOK
<1>5. CASE db["members"] # "NONE"
  <2>1. Settle(c, "failed") /\ UNCHANGED <<db, rowsMade, strangers, loads>>
    BY <1>5 DEF requestMembership, UniqueRow
  <2>2. "failed" \in CallStages \ {"done", "reloading"}
    BY DEF CallStages
  <2> QED
    BY <1>1, <1>2, <1>3, <2>1, <2>2, SettleInv
<1>6. CASE db["members"] = "NONE"
  <2>1. /\ db' = [db EXCEPT !["members"] = s] /\ rowsMade' = rowsMade + 1
        /\ desk' = [desk EXCEPT ![c] = IF desk[c].lost THEN NoCall
                                       ELSE [@ EXCEPT !.stage = "done", !.row = s]]
        /\ IF desk[c].lost THEN ChangeUnseen("members") ELSE UNCHANGED <<strangers, loads>>
    BY <1>6 DEF requestMembership, UniqueRow
  <2>2. /\ db' \in [Parts -> Written] /\ db'["members"] = s
        /\ \A p \in Parts : p # "members" => db'[p] = db[p]
    BY <1>4, <2>1
  <2>3. OneRow'
    BY <1>4, <1>6, <2>1, <2>2 DEF OrgInv, OneRow
  <2>4. CASE x.lost
    <3>1. desk' = [desk EXCEPT ![c] = NoCall] /\ ChangeUnseen("members")
      BY <1>2, <2>1, <2>4
    <3>2. /\ desk' \in [Desk -> CallSet] /\ ToldExcept("members")
          /\ \A d \in Desk : desk'[d] \in {desk[d], NoCall}
      BY <1>1, <1>4, <3>1, Nothings DEF ToldExcept
    <3> QED
      BY <1>1, <1>4, <2>2, <2>3, <3>1, <3>2, UnseenChange
  <2>5. CASE ~x.lost
    <3>1. PICK y : y = [x EXCEPT !.stage = "done", !.row = s]
      OBVIOUS
    <3>2. y \in CallSet /\ y.stage = "done" /\ y.op = x.op /\ y.part = x.part /\ y.row = s
      BY <1>4, <3>1 DEF CallSet, CallStages
    <3>3. desk' = [desk EXCEPT ![c] = y] /\ UNCHANGED <<strangers, loads>>
      BY <1>2, <1>4, <2>1, <2>5, <3>1
    <3>4. /\ desk' \in [Desk -> CallSet] /\ desk'[c] = y
          /\ \A d \in Desk : d # c => desk'[d] = desk[d]
      BY <1>4, <3>2, <3>3
    <3>5. RowMoves
      BY <1>4, <1>6, <2>2, <3>3 DEF RowMoves
    <3>6. CallsOK'
      <4>1. ASSUME NEW d \in Desk PROVE CallOK(desk[d])'
        <5>1. CASE d = c
          <6>1. AskedOK(y)'
            BY <1>1, <1>3, <1>4, <2>2, <3>2 DEF AskedOK
          <6> QED
            BY <3>4, <5>1, <6>1 DEF CallOK
        <5>2. CASE d # c
          <6>1. PICK z : z = desk[d]
            OBVIOUS
          <6>2. CallOK(z)
            BY <6>1 DEF OrgInv, CallsOK, CallOK
          <6>3. CallOK(z)'
            BY <1>1, <3>5, <6>2, AnswersKept DEF CallOK
          <6> QED
            BY <3>4, <5>2, <6>1, <6>3
        <5> QED
          BY <5>1, <5>2
      <4> QED
        BY <4>1 DEF CallsOK, CallOK
    <3>7. RequestCardOK'
      BY <1>1, <3>5, AnswersKept DEF OrgInv, RequestCardOK
    <3>8. OwnDecisionsAreShown'
      BY <1>1, <1>4, <3>2, <3>4 DEF OwnDecisionsAreShown
    <3>9. OrgTyped'
      BY <1>1, <2>2, <3>3, <3>4 DEF OrgInv, OrgTyped
    <3>10. LoadsOK'
      <4>1. panel # "rules" /\ listState # "loading"
        BY <1>3 DEF AskedOK
      <4> QED
        BY <1>1, <3>3, <4>1 DEF OrgInv, LoadsOK, LoadOK
    <3> QED
      BY <2>3, <3>6, <3>7, <3>8, <3>9, <3>10 DEF OrgInv
  <2> QED
    BY <2>4, <2>5
<1> QED
  BY <1>5, <1>6

LEMMA AnswerRequestInv ==
    ASSUME OrgInv, NEW c \in Desk, answerRequest(c)
    PROVE  OrgInv'
<1>1. /\ desk[c].op = "request" /\ desk[c].stage \in {"done", "conflict", "failed"}
      /\ card' = CASE desk[c].stage = "done" -> "success"
                   [] desk[c].stage = "conflict" -> "exists"
                   [] OTHER -> "error"
      /\ shown' = IF desk[c].stage = "done" THEN [shown EXCEPT !["members"] = desk[c].row]
                  ELSE shown
      /\ desk' = [desk EXCEPT ![c] = NoCall]
      /\ UNCHANGED <<panel, db, listState, loads, strangers, rowsMade>>
  BY DEF answerRequest
<1>2. PICK x \in CallSet : x = desk[c]
  BY DEF OrgInv, OrgTyped
<1>3. AskedOK(x)
  BY <1>1, <1>2, CallKinds
<1>4. RequestCardOK'
  <2>1. card' \in {"success", "exists"} => x.stage \in {"done", "conflict"}
    BY <1>1, <1>2
  <2>2. card' \in {"success", "exists"} => RowKnown
    BY <1>3, <2>1 DEF AskedOK, RowKnown
  <2> QED
    BY <1>1, <1>3, <2>2 DEF RequestCardOK, RowKnown, AskedOK
<1>5. CASE x.stage # "done"
  <2>1. CallOK(NoCall)' /\ shown' = shown
    BY <1>1, <1>2, <1>5 DEF CallOK
  <2> QED
    BY <1>1, <1>2, <1>4, <1>5, <2>1, Nothings, DeskMoves
<1>6. CASE x.stage = "done"
  <2>1. /\ x.row \in Written /\ (x.row = db["members"] \/ "members" \in strangers)
        /\ panel = "request" /\ listState = "loaded"
    BY <1>3, <1>6 DEF AskedOK
  <2>2. shown' = [shown EXCEPT !["members"] = x.row]
    BY <1>1, <1>2, <1>6
  <2>3. /\ shown \in [Parts -> Written] /\ desk \in [Desk -> CallSet]
        /\ "members" \in Parts /\ PartsOf[panel] = {"members"}
    BY <2>1, OrgTables DEF OrgInv, OrgTyped
  <2>4. shown' \in [Parts -> Written] /\ shown'["members"] = x.row
    BY <2>1, <2>2, <2>3
  <2>5. /\ desk' \in [Desk -> CallSet] /\ desk'[c] = NoCall
        /\ \A d \in Desk : d # c => desk'[d] = desk[d]
    BY <1>1, <2>3, Nothings
  <2>6. OrgTyped'
    BY <1>1, <2>4, <2>5 DEF OrgInv, OrgTyped
  <2>7. CallsOK'
    <3>1. ASSUME NEW d \in Desk PROVE CallOK(desk[d])'
      <4>1. PICK z : z = desk[d]
        OBVIOUS
      <4>2. CallOK(z)
        BY <4>1 DEF OrgInv, CallsOK, CallOK
      <4>3. CallOK(z)' /\ CallOK(NoCall)'
        BY <1>1, <4>2, AnswersKept DEF CallOK, RowMoves
      <4> QED
        BY <2>5, <4>1, <4>3
    <3> QED
      BY <3>1 DEF CallsOK, CallOK
  <2>8. LoadsOK'
    BY <1>1, <2>1 DEF OrgInv, LoadsOK, LoadOK
  <2>9. OwnDecisionsAreShown'
    BY <1>1, <2>1, <2>3, <2>4 DEF OwnDecisionsAreShown
  <2>10. OneRow'
    BY <1>1 DEF OrgInv, OneRow
  <2> QED
    BY <1>4, <2>6, <2>7, <2>8, <2>9, <2>10 DEF OrgInv
<1> QED
  BY <1>5, <1>6

\* The members page asks for its lists again, and closes its other dialogs.
LEMMA AnswerDecisionInv ==
    ASSUME OrgInv, NEW c \in Desk, answerDecision(c)
    PROVE  OrgInv'
<1>1. /\ panel = "members" /\ listState' = "loading"
      /\ loads' = [loads EXCEPT !["first"] = NewLoad]
      /\ desk' = [d \in Desk |-> IF d = c THEN NoCall ELSE [desk[d] EXCEPT !.mounted = FALSE]]
      /\ UNCHANGED <<panel, db, shown, strangers, card, rowsMade>>
  BY Zenon DEF answerDecision, onChanged, retryRequest
<1>2. desk \in [Desk -> CallSet] /\ loads \in [{"first", "reload"} -> LoadSet]
  BY DEF OrgInv, OrgTyped
<1>3. ASSUME NEW d \in Desk PROVE desk'[d] \in CallSet /\ CallOK(desk[d])'
  <2>1. PICK no \in BOOLEAN : no = FALSE
    OBVIOUS
  <2>2. PICK z \in CallSet : z = desk[d]
    BY <1>2
  <2>3. PICK y : y = [z EXCEPT !.mounted = no]
    OBVIOUS
  <2>4. y \in CallSet /\ y.op = z.op /\ y.part = z.part
    BY <2>3 DEF CallSet
  <2>5. z = NoCall => y = NoCall
    <3>1. NoCall.mounted = no
      BY <2>1 DEF NoCall
    <3>2. ASSUME NEW a \in CallSet PROVE [a EXCEPT !.mounted = a.mounted] = a
      BY DEF CallSet
    <3> QED
      BY <2>3, <3>1, <3>2, Nothings
  <2>6. CallOK(z) /\ ~AskedOK(z)
    BY <1>1, <2>2 DEF OrgInv, CallsOK, CallOK, AskedOK
  <2>7. y = NoCall \/ ChangeOK(y)
    BY <2>4, <2>5, <2>6 DEF CallOK, ChangeOK
  <2>8. CallOK(y)' /\ CallOK(NoCall)'
    BY <1>1, <2>7, ChangesKept DEF CallOK
  <2>9. desk'[d] = NoCall \/ desk'[d] = y
    BY <1>1, <2>1, <2>2, <2>3
  <2> QED
    BY <2>4, <2>8, <2>9, Nothings
<1>4. desk' \in [Desk -> CallSet]
  BY <1>1, <1>3
<1>5. /\ loads' \in [{"first", "reload"} -> LoadSet]
      /\ loads'["first"] = NewLoad /\ loads'["reload"] = loads["reload"]
  BY <1>1, <1>2, Nothings
<1>6. OrgTyped'
  BY <1>1, <1>4, <1>5 DEF OrgInv, OrgTyped
<1>7. LoadOK(NewLoad)'
  BY <1>1, Nothings, OrgTables DEF LoadOK
<1>8. LoadsOK'
  BY <1>1, <1>5, <1>7 DEF OrgInv, LoadsOK, LoadOK
<1>9. CallsOK'
  BY <1>3 DEF CallsOK, CallOK
<1> QED
  BY <1>1, <1>6, <1>8, <1>9 DEF OrgInv, OwnDecisionsAreShown, OneRow, RequestCardOK

\* Calls of a page that is not the request card, when some of them end.
LEMMA ChangesStay ==
    ASSUME OrgInv, panel # "request", panel' = panel,
           \A d \in Desk : \/ desk'[d] \in {desk[d], NoCall}
                           \/ ChangeOK(desk[d]) /\ desk'[d].op = desk[d].op
                              /\ desk'[d].part = desk[d].part
    PROVE  CallsOK'
<1>1. ASSUME NEW d \in Desk PROVE CallOK(desk[d])'
  <2>1. PICK z : z = desk[d]
    OBVIOUS
  <2>2. PICK y : y = desk'[d]
    OBVIOUS
  <2>3. z = NoCall \/ ChangeOK(z)
    BY <2>1, ChangesKept DEF OrgInv, CallsOK
  <2>4. y = NoCall \/ ChangeOK(y)
    BY <2>1, <2>2, <2>3 DEF ChangeOK
  <2>5. CallOK(y)'
    BY <2>4, ChangesKept DEF CallOK
  <2> QED
    BY <2>2, <2>5
<1> QED
  BY <1>1 DEF CallsOK, CallOK

LEMMA PerformInv ==
    ASSUME OrgInv, NEW c \in Desk, perform(c)
    PROVE  OrgInv'
<1>1. /\ panel = "rules" /\ desk[c].stage = "done"
      /\ desk' = [desk EXCEPT ![c].stage = "reloading"]
      /\ loads' = [loads EXCEPT !["reload"] = NewLoad]
      /\ UNCHANGED <<panel, db, shown, listState, strangers, card, rowsMade>>
  BY DEF perform, reloadRules
<1>2. desk \in [Desk -> CallSet] /\ loads \in [{"first", "reload"} -> LoadSet]
  BY DEF OrgInv, OrgTyped
<1>3. PICK x \in CallSet : x = desk[c]
  BY <1>2
<1>4. PICK y : y = [x EXCEPT !.stage = "reloading"]
  OBVIOUS
<1>5. y \in CallSet /\ y.op = x.op /\ y.part = x.part /\ y.stage = "reloading"
  BY <1>4, Staged DEF CallStages
<1>6. desk' = [desk EXCEPT ![c] = y]
  BY <1>1, <1>2, <1>3, <1>4
<1>7. desk' \in [Desk -> CallSet] /\ desk'[c] = y /\ \A d \in Desk : d # c => desk'[d] = desk[d]
  BY <1>2, <1>5, <1>6
<1>8. /\ loads' \in [{"first", "reload"} -> LoadSet]
      /\ loads'["reload"] = NewLoad /\ loads'["first"] = loads["first"]
  BY <1>1, <1>2, Nothings
<1>9. OrgTyped'
  BY <1>1, <1>7, <1>8 DEF OrgInv, OrgTyped
<1>10. ChangeOK(x)
  BY <1>1, <1>3, CallKinds DEF AskedOK
<1>11. CallsOK'
  BY <1>1, <1>3, <1>5, <1>7, <1>10, ChangesStay
<1>12. LoadOK(NewLoad)'
  BY <1>1, Nothings, OrgTables DEF LoadOK
<1>13. LoadsOK'
  <2>1. PICK f : f = loads["first"]
    OBVIOUS
  <2>2. LoadOK(f)'
    BY <1>1, <2>1, LoadKept DEF OrgInv, LoadsOK, Told
  <2> QED
    BY <1>1, <1>8, <1>12, <2>1, <2>2 DEF LoadsOK
<1>14. OwnDecisionsAreShown'
  BY <1>1, <1>3, <1>5, <1>7 DEF OrgInv, OwnDecisionsAreShown
<1> QED
  BY <1>1, <1>9, <1>11, <1>13, <1>14 DEF OrgInv, OneRow, RequestCardOK

\* The lists of a load that has read them all are put on the screen.
LEMMA ShowsLists ==
    ASSUME OrgInv, NEW l \in {"first", "reload"}, Show(l), panel' = panel, db' = db,
           \A p \in PartsOf[panel] : Told(p) => Told(p)'
    PROVE  /\ shown' \in [Parts -> Written] /\ strangers' \in SUBSET Parts
           /\ loads' \in [{"first", "reload"} -> LoadSet] /\ loads'[l] = NoLoad
           /\ \A k \in {"first", "reload"} \ {l} : loads'[k] = loads[k]
           /\ OwnDecisionsAreShown'
<1>1. /\ loads[l].stage = "sent" /\ \A p \in PartsOf[panel] : loads[l].got[p] # Unread
      /\ shown' = [p \in Parts |-> IF p \in PartsOf[panel] THEN loads[l].got[p] ELSE "NONE"]
      /\ strangers' = loads[l].since /\ loads' = [loads EXCEPT ![l] = NoLoad]
  BY DEF Show
<1>2. loads \in [{"first", "reload"} -> LoadSet] /\ PartsOf[panel] \in SUBSET Parts
  BY OrgTables DEF OrgInv, OrgTyped
<1>3. PICK ld \in LoadSet : ld = loads[l]
  BY <1>2
<1>4. ld.got \in [Parts -> Written \cup {Unread}] /\ ld.since \in SUBSET Parts
  BY DEF LoadSet
<1>5. ASSUME NEW p \in Parts
      PROVE  (IF p \in PartsOf[panel] THEN ld.got[p] ELSE "NONE") \in Written
  <2>1. "NONE" \in Written
    BY DEF Written
  <2> QED
    BY <1>1, <1>3, <1>4, <2>1
<1>6. shown' \in [Parts -> Written]
  BY <1>1, <1>3, <1>5
<1>7. LoadOK(ld)
  BY <1>3 DEF OrgInv, LoadsOK
<1>8. ASSUME NEW p \in PartsOf[panel]
      PROVE  \/ shown'[p] = db[p] \/ p \in strangers'
             \/ \E d \in Desk : desk'[d].part = p /\ desk'[d].stage = "done"
  <2>1. p \in Parts /\ shown'[p] = ld.got[p] /\ ld.got[p] # Unread
    BY <1>1, <1>2, <1>3
  <2>2. ld.got[p] = db[p] \/ p \in ld.since \/ Told(p)'
    BY <1>1, <1>3, <1>7, <2>1 DEF LoadOK
  <2> QED
    BY <1>1, <1>3, <2>1, <2>2 DEF Told
<1>9. OwnDecisionsAreShown'
  BY <1>8 DEF OwnDecisionsAreShown
<1> QED
  BY <1>1, <1>2, <1>3, <1>4, <1>6, <1>9, Nothings

LEMMA NoLoadOK == LoadOK(NoLoad)'
  BY Nothings DEF LoadOK

LEMMA ApplyReloadInv ==
    ASSUME OrgInv, NEW c \in Desk, applyReload(c)
    PROVE  OrgInv'
<1>1. /\ desk[c].stage = "reloading" /\ Show("reload") /\ desk' = [desk EXCEPT ![c] = NoCall]
      /\ UNCHANGED <<panel, db, listState, card, rowsMade>>
  BY DEF applyReload
<1>2. loads["reload"].stage = "sent"
  BY <1>1 DEF Show
<1>3. panel = "rules"
  BY <1>2 DEF OrgInv, LoadsOK
<1>4. \A p : ~Told(p)
  BY <1>3 DEF Told
<1>5. /\ desk' \in [Desk -> CallSet] /\ \A d \in Desk : desk'[d] \in {desk[d], NoCall}
  BY <1>1, Nothings DEF OrgInv, OrgTyped
<1>6. /\ shown' \in [Parts -> Written] /\ strangers' \in SUBSET Parts
      /\ loads' \in [{"first", "reload"} -> LoadSet] /\ loads'["reload"] = NoLoad
      /\ loads'["first"] = loads["first"] /\ OwnDecisionsAreShown'
  BY <1>1, <1>4, ShowsLists
<1>7. OrgTyped'
  BY <1>1, <1>5, <1>6 DEF OrgInv, OrgTyped
<1>8. CallsOK'
  BY <1>1, <1>3, <1>5, ChangesStay
<1>9. LoadsOK'
  <2>1. PICK f : f = loads["first"]
    OBVIOUS
  <2>2. LoadOK(f)'
    BY <1>1, <1>4, <2>1, LoadKept DEF OrgInv, LoadsOK
  <2> QED
    BY <1>1, <1>3, <1>6, <2>1, <2>2, NoLoadOK DEF LoadsOK
<1> QED
  BY <1>1, <1>3, <1>6, <1>7, <1>8, <1>9 DEF OrgInv, OneRow, RequestCardOK

LEMMA FailReloadInv ==
    ASSUME OrgInv, NEW c \in Desk, failReload(c)
    PROVE  OrgInv'
<1>1. /\ desk[c].stage = "reloading" /\ desk' = [desk EXCEPT ![c] = NoCall]
      /\ strangers' = strangers \cup {desk[c].part}
      /\ loads' = [loads EXCEPT !["reload"] = NoLoad]
      /\ UNCHANGED <<panel, db, shown, listState, card, rowsMade>>
  BY DEF failReload
<1>2. ChangeOK(desk[c])
  BY <1>1, CallKinds DEF AskedOK
<1>3. panel # "request" /\ desk[c].part \in Parts
  BY <1>2, OpTables DEF ChangeOK, OpFits
<1>4. /\ desk' \in [Desk -> CallSet] /\ \A d \in Desk : desk'[d] \in {desk[d], NoCall}
      /\ \A d \in Desk : d # c => desk'[d] = desk[d]
  BY <1>1, Nothings DEF OrgInv, OrgTyped
<1>5. /\ loads' \in [{"first", "reload"} -> LoadSet] /\ loads'["reload"] = NoLoad
      /\ loads'["first"] = loads["first"]
  BY <1>1, Nothings DEF OrgInv, OrgTyped
<1>6. OrgTyped'
  BY <1>1, <1>3, <1>4, <1>5 DEF OrgInv, OrgTyped
<1>7. CallsOK'
  BY <1>1, <1>3, <1>4, ChangesStay
<1>8. LoadsOK'
  <2>1. PICK f : f = loads["first"]
    OBVIOUS
  <2>2. OthersTold(c)
    BY <1>4 DEF OthersTold
  <2>3. \A p : Told(p) => Told(p)'
    BY <1>1, <2>2, ToldKept
  <2>4. LoadOK(f)'
    BY <1>1, <2>1, <2>3, LoadKept DEF OrgInv, LoadsOK
  <2> QED
    BY <1>1, <1>5, <2>1, <2>4, NoLoadOK, Nothings DEF OrgInv, LoadsOK
<1>9. OwnDecisionsAreShown'
  BY <1>1, <1>4 DEF OrgInv, OwnDecisionsAreShown
<1> QED
  BY <1>1, <1>3, <1>6, <1>7, <1>8, <1>9 DEF OrgInv, OneRow, RequestCardOK

LEMMA GetPartInv ==
    ASSUME OrgInv, NEW l \in {"first", "reload"}, NEW q \in Parts, getPart(l, q)
    PROVE  OrgInv'
<1>1. /\ loads[l].stage = "sent" /\ loads' = [loads EXCEPT ![l].got[q] = db[q]]
      /\ UNCHANGED <<panel, db, shown, listState, desk, strangers, card, rowsMade>>
  BY DEF getPart
<1>2. loads \in [{"first", "reload"} -> LoadSet] /\ db[q] \in Written
  BY DEF OrgInv, OrgTyped
<1>3. PICK ld \in LoadSet : ld = loads[l]
  BY <1>2
<1>4. PICK m : m = [ld EXCEPT !.got[q] = db[q]]
  OBVIOUS
<1>5. ld.got \in [Parts -> Written \cup {Unread}]
  BY DEF LoadSet
<1>6. [ld.got EXCEPT ![q] = db[q]] \in [Parts -> Written \cup {Unread}]
  BY <1>2, <1>5
<1>7. /\ m \in LoadSet /\ m.stage = ld.stage /\ m.since = ld.since
      /\ m.got = [ld.got EXCEPT ![q] = db[q]]
  BY <1>4, <1>6 DEF LoadSet
<1>8. loads' = [loads EXCEPT ![l] = m]
  BY <1>1, <1>2, <1>3, <1>4
<1>9. /\ loads' \in [{"first", "reload"} -> LoadSet] /\ loads'[l] = m
      /\ \A k \in {"first", "reload"} \ {l} : loads'[k] = loads[k]
  BY <1>2, <1>7, <1>8
<1>10. OrgTyped'
  BY <1>1, <1>9 DEF OrgInv, OrgTyped
<1>11. \A p : Told(p) => Told(p)'
  BY <1>1 DEF Told
<1>12. \A x : LoadOK(x) => LoadOK(x)'
  BY <1>1, <1>11, LoadKept
<1>13. LoadOK(m)'
  <2>1. LoadOK(ld)
    BY <1>3 DEF OrgInv, LoadsOK
  <2>2. PartsOf[panel] \in SUBSET Parts
    BY OrgTables DEF OrgInv, OrgTyped
  <2>3. \A p \in Parts : m.got[p] = ld.got[p] \/ m.got[p] = db[p]
    BY <1>5, <1>7
  <2> QED
    BY <1>1, <1>7, <1>11, <2>1, <2>2, <2>3 DEF LoadOK
<1>14. \A k \in {"first", "reload"} : LoadOK(loads[k])' /\ loads'[k].stage = loads[k].stage
  <2>1. ASSUME NEW k \in {"first", "reload"} \ {l} PROVE LoadOK(loads[k])'
    <3>1. PICK x : x = loads[k]
      OBVIOUS
    <3>2. LoadOK(x)'
      BY <1>12, <3>1 DEF OrgInv, LoadsOK
    <3> QED
      BY <1>9, <3>1, <3>2
  <2> QED
    BY <1>3, <1>7, <1>9, <1>13, <2>1
<1>15. LoadsOK'
  BY <1>1, <1>14 DEF OrgInv, LoadsOK
<1>16. CallsOK'
  BY <1>1 DEF OrgInv, CallsOK, ChangeOK, AskedOK, RowKnown
<1>17. OwnDecisionsAreShown'
  BY <1>1 DEF OrgInv, OwnDecisionsAreShown
<1>18. OneRow' /\ RequestCardOK'
  BY <1>1 DEF OrgInv, OneRow, RequestCardOK, RowKnown
<1> QED
  BY <1>10, <1>15, <1>16, <1>17, <1>18 DEF OrgInv

\* While a list is on its way there is no request for a membership.
LEMMA NobodyAsks ==
    ASSUME OrgInv, loads["first"].stage = "sent" \/ listState # "loaded"
    PROVE  (\A r : ~AskedOK(r)) /\ card = "idle"
  BY DEF OrgInv, LoadsOK, RequestCardOK, AskedOK

LEMMA ChangesOnly ==
    ASSUME OrgInv, \A r : ~AskedOK(r), panel' = panel, desk' = desk
    PROVE  CallsOK'
<1>1. ASSUME NEW d \in Desk PROVE CallOK(desk[d])'
  <2>1. PICK z : z = desk[d]
    OBVIOUS
  <2>2. z = NoCall \/ ChangeOK(z)
    BY <2>1 DEF OrgInv, CallsOK
  <2>3. CallOK(z)'
    BY <2>2 DEF CallOK, ChangeOK
  <2> QED
    BY <2>1, <2>3
<1> QED
  BY <1>1 DEF CallsOK, CallOK

LEMMA ApplyListsInv ==
    ASSUME OrgInv, applyLists
    PROVE  OrgInv'
<1>1. /\ Show("first") /\ listState' = "loaded" /\ UNCHANGED <<panel, db, desk, card, rowsMade>>
  BY DEF applyLists
<1>2. loads["first"].stage = "sent"
  BY <1>1 DEF Show
<1>3. \A p : Told(p) => Told(p)'
  BY <1>1 DEF Told
<1>4. /\ shown' \in [Parts -> Written] /\ strangers' \in SUBSET Parts
      /\ loads' \in [{"first", "reload"} -> LoadSet] /\ loads'["first"] = NoLoad
      /\ loads'["reload"] = loads["reload"] /\ OwnDecisionsAreShown'
  BY <1>1, <1>3, ShowsLists
<1>5. OrgTyped'
  BY <1>1, <1>4 DEF OrgInv, OrgTyped
<1>6. CallsOK' /\ card = "idle"
  BY <1>1, <1>2, NobodyAsks, ChangesOnly
<1>7. LoadsOK'
  <2>1. PICK f : f = loads["reload"]
    OBVIOUS
  <2>2. LoadOK(f)'
    BY <1>1, <1>3, <2>1, LoadKept DEF OrgInv, LoadsOK
  <2> QED
    BY <1>1, <1>4, <2>1, <2>2, NoLoadOK, Nothings DEF OrgInv, LoadsOK
<1> QED
  BY <1>1, <1>4, <1>5, <1>6, <1>7 DEF OrgInv, OneRow, RequestCardOK

\* A load ends or begins and nothing else changes but the state of the page.
LEMMA FirstLoadInv ==
    ASSUME OrgInv, NEW ld \in {NoLoad, NewLoad}, loads' = [loads EXCEPT !["first"] = ld],
           loads["first"].stage = "sent" \/ listState # "loaded",
           panel # "rules" => listState' # "loaded", panel = "rules" => listState' = listState \/ listState' # "loaded",
           ld = NewLoad => listState' = "loading",
           UNCHANGED <<panel, db, shown, desk, strangers, card, rowsMade>>
    PROVE  OrgInv'
<1>1. /\ loads' \in [{"first", "reload"} -> LoadSet] /\ loads'["first"] = ld
      /\ loads'["reload"] = loads["reload"]
  BY Nothings DEF OrgInv, OrgTyped
<1>2. OrgTyped'
  BY <1>1 DEF OrgInv, OrgTyped
<1>3. CallsOK' /\ card = "idle"
  BY NobodyAsks, ChangesOnly
<1>4. LoadsOK'
  <2>1. PICK f : f = loads["reload"]
    OBVIOUS
  <2>2. \A p : Told(p) => Told(p)'
    BY DEF Told
  <2>3. LoadOK(f)'
    BY <2>1, <2>2, LoadKept DEF OrgInv, LoadsOK
  <2>4. LoadOK(ld)'
    BY Nothings, OrgTables DEF LoadOK, OrgInv, OrgTyped
  <2>5. ld.stage = "none" \/ listState' = "loading"
    BY Nothings
  <2> QED
    BY <1>1, <2>1, <2>3, <2>4, <2>5 DEF OrgInv, LoadsOK
<1>5. OwnDecisionsAreShown'
  BY DEF OrgInv, OwnDecisionsAreShown
<1> QED
  BY <1>2, <1>3, <1>4, <1>5 DEF OrgInv, OneRow, RequestCardOK

LEMMA ListsFailInv ==
    ASSUME OrgInv, retryLists \/ \E s \in {"error", "gone"} : failLists(s)
    PROVE  OrgInv'
<1>1. CASE retryLists
  <2>1. /\ listState = "error" /\ listState' = "loading"
        /\ loads' = [loads EXCEPT !["first"] = NewLoad]
        /\ UNCHANGED <<panel, db, shown, desk, strangers, card, rowsMade>>
    BY <1>1 DEF retryLists, retryRequest
  <2>2. listState # "loaded" /\ listState' # "loaded"
    BY <2>1
  <2> QED
    BY <2>1, <2>2, FirstLoadInv
<1>2. ASSUME NEW s \in {"error", "gone"}, failLists(s) PROVE OrgInv'
  <2>1. /\ loads["first"].stage = "sent" /\ loads' = [loads EXCEPT !["first"] = NoLoad]
        /\ listState' = IF panel = "rules" THEN listState ELSE s
        /\ UNCHANGED <<panel, db, shown, desk, strangers, card, rowsMade>>
    BY <1>2 DEF failLists
  <2>2. NoLoad # NewLoad
    BY Nothings
  <2> QED
    BY <2>1, <2>2, FirstLoadInv
<1> QED
  BY <1>1, <1>2

LEMMA OrgStays ==
    ASSUME OrgInv, UNCHANGED <<panel, db, shown, listState, loads, desk, strangers, card, rowsMade>>
    PROVE  OrgInv'
<1>1. OrgTyped'
  BY DEF OrgInv, OrgTyped
<1>2. CallsOK'
  BY DEF OrgInv, CallsOK, ChangeOK, AskedOK, RowKnown
<1>3. LoadsOK'
  BY DEF OrgInv, LoadsOK, LoadOK, Told
<1>4. OwnDecisionsAreShown'
  BY DEF OrgInv, OwnDecisionsAreShown
<1>5. OneRow' /\ RequestCardOK'
  BY DEF OrgInv, OneRow, RequestCardOK, RowKnown
<1> QED
  BY <1>1, <1>2, <1>3, <1>4, <1>5 DEF OrgInv

LEMMA OrgInitInv == OrgInit => OrgInv
<1> SUFFICES ASSUME OrgInit PROVE OrgInv
  OBVIOUS
<1>1. panel \in DOMAIN PartsOf /\ PartsOf[panel] \in SUBSET Parts
  BY OrgTables DEF OrgInit
<1>2. db \in [Parts -> Written]
  <2>1. /\ Values.members \cup {"NONE"} \in SUBSET Written
        /\ Values.heads \cup {"NONE"} \in SUBSET Written
        /\ Values.domains \cup {"NONE"} \in SUBSET Written
        /\ Values.allowlist \cup {"NONE"} \in SUBSET Written
    BY DEF Values, Written
  <2>2. db \in [members : Written, heads : Written, domains : Written, allowlist : Written]
    BY <2>1 DEF OrgInit
  <2> QED
    BY <2>2 DEF Parts
<1>3. shown \in [Parts -> Written]
  BY DEF OrgInit, Written
<1>4. /\ loads["first"] = (IF panel = "allocate" THEN NoLoad ELSE NewLoad)
      /\ loads["reload"] = NoLoad /\ loads \in [{"first", "reload"} -> LoadSet]
  <2>1. PICK ld \in LoadSet : ld = IF panel = "allocate" THEN NoLoad ELSE NewLoad
    BY Nothings
  <2>2. loads = [first |-> ld, reload |-> NoLoad]
    BY <2>1 DEF OrgInit
  <2> QED
    BY <2>1, <2>2, Nothings
<1>5. desk \in [Desk -> CallSet] /\ \A c \in Desk : desk[c] = NoCall
  BY Nothings DEF OrgInit
<1>6. strangers = Parts /\ card = "idle"
  BY DEF OrgInit
<1>7. OrgTyped
  BY <1>1, <1>2, <1>3, <1>4, <1>5, <1>6 DEF OrgTyped
<1>8. LoadOK(NoLoad) /\ LoadOK(NewLoad)
  BY <1>1, Nothings DEF LoadOK
<1>9. LoadsOK
  BY <1>4, <1>8, Nothings DEF LoadsOK, OrgInit
<1>10. OwnDecisionsAreShown
  BY <1>1, <1>6 DEF OwnDecisionsAreShown
<1>11. OneRow
  BY DEF OneRow, OrgInit
<1> QED
  BY <1>5, <1>6, <1>7, <1>9, <1>10, <1>11 DEF OrgInv, CallsOK, RequestCardOK

THEOREM OrgInvariance == OrgSpec => []OrgInv
<1>1. OrgInv /\ [OrgNext]_orgVars => OrgInv'
  <2> SUFFICES ASSUME OrgInv, [OrgNext]_orgVars PROVE OrgInv'
    OBVIOUS
  <2> DEFINE pages == <<panel, db, shown, listState, loads, desk, strangers, card, rowsMade>>
  <2>1. UNCHANGED orgVars => UNCHANGED pages
    BY DEF orgVars
  <2>2. ASSUME NEW open \in BOOLEAN, setOpen(open) PROVE UNCHANGED pages
    BY <2>2 DEF setOpen
  <2>3. ASSUME NEW orgs \in SUBSET TreeOrgs, NEW ok \in BOOLEAN,
               getRootOrganizationDescendants(orgs, ok)
        PROVE  UNCHANGED pages
    BY <2>3 DEF getRootOrganizationDescendants
  <2>4. checkRoot \/ handleAllocate => UNCHANGED pages
    BY Zenon DEF checkRoot, handleAllocate, Tick
  <2>5. ASSUME NEW o \in TreeOrgs, checkOrganization(o) \/ createOrganization(o)
        PROVE  UNCHANGED pages
    BY <2>5, Zenon DEF checkOrganization, createOrganization, Tick
  <2>6. ASSUME NEW ok \in BOOLEAN, allocateSemesterPoints(ok) PROVE UNCHANGED pages
    BY <2>6 DEF allocateSemesterPoints
  <2> QED
    BY <2>1, <2>2, <2>3, <2>4, <2>5, <2>6, OrgStays, OtherChangeInv, GetPartInv, ApplyListsInv,
       ListsFailInv, SubmitChangeInv, UpdateMembershipStatusInv, RefuseChangeOfRowInv,
       AnswerDecisionInv, ShowRefusalInv, PerformInv, ApplyReloadInv, FailReloadInv,
       LoseAnswerInv, SubmitRequestInv, FindExistingInv, AnswerRequestInv,
       RequestMembershipInv DEF OrgNext
<1> QED
  BY <1>1, OrgInitInv, PTL DEF OrgSpec

\* For any number of requests under way, failures and changes by others, the pages of
\* an organization show the decisions they were told of, and however often a request
\* for a membership is repeated it makes one row, of which the card tells the truth.
THEOREM MembershipPagesStayTruthful == DashboardSpec => []MembershipPagesAreTruthful
<1>1. OrgInv => MembershipPagesAreTruthful
  BY DEF OrgInv, OneRow, RequestCardOK, RowKnown, MembershipPagesAreTruthful, OneRowPerApplicant
<1> QED
  BY <1>1, OrganizationsRun, OrgInvariance, PTL

-----------------------------------------------------------------------------
(* The pages of bookings                                                   *)

RowSet == [Bookings -> Statuses]
PageStates == {"closed", "left", "idle", "loading", "loaded", "error"}
PageSet == [status : PageStates, rows : [Bookings -> Statuses \cup {None}]]
DialogSet == [open : BOOLEAN, selected : Bookings \cup {None}, submitting : BOOLEAN,
              created : Bookings \cup {None}, error : BOOLEAN]
GetSet == [page : Pages \cup {"nobody"}, key : Keys \cup {None},
           stage : {"asked", "missed", "read", "done"}, rows : RowSet \cup {None}]
ChangeSet == [page : Pages \cup {"nobody"}, by : Callers,
              kind : {"create", "cancel", "complete"}, booking : Bookings,
              stage : {"sent", "refused", "committed", "published", "evicted"}]
BookingsTyped ==
    /\ status \in RowSet /\ cache \in [Keys -> RowSet \cup {None}]
    /\ page \in [Pages -> PageSet] /\ dialog \in DialogSet
    /\ get \in [Gets -> GetSet \cup {Unused}] /\ call \in [Calls -> ChangeSet \cup {Unused}]
    /\ event \in SUBSET Bookings /\ refunded \in SUBSET Bookings
    /\ changedBy \in [Bookings -> Callers \cup {None}]

\* Rows were read once: what is over in them is over.
Final == {"CANCELLED", "COMPLETED"}
Lags(rows) == \A b \in Bookings : rows[b] \in Final => status[b] = rows[b]

\* A change that is committed and of which nobody was told yet, or an event.
Coming(b) ==
    b \in event \/ \E c \in Calls : call[c].stage = "committed" /\ call[c].booking = b
Excused(p, b) == Coming(b) \/ <<p, b>> \in missed \cup outdated

\* A question is asked for an open page; its answer is up to date but for what the
\* page will be told, has missed, or took from the cache.
GetOK(r) ==
    /\ r \in GetSet
    /\ r.page # "nobody" => IsOpen(r.page) /\ r.key = Question(r.page)
    /\ r.stage = "read" => r.key # None
    /\ r.stage \in {"read", "done"} =>
         /\ r.rows \in RowSet /\ Lags(r.rows)
         /\ r.page # "nobody" =>
              \A b \in Bookings : r.rows[b] = status[b] \/ Excused(r.page, b)
         /\ r.page = "card" => \A b \in refunded : r.rows[b] = "CANCELLED"
GetsOK == \A g \in Gets : get[g] = Unused \/ GetOK(get[g])
OneAsk == \A p \in Pages : \A g, h \in Asks(p) : g = h

\* A change that is committed has been made, and stays so once it is final.
CallFits(r) ==
    /\ r \in ChangeSet
    /\ r.page \notin {"nobody", "dialog"} =>
         /\ r.page \in {"mine", "org", "history"} /\ r.kind # "create"
         /\ r.page = "mine" => r.kind = "cancel"
    /\ r.stage \in {"committed", "published", "evicted"} =>
         /\ status[r.booking] # "AVAILABLE"
         /\ r.kind # "create" => status[r.booking] = To(r.kind)
CallsFit == \A c \in Calls : call[c] = Unused \/ CallFits(call[c])

CachedLag == \A k \in Keys : cache[k] # None => Lags(cache[k])

\* What is shown on a page that is open.
Waits(p) ==
    page[p].status = "loading" =>
        Asks(p) # {} \/ (p = "dialog" /\ (~dialog.open \/ dialog.created # None))
Settled(p) ==
    page[p].status = "loaded" /\ p # "card" => \A b \in Bookings :
        \/ Asks(p) # {} \/ Excused(p, b) \/ (p = "dialog" /\ dialog.created # None)
        \/ Shown(p, b) = View(p, status)[b]
Balanced(p) ==
    p = "card" /\ page[p].status = "loaded" =>
        Asks(p) # {} \/ \A b \in refunded : Shown(p, b) = "CANCELLED"
ShowsOK(p) ==
    /\ Lags(page[p].rows) /\ Waits(p) /\ Settled(p) /\ Balanced(p)
    /\ p = "dialog" /\ page[p].status = "loaded" => Asks(p) = {}
PagesOK == \A p \in Pages : ShowsOK(p)

Refunds == \A b \in refunded : status[b] = "CANCELLED"

BookingInv ==
    /\ BookingsTyped /\ GetsOK /\ OneAsk /\ CallsFit /\ CachedLag /\ EvictionCoversOwnChanges
    /\ PagesOK /\ Refunds /\ DialogIsTruthful

LEMMA BookingConstants ==
    /\ None \notin Bookings /\ None \notin Keys /\ None \notin Statuses
    /\ "nobody" \notin Pages /\ Final \in SUBSET Statuses /\ None \notin Final
    /\ Unused.stage = "idle" /\ Unused \notin GetSet /\ Unused \notin ChangeSet
    /\ \A p \in Pages : Question(p) \in Keys \cup {None}
    /\ Question("card") = None /\ "card" \in Pages /\ "dialog" \in Pages
    /\ NoRows \in [Bookings -> Statuses \cup {None}] /\ \A b \in Bookings : NoRows[b] = None
<1>1. None \notin Bookings /\ None \notin Keys /\ None \notin Statuses
  BY BookingPagesAssumption
<1>2. /\ "nobody" \notin Pages /\ Final \in SUBSET Statuses /\ "card" \in Pages
      /\ "dialog" \in Pages
  BY DEF Pages, Final, Statuses
<1>3. Unused.stage = "idle"
  BY DEF Unused
<1>4. Unused \notin GetSet /\ Unused \notin ChangeSet
  BY <1>3 DEF GetSet, ChangeSet
<1>5. Question("card") = None
  BY DEF Question, getCurrentUserPoints
<1>6. \A p \in Pages : Question(p) \in Keys \cup {None}
  BY DEF Question, Pages, Keys, getMyBookings, getOrganizationBookings, getResourceSlots,
         getCurrentUserPoints, UserCacheKey
<1> QED
  BY <1>1, <1>2, <1>3, <1>4, <1>5, <1>6 DEF NoRows

\* The statuses of a booking that a page shows.
SeenOn(p, b) ==
    CASE p = "upcoming" -> {"CONFIRMED"}
      [] p = "dialog" -> IF b \in FirstSlots THEN {"AVAILABLE", "CANCELLED"} ELSE {}
      [] OTHER -> {"CONFIRMED", "CANCELLED", "COMPLETED"}

LEMMA ViewsByRow ==
    ASSUME NEW p, NEW rows
    PROVE  View(p, rows) = [b \in Bookings |-> IF rows[b] \in SeenOn(p, b) THEN rows[b] ELSE None]
<1>1. CASE p = "upcoming"
  BY <1>1 DEF View, SeenOn, UpcomingBookings, Rows
<1>2. CASE p = "dialog"
  BY <1>2 DEF View, SeenOn, availableFutureSlots, Rows
<1>3. CASE p # "upcoming" /\ p # "dialog"
  BY <1>3 DEF View, SeenOn, HistoryBookings, Rows
<1> QED
  BY <1>1, <1>2, <1>3

LEMMA ViewsOfRows ==
    ASSUME NEW p, NEW rows \in RowSet
    PROVE  /\ View(p, rows) \in [Bookings -> Statuses \cup {None}]
           /\ \A b \in Bookings : View(p, rows)[b] = rows[b] \/ View(p, rows)[b] = None
           /\ p \notin {"upcoming", "dialog"} =>
                \A b \in Bookings : rows[b] \in Final => View(p, rows)[b] = rows[b]
           /\ \A other : \A b \in Bookings :
                rows[b] = other[b] => View(p, rows)[b] = View(p, other)[b]
<1>1. \A r : View(p, r) = [b \in Bookings |-> IF r[b] \in SeenOn(p, b) THEN r[b] ELSE None]
  BY ViewsByRow
<1>2. p \notin {"upcoming", "dialog"} =>
        \A b \in Bookings : SeenOn(p, b) = {"CONFIRMED", "CANCELLED", "COMPLETED"}
  BY DEF SeenOn
<1> QED
  BY <1>1, <1>2 DEF RowSet, Final

\* A step after which what is over stays over, and whoever asks or shows still has
\* a reason to be behind.
GoesOn ==
    \A b \in Bookings : /\ status[b] \in Final => status'[b] = status[b]
                        /\ status[b] # "AVAILABLE" => status'[b] # "AVAILABLE"
KeepsUp(p) ==
    \A b \in Bookings : /\ status'[b] = status[b] \/ Coming(b)'
                        /\ Excused(p, b) => Excused(p, b)' \/ ~IsOpen(p)

LEMMA LagsKept ==
    ASSUME GoesOn, NEW rows, Lags(rows)
    PROVE  Lags(rows)'
  BY DEF GoesOn, Lags

LEMMA GetKept ==
    ASSUME GoesOn, NEW r, GetOK(r),
           r.page # "nobody" => KeepsUp(r.page) /\ IsOpen(r.page)',
           r.page = "card" => refunded' \subseteq refunded
    PROVE  GetOK(r)'
<1>1. r \in GetSet /\ (r.stage = "read" => r.key # None)
  BY DEF GetOK
<1>2. r.page # "nobody" => IsOpen(r.page)' /\ r.key = Question(r.page)
  BY DEF GetOK
<1>3. ASSUME r.stage \in {"read", "done"}
      PROVE  /\ r.rows \in RowSet /\ Lags(r.rows)'
             /\ r.page # "nobody" =>
                  \A b \in Bookings : r.rows[b] = status'[b] \/ Excused(r.page, b)'
             /\ r.page = "card" => \A b \in refunded' : r.rows[b] = "CANCELLED"
  <2>1. r.rows \in RowSet /\ Lags(r.rows)'
    BY <1>3, LagsKept DEF GetOK
  <2>2. ASSUME NEW b \in Bookings, r.page # "nobody", r.rows[b] # status'[b]
        PROVE  Excused(r.page, b)'
    <3>1. r.rows[b] = status[b] \/ Excused(r.page, b)
      BY <1>3, <2>2 DEF GetOK
    <3>2. Coming(b)' => Excused(r.page, b)'
      BY DEF Excused
    <3>3. IsOpen(r.page)
      BY <2>2 DEF GetOK
    <3> QED
      BY <2>2, <3>1, <3>2, <3>3 DEF KeepsUp
  <2>3. r.page = "card" => \A b \in refunded' : r.rows[b] = "CANCELLED"
    BY <1>3 DEF GetOK
  <2> QED
    BY <2>1, <2>2, <2>3
<1> QED
  BY <1>1, <1>2, <1>3 DEF GetOK

LEMMA NobodysGet ==
    ASSUME GoesOn, NEW r, GetOK(r), NEW x, x = [r EXCEPT !.page = "nobody"]
    PROVE  GetOK(x)' /\ x \in GetSet /\ x.page = "nobody" /\ x.stage = r.stage
<1>1. r \in GetSet
  BY DEF GetOK
<1>2. /\ x \in GetSet /\ x.page = "nobody" /\ x.stage = r.stage /\ x.rows = r.rows
      /\ x.key = r.key
  BY <1>1 DEF GetSet
<1>3. r.stage \in {"read", "done"} => r.rows \in RowSet /\ Lags(r.rows)'
  BY LagsKept DEF GetOK
<1>4. r.stage = "read" => r.key # None
  BY DEF GetOK
<1> QED
  BY <1>2, <1>3, <1>4 DEF GetOK

LEMMA ShowsKept ==
    ASSUME GoesOn, NEW p \in Pages, ShowsOK(p), KeepsUp(p), page'[p] = page[p],
           Asks(p)' = Asks(p), status \in RowSet,
           p = "dialog" => (dialog.open' = dialog.open /\ dialog.created' = dialog.created),
           p = "card" => refunded' \subseteq refunded
    PROVE  ShowsOK(p)'
<1>1. Lags(page[p].rows)'
  <2>1. PICK rows : rows = page[p].rows
    OBVIOUS
  <2>2. Lags(rows)'
    BY <2>1, LagsKept DEF ShowsOK
  <2> QED
    BY <2>1, <2>2
<1>2. Waits(p)'
  BY DEF ShowsOK, Waits
<1>3. Settled(p)'
  <2>1. ASSUME page[p].status = "loaded", p # "card", NEW b \in Bookings,
               Asks(p) = {}, ~Excused(p, b)', ~(p = "dialog" /\ dialog.created # None)
        PROVE  Shown(p, b)' = View(p, status')[b]
    <3>1. IsOpen(p)
      BY <2>1 DEF IsOpen
    <3>2. ~Excused(p, b) /\ ~Coming(b)'
      BY <2>1, <3>1 DEF KeepsUp, Excused
    <3>3. status'[b] = status[b]
      BY <3>2 DEF KeepsUp
    <3>4. Shown(p, b) = View(p, status)[b]
      BY <2>1, <3>2 DEF ShowsOK, Settled
    <3>5. View(p, status)[b] = View(p, status')[b]
      BY <3>3, ViewsOfRows
    <3> QED
      BY <3>4, <3>5 DEF Shown
  <2> QED
    BY <2>1 DEF Settled
<1>4. Balanced(p)'
  BY DEF ShowsOK, Balanced, Shown
<1> QED
  BY <1>1, <1>2, <1>3, <1>4 DEF ShowsOK

LEMMA CallKept ==
    ASSUME GoesOn, NEW r, CallFits(r)
    PROVE  CallFits(r)'
<1>1. /\ r \in ChangeSet /\ r.booking \in Bookings /\ r.kind \in {"create", "cancel", "complete"}
  BY DEF CallFits, ChangeSet
<1>2. r.kind # "create" => To(r.kind) \in Final
  BY <1>1 DEF To, Final
<1> QED
  BY <1>1, <1>2 DEF CallFits, GoesOn

\* Lists in the cache when nothing is committed, stored or evicted.
Carried ==
    \A c \in Calls : call[c].stage \in {"committed", "published"} =>
        /\ call'[c].stage \in {"committed", "published"}
        /\ call'[c].by = call[c].by /\ call'[c].booking = call[c].booking

LEMMA CacheKept ==
    ASSUME CachedLag, EvictionCoversOwnChanges, Carried,
           UNCHANGED <<status, changedBy, cache, crossed, unevicted>>
    PROVE  CachedLag' /\ EvictionCoversOwnChanges'
<1>1. CachedLag'
  BY DEF CachedLag, Lags
<1>2. EvictionCoversOwnChanges'
  BY DEF EvictionCoversOwnChanges, Carried
<1> QED
  BY <1>1, <1>2

\* The questions of some pages are kept, the others are new or nobody's.
GetsGoOn(P) ==
    /\ \A q \in P : KeepsUp(q) /\ (IsOpen(q) => IsOpen(q)')
    /\ "card" \in P => refunded' \subseteq refunded \/ ~IsOpen("card")

LEMMA GetsFollow ==
    ASSUME BookingInv, GoesOn, NEW P \in SUBSET Pages, GetsGoOn(P),
           \A h \in Gets :
              \/ get'[h] = Unused \/ GetOK(get[h])'
              \/ get'[h] = get[h] /\ (get[h] = Unused \/ get[h].page \in P \cup {"nobody"})
              \/ get[h] # Unused /\ get'[h] = [get[h] EXCEPT !.page = "nobody"]
    PROVE  GetsOK' /\ \A h \in Gets : get'[h] \in GetSet \cup {Unused}
<1>1. ASSUME NEW h \in Gets, get'[h] # Unused PROVE GetOK(get[h])'
  <2>1. PICK r : r = get[h]
    OBVIOUS
  <2>2. r = Unused \/ GetOK(r)
    BY <2>1 DEF BookingInv, GetsOK
  <2>3. CASE GetOK(get[h])'
    BY <2>3
  <2>4. CASE get'[h] = r /\ r.page \in P \cup {"nobody"}
    <3>1. GetOK(r) /\ (r.page # "nobody" => r.page \in P /\ IsOpen(r.page))
      BY <1>1, <2>2, <2>4 DEF GetOK
    <3>2. r.page # "nobody" => KeepsUp(r.page) /\ IsOpen(r.page)'
      BY <3>1 DEF GetsGoOn
    <3>3. r.page = "card" => refunded' \subseteq refunded
      BY <3>1 DEF GetsGoOn
    <3>4. GetOK(r)'
      BY <3>1, <3>2, <3>3, GetKept
    <3> QED
      BY <2>4, <3>4
  <2>5. CASE r # Unused /\ get'[h] = [r EXCEPT !.page = "nobody"]
    <3>1. PICK x : x = [r EXCEPT !.page = "nobody"]
      OBVIOUS
    <3>2. GetOK(x)'
      BY <2>2, <2>5, <3>1, NobodysGet
    <3> QED
      BY <2>5, <3>1, <3>2
  <2> QED
    BY <1>1, <2>1, <2>3, <2>4, <2>5
<1> QED
  BY <1>1 DEF GetsOK, GetOK

LEMMA GetsSame ==
    ASSUME BookingInv, GoesOn, GetsGoOn(Pages), get' = get
    PROVE  /\ get' \in [Gets -> GetSet \cup {Unused}] /\ GetsOK' /\ OneAsk'
           /\ \A p \in Pages : Asks(p)' = Asks(p)
<1>1. get \in [Gets -> GetSet \cup {Unused}]
  BY DEF BookingInv, BookingsTyped
<1>2. \A h \in Gets : get'[h] = get[h] /\ (get[h] = Unused \/ get[h].page \in Pages \cup {"nobody"})
  BY <1>1 DEF GetSet
<1>3. GetsOK'
  BY <1>2, GetsFollow, Zenon
<1>4. \A p \in Pages : Asks(p)' = Asks(p)
  BY DEF Asks
<1> QED
  BY <1>1, <1>3, <1>4 DEF BookingInv, OneAsk

\* A question moves on.
LEMMA GetMoves ==
    ASSUME BookingInv, GoesOn, GetsGoOn(Pages), NEW g \in Gets, get[g] # Unused,
           NEW x, GetOK(x)', x.page = get[g].page, get' = [get EXCEPT ![g] = Tidy(x)]
    PROVE  /\ get' \in [Gets -> GetSet \cup {Unused}] /\ GetsOK' /\ OneAsk'
           /\ \A p \in Pages : Asks(p)' = Asks(p)
<1>1. get \in [Gets -> GetSet \cup {Unused}]
  BY DEF BookingInv, BookingsTyped
<1>2. x \in GetSet /\ (Tidy(x) = x \/ Tidy(x) = Unused)
  BY DEF GetOK, Tidy
<1>3. x.page # "nobody" => Tidy(x) = x
  BY DEF Tidy
<1>4. /\ get'[g] = Tidy(x) /\ \A h \in Gets : h # g => get'[h] = get[h]
      /\ get' \in [Gets -> GetSet \cup {Unused}]
  BY <1>1, <1>2
<1>5. GetsOK'
  <2>1. \A h \in Gets : h # g => get[h] = Unused \/ get[h].page \in Pages \cup {"nobody"}
    BY <1>1 DEF GetSet
  <2>2. get'[g] = Unused \/ GetOK(get[g])'
    BY <1>2, <1>4
  <2>3. \A h \in Gets :
          \/ get'[h] = Unused \/ GetOK(get[h])'
          \/ get'[h] = get[h] /\ (get[h] = Unused \/ get[h].page \in Pages \cup {"nobody"})
    BY <1>4, <2>1, <2>2
  <2> QED
    BY <2>3, GetsFollow, Zenon
<1>6. ASSUME NEW p \in Pages PROVE Asks(p)' = Asks(p)
  <2>1. p # "nobody" /\ x # Unused
    BY <1>2, BookingConstants
  <2>2. g \in Asks(p)' <=> g \in Asks(p)
    BY <1>2, <1>3, <1>4, <2>1 DEF Asks
  <2>3. \A h \in Gets : h # g => (h \in Asks(p)' <=> h \in Asks(p))
    BY <1>4 DEF Asks
  <2>4. Asks(p)' \subseteq Gets /\ Asks(p) \subseteq Gets
    BY DEF Asks
  <2> QED
    BY <2>2, <2>3, <2>4
<1>7. OneAsk'
  BY <1>6 DEF BookingInv, OneAsk
<1> QED
  BY <1>4, <1>5, <1>6, <1>7

\* Nobody waits any more for the questions of a page.
LEMMA TidyNobody ==
    ASSUME NEW r \in GetSet, NEW x, x = [r EXCEPT !.page = "nobody"]
    PROVE  /\ x \in GetSet /\ x.page = "nobody" /\ (Tidy(x) = x \/ Tidy(x) = Unused)
           /\ Tidy(x) \in GetSet \cup {Unused}
<1>1. x \in GetSet /\ x.page = "nobody"
  BY DEF GetSet
<1> QED
  BY <1>1 DEF Tidy

LEMMA GetAnswered ==
    ASSUME BookingInv, GoesOn, NEW g \in Gets, get[g] # Unused, NEW p \in Pages,
           get[g].page = p, GetsGoOn(Pages \ {p}), get' = Answered(g)
    PROVE  /\ get' \in [Gets -> GetSet \cup {Unused}] /\ GetsOK' /\ OneAsk'
           /\ Asks(p)' = {} /\ \A q \in Pages \ {p} : Asks(q)' = Asks(q)
<1>1. get \in [Gets -> GetSet \cup {Unused}]
  BY DEF BookingInv, BookingsTyped
<1>2. PICK r \in GetSet : r = get[g]
  BY <1>1
<1>3. PICK x : x = [r EXCEPT !.page = "nobody"]
  OBVIOUS
<1>4. get' = [get EXCEPT ![g] = Tidy(x)]
  BY <1>1, <1>2, <1>3 DEF Answered
<1>5. x \in GetSet /\ x.page = "nobody" /\ (Tidy(x) = x \/ Tidy(x) = Unused)
  BY <1>3, TidyNobody
<1>6. /\ get'[g] = Tidy(x) /\ \A h \in Gets : h # g => get'[h] = get[h]
      /\ get' \in [Gets -> GetSet \cup {Unused}]
  BY <1>1, <1>4, <1>5
<1>7. g \in Asks(p)
  BY DEF Asks
<1>8. \A h \in Asks(p) : h = g
  BY <1>7 DEF BookingInv, OneAsk
<1>9. GetsOK'
  <2>1. \A h \in Gets : h # g => get[h] = Unused \/ get[h].page \in (Pages \ {p}) \cup {"nobody"}
    BY <1>1, <1>8 DEF GetSet, Asks
  <2>2. get'[g] = Unused \/ (get[g] # Unused /\ get'[g] = [get[g] EXCEPT !.page = "nobody"])
    BY <1>2, <1>3, <1>5, <1>6
  <2>3. \A h \in Gets :
          \/ get'[h] = Unused
          \/ get'[h] = get[h] /\ (get[h] = Unused \/ get[h].page \in (Pages \ {p}) \cup {"nobody"})
          \/ get[h] # Unused /\ get'[h] = [get[h] EXCEPT !.page = "nobody"]
    BY <1>6, <2>1, <2>2
  <2>4. Pages \ {p} \in SUBSET Pages
    OBVIOUS
  <2> QED
    BY <2>3, <2>4, GetsFollow, Zenon
<1>10. ASSUME NEW q \in Pages PROVE Asks(q)' = Asks(q) \ {g}
  <2>1. q # "nobody"
    BY BookingConstants
  <2>2. g \notin Asks(q)'
    BY <1>5, <1>6, <2>1 DEF Asks
  <2>3. \A h \in Gets : h # g => (h \in Asks(q)' <=> h \in Asks(q))
    BY <1>6 DEF Asks
  <2>4. Asks(q)' \subseteq Gets /\ Asks(q) \subseteq Gets
    BY DEF Asks
  <2> QED
    BY <2>2, <2>3, <2>4
<1>11. Asks(p)' = {}
  BY <1>8, <1>10
<1>12. \A q \in Pages \ {p} : g \notin Asks(q)
  BY DEF Asks
<1>13. ASSUME NEW q \in Pages \ {p} PROVE Asks(q)' = Asks(q)
  <2>1. Asks(q)' = Asks(q) \ {g} /\ g \notin Asks(q)
    BY <1>10, <1>12
  <2> QED
    BY <2>1
<1>14. OneAsk'
  <2>1. \A q \in Pages : \A a, b \in Asks(q) : a = b
    BY DEF BookingInv, OneAsk
  <2>2. \A q \in Pages : \A a, b \in Asks(q)' : a = b
    BY <1>10, <2>1
  <2> QED
    BY <2>2 DEF OneAsk
<1> QED
  BY <1>6, <1>9, <1>11, <1>13, <1>14

LEMMA GetAborted ==
    ASSUME BookingInv, GoesOn, NEW p \in Pages, GetsGoOn(Pages \ {p}), get' = Abort(p)
    PROVE  /\ get' \in [Gets -> GetSet \cup {Unused}] /\ GetsOK' /\ OneAsk'
           /\ Asks(p)' = {} /\ \A q \in Pages \ {p} : Asks(q)' = Asks(q)
<1>1. get \in [Gets -> GetSet \cup {Unused}] /\ "nobody" \notin Pages
  BY BookingConstants DEF BookingInv, BookingsTyped
<1>2. get' = [h \in Gets |-> IF h \in Asks(p) THEN Tidy([get[h] EXCEPT !.page = "nobody"])
                             ELSE get[h]]
  BY DEF Abort, Without
<1>3. ASSUME NEW h \in Asks(p)
      PROVE  /\ h \in Gets /\ get[h] # Unused /\ get[h].page = p
             /\ get'[h] \in GetSet \cup {Unused}
             /\ get'[h] = Unused \/ (/\ get'[h] = [get[h] EXCEPT !.page = "nobody"]
                                     /\ get'[h].page = "nobody")
  <2>1. h \in Gets /\ get[h] # Unused /\ get[h].page = p
    BY DEF Asks
  <2>2. PICK r \in GetSet : r = get[h]
    BY <1>1, <2>1
  <2>3. PICK x : x = [r EXCEPT !.page = "nobody"]
    OBVIOUS
  <2>4. /\ x.page = "nobody" /\ (Tidy(x) = x \/ Tidy(x) = Unused)
        /\ Tidy(x) \in GetSet \cup {Unused}
    BY <2>3, TidyNobody
  <2>5. get'[h] = Tidy(x)
    BY <1>2, <2>1, <2>2, <2>3
  <2> QED
    BY <2>1, <2>2, <2>3, <2>4, <2>5
<1>4. \A h \in Gets \ Asks(p) : get'[h] = get[h]
  BY <1>2
<1>5. get' \in [Gets -> GetSet \cup {Unused}]
  BY <1>1, <1>2, <1>3, <1>4
<1>6. GetsOK'
  <2>1. \A h \in Gets \ Asks(p) :
          get[h] = Unused \/ get[h].page \in (Pages \ {p}) \cup {"nobody"}
    BY <1>1 DEF GetSet, Asks
  <2>2. \A h \in Gets :
          \/ get'[h] = Unused
          \/ get'[h] = get[h] /\ (get[h] = Unused \/ get[h].page \in (Pages \ {p}) \cup {"nobody"})
          \/ get[h] # Unused /\ get'[h] = [get[h] EXCEPT !.page = "nobody"]
    BY <1>3, <1>4, <2>1
  <2>3. Pages \ {p} \in SUBSET Pages
    OBVIOUS
  <2> QED
    BY <2>2, <2>3, GetsFollow, Zenon
<1>7. Asks(p)' = {}
  <2>1. \A h \in Asks(p) : h \notin Asks(p)'
    BY <1>1, <1>3 DEF Asks
  <2>2. \A h \in Gets \ Asks(p) : h \notin Asks(p)'
    BY <1>4 DEF Asks
  <2>3. Asks(p)' \subseteq Gets
    BY DEF Asks
  <2> QED
    BY <2>1, <2>2, <2>3
<1>8. ASSUME NEW q \in Pages \ {p} PROVE Asks(q)' = Asks(q)
  BY <1>1, <1>3, <1>4 DEF Asks
<1>9. OneAsk'
  <2>1. \A q \in Pages : \A a, b \in Asks(q) : a = b
    BY DEF BookingInv, OneAsk
  <2>2. \A q \in Pages : \A a, b \in Asks(q)' : a = b
    BY <1>7, <1>8, <2>1
  <2> QED
    BY <2>2 DEF OneAsk
<1> QED
  BY <1>5, <1>6, <1>7, <1>8, <1>9

LEMMA GetAsked ==
    ASSUME BookingInv, GoesOn, NEW p \in Pages, NEW g \in Gets, GetsGoOn(Pages \ {p}),
           IsOpen(p)', get[g] = Unused, get' = Asking(p, g)
    PROVE  /\ get' \in [Gets -> GetSet \cup {Unused}] /\ GetsOK' /\ OneAsk'
           /\ Asks(p)' = {g} /\ \A q \in Pages \ {p} : Asks(q)' = Asks(q)
<1>1. get \in [Gets -> GetSet \cup {Unused}] /\ "nobody" \notin Pages
  BY BookingConstants DEF BookingInv, BookingsTyped
<1>2. PICK n : n = [page |-> p, key |-> Question(p), stage |-> "asked", rows |-> None]
  OBVIOUS
<1>3. Question(p) \in Keys \cup {None}
  BY BookingConstants
<1>4. n \in GetSet /\ n.page = p /\ n.key = Question(p) /\ n.stage = "asked"
  BY <1>2, <1>3 DEF GetSet
<1>5. GetOK(n)' /\ n # Unused
  BY <1>1, <1>4, BookingConstants DEF GetOK
<1>6. PICK ab : ab = Abort(p)
  OBVIOUS
<1>7. ab = [h \in Gets |-> IF h \in Asks(p) THEN Tidy([get[h] EXCEPT !.page = "nobody"])
                           ELSE get[h]]
  BY <1>6 DEF Abort, Without
<1>8. get' = [ab EXCEPT ![g] = n] /\ g \notin Asks(p)
  BY <1>2, <1>6 DEF Asking, Asks
<1>9. get'[g] = n /\ \A h \in Gets : h # g => get'[h] = ab[h]
  BY <1>7, <1>8
<1>10. ASSUME NEW h \in Asks(p)
      PROVE  /\ h \in Gets /\ h # g /\ get[h] # Unused /\ get[h].page = p
             /\ get'[h] \in GetSet \cup {Unused}
             /\ get'[h] = Unused \/ (/\ get'[h] = [get[h] EXCEPT !.page = "nobody"]
                                     /\ get'[h].page = "nobody")
  <2>1. h \in Gets /\ h # g /\ get[h] # Unused /\ get[h].page = p
    BY <1>8 DEF Asks
  <2>2. PICK r \in GetSet : r = get[h]
    BY <1>1, <2>1
  <2>3. PICK x : x = [r EXCEPT !.page = "nobody"]
    OBVIOUS
  <2>4. /\ x.page = "nobody" /\ (Tidy(x) = x \/ Tidy(x) = Unused)
        /\ Tidy(x) \in GetSet \cup {Unused}
    BY <2>3, TidyNobody
  <2>5. get'[h] = Tidy(x)
    BY <1>7, <1>9, <2>1, <2>2, <2>3
  <2> QED
    BY <2>1, <2>2, <2>3, <2>4, <2>5
<1>11. \A h \in Gets \ (Asks(p) \cup {g}) : get'[h] = get[h]
  BY <1>7, <1>9
<1>12. get' \in [Gets -> GetSet \cup {Unused}]
  <2>1. \A h \in Gets : get'[h] \in GetSet \cup {Unused}
    BY <1>1, <1>4, <1>9, <1>10, <1>11
  <2>2. get' = [h \in Gets |-> get'[h]]
    BY <1>7, <1>8
  <2> QED
    BY <2>1, <2>2
<1>13. GetsOK'
  <2>1. \A h \in Gets \ Asks(p) :
          get[h] = Unused \/ get[h].page \in (Pages \ {p}) \cup {"nobody"}
    BY <1>1 DEF GetSet, Asks
  <2>2. GetOK(get[g])'
    BY <1>5, <1>9
  <2>3. \A h \in Gets :
          \/ get'[h] = Unused \/ GetOK(get[h])'
          \/ get'[h] = get[h] /\ (get[h] = Unused \/ get[h].page \in (Pages \ {p}) \cup {"nobody"})
          \/ get[h] # Unused /\ get'[h] = [get[h] EXCEPT !.page = "nobody"]
    BY <1>10, <1>11, <2>1, <2>2
  <2>4. Pages \ {p} \in SUBSET Pages
    OBVIOUS
  <2> QED
    BY <2>3, <2>4, GetsFollow, Zenon
<1>14. Asks(p)' = {g}
  <2>1. \A h \in Asks(p) : h \notin Asks(p)'
    BY <1>1, <1>10 DEF Asks
  <2>2. \A h \in Gets \ (Asks(p) \cup {g}) : h \notin Asks(p)'
    BY <1>11 DEF Asks
  <2>3. Asks(p)' \subseteq Gets /\ g \in Asks(p)'
    BY <1>4, <1>5, <1>9 DEF Asks
  <2> QED
    BY <2>1, <2>2, <2>3
<1>15. ASSUME NEW q \in Pages \ {p} PROVE Asks(q)' = Asks(q)
  <2>1. q # "nobody" /\ q # p
    BY <1>1
  <2>2. \A h \in Asks(p) : h \notin Asks(q)' /\ h \notin Asks(q)
    BY <1>10, <2>1 DEF Asks
  <2>3. g \notin Asks(q)' /\ g \notin Asks(q)
    BY <1>4, <1>9, <2>1 DEF Asks
  <2>4. \A h \in Gets \ (Asks(p) \cup {g}) : h \in Asks(q)' <=> h \in Asks(q)
    BY <1>11 DEF Asks
  <2>5. Asks(q)' \subseteq Gets /\ Asks(q) \subseteq Gets
    BY DEF Asks
  <2> QED
    BY <2>2, <2>3, <2>4, <2>5
<1>16. OneAsk'
  <2>1. \A q \in Pages : \A a, b \in Asks(q) : a = b
    BY DEF BookingInv, OneAsk
  <2>2. \A q \in Pages : \A a, b \in Asks(q)' : a = b
    BY <1>14, <1>15, <2>1
  <2> QED
    BY <2>2 DEF OneAsk
<1> QED
  BY <1>12, <1>13, <1>14, <1>15, <1>16

\* Steps that leave the database alone.
LEMMA ComingKept ==
    ASSUME event \subseteq event',
           \A c \in Calls : call[c].stage = "committed" =>
               call'[c].stage = "committed" /\ call'[c].booking = call[c].booking
    PROVE  \A b \in Bookings : Coming(b) => Coming(b)'
  BY DEF Coming

LEMMA QuietStep ==
    ASSUME status' = status, NEW P,
           \A b \in Bookings : \/ Coming(b) => Coming(b)'
                               \/ \A q \in P : IsOpen(q) => <<q, b>> \in missed',
           \A q \in P, b \in Bookings :
              <<q, b>> \in missed \cup outdated => <<q, b>> \in missed' \cup outdated'
    PROVE  GoesOn /\ \A q \in P : KeepsUp(q)
<1>1. GoesOn
  BY DEF GoesOn
<1>2. ASSUME NEW q \in P, NEW b \in Bookings
      PROVE  /\ status'[b] = status[b] \/ Coming(b)'
             /\ Excused(q, b) => Excused(q, b)' \/ ~IsOpen(q)
  BY DEF Excused
<1> QED
  BY <1>1, <1>2 DEF KeepsUp

\* A page asks again: what the others missed or took from the cache is kept.
LEMMA AskingKeepsTheOthers ==
    ASSUME NEW p, NEW q, q # p, NEW b, NEW M, NEW S, S = {x \in M : x[1] # p}, <<q, b>> \in M
    PROVE  <<q, b>> \in S
  OBVIOUS

LEMMA AskKeeps ==
    ASSUME NEW p, NEW g, Ask(p, g)
    PROVE  \A q \in Pages \ {p}, b \in Bookings :
              <<q, b>> \in missed \cup outdated => <<q, b>> \in missed' \cup outdated'
<1>1. missed' = {x \in missed : x[1] # p} /\ outdated' = {x \in outdated : x[1] # p}
  BY DEF Ask
<1>2. ASSUME NEW q \in Pages \ {p}, NEW b \in Bookings, <<q, b>> \in missed
      PROVE  <<q, b>> \in missed'
  BY <1>1, <1>2, AskingKeepsTheOthers
<1>3. ASSUME NEW q \in Pages \ {p}, NEW b \in Bookings, <<q, b>> \in outdated
      PROVE  <<q, b>> \in outdated'
  BY <1>1, <1>3, AskingKeepsTheOthers
<1> QED
  BY <1>2, <1>3

LEMMA PagesKept ==
    ASSUME BookingInv, GoesOn, NEW P \in SUBSET Pages,
           \A q \in P : KeepsUp(q) /\ page'[q] = page[q] /\ Asks(q)' = Asks(q),
           "dialog" \in P => (dialog'.open = dialog.open /\ dialog'.created = dialog.created),
           "card" \in P => refunded' \subseteq refunded \/ ~IsOpen("card")
    PROVE  \A q \in P : ShowsOK(q)'
<1>1. status \in RowSet /\ \A q \in P : ShowsOK(q)
  BY DEF BookingInv, BookingsTyped, PagesOK
<1>2. ASSUME NEW q \in P, q # "card" \/ IsOpen("card") PROVE ShowsOK(q)'
  <2>1. /\ q \in Pages /\ ShowsOK(q) /\ KeepsUp(q) /\ page'[q] = page[q] /\ Asks(q)' = Asks(q)
        /\ q = "card" => refunded' \subseteq refunded
    BY <1>1, <1>2
  <2>2. q = "dialog" => (dialog.open' = dialog.open /\ dialog.created' = dialog.created)
    OBVIOUS
  <2> QED
    BY <1>1, <2>1, <2>2, ShowsKept
<1>3. ASSUME "card" \in P, ~IsOpen("card") PROVE ShowsOK("card")'
  <2>1. page'["card"].status \in {"closed", "left"}
    BY <1>3 DEF IsOpen
  <2>2. PICK rows : rows = page["card"].rows
    OBVIOUS
  <2>3. Lags(rows)'
    BY <1>1, <1>3, <2>2, LagsKept DEF ShowsOK
  <2>4. Lags(page["card"].rows)'
    BY <1>3, <2>2, <2>3
  <2> QED
    BY <2>1, <2>4 DEF ShowsOK, Waits, Settled, Balanced
<1> QED
  BY <1>2, <1>3

\* Steps of one change.
LEMMA CallMoves ==
    ASSUME BookingInv, GoesOn, NEW c \in Calls, NEW x, x = Unused \/ CallFits(x)',
           call' = [call EXCEPT ![c] = x]
    PROVE  /\ call' \in [Calls -> ChangeSet \cup {Unused}] /\ CallsFit'
           /\ call'[c] = x /\ \A d \in Calls : d # c => call'[d] = call[d]
<1>1. call \in [Calls -> ChangeSet \cup {Unused}]
  BY DEF BookingInv, BookingsTyped
<1>2. x \in ChangeSet \cup {Unused}
  BY DEF CallFits
<1>3. /\ call' \in [Calls -> ChangeSet \cup {Unused}]
      /\ call'[c] = x /\ \A d \in Calls : d # c => call'[d] = call[d]
  BY <1>1, <1>2
<1>4. ASSUME NEW d \in Calls, d # c PROVE call'[d] = Unused \/ CallFits(call[d])'
  <2>1. PICK r : r = call[d]
    OBVIOUS
  <2>2. r = Unused \/ CallFits(r)'
    BY <2>1, CallKept DEF BookingInv, CallsFit
  <2> QED
    BY <1>3, <1>4, <2>1, <2>2
<1>5. call'[c] = Unused \/ CallFits(call[c])'
  BY <1>3
<1> QED
  BY <1>3, <1>4, <1>5 DEF CallsFit

LEMMA CallsSame ==
    ASSUME BookingInv, GoesOn, call' = call
    PROVE  /\ call' \in [Calls -> ChangeSet \cup {Unused}] /\ CallsFit' /\ Carried
           /\ \A c \in Calls : call[c].stage = "committed" =>
                 call'[c].stage = "committed" /\ call'[c].booking = call[c].booking
<1>1. call \in [Calls -> ChangeSet \cup {Unused}]
  BY DEF BookingInv, BookingsTyped
<1>2. ASSUME NEW d \in Calls PROVE call'[d] = Unused \/ CallFits(call[d])'
  <2>1. PICK r : r = call[d]
    OBVIOUS
  <2>2. r = Unused \/ CallFits(r)'
    BY <2>1, CallKept DEF BookingInv, CallsFit
  <2> QED
    BY <2>1, <2>2
<1>3. Carried
  BY DEF Carried
<1> QED
  BY <1>1, <1>2, <1>3 DEF CallsFit

LEMMA RefundsStay ==
    ASSUME BookingInv, status' = status, refunded' = refunded
    PROVE  Refunds' /\ status' \in RowSet /\ refunded' \in SUBSET Bookings
  BY DEF BookingInv, BookingsTyped, Refunds

LEMMA DialogStays ==
    ASSUME BookingInv, status' = status, dialog' \in DialogSet,
           dialog'.created = dialog.created,
           \/ dialog'.selected = None
           \/ dialog'.selected = dialog.selected /\ page'["dialog"] = page["dialog"]
    PROVE  DialogIsTruthful'
<1>1. DialogIsTruthful
  BY DEF BookingInv
<1> QED
  BY <1>1 DEF DialogIsTruthful, Shown

LEMMA CacheStays ==
    ASSUME BookingInv, Carried, UNCHANGED <<status, changedBy, cache, crossed, unevicted>>
    PROVE  CachedLag' /\ EvictionCoversOwnChanges' /\ cache' \in [Keys -> RowSet \cup {None}]
<1>1. CachedLag /\ EvictionCoversOwnChanges /\ cache \in [Keys -> RowSet \cup {None}]
  BY DEF BookingInv, BookingsTyped
<1> QED
  BY <1>1, CacheKept

\* A page of which all questions and its rows stay, for the steps of others.
LEMMA NotYetShown ==
    ASSUME BookingInv, GoesOn, NEW p \in Pages, Lags(page[p].rows)',
           page'[p].status # "loaded",
           page'[p].status = "loading" =>
              Asks(p)' # {} \/ (p = "dialog" /\ (~dialog'.open \/ dialog'.created # None))
    PROVE  ShowsOK(p)'
<1>1. Waits(p)'
  BY DEF Waits
<1>2. Settled(p)' /\ Balanced(p)'
  BY DEF Settled, Balanced
<1> QED
  BY <1>1, <1>2 DEF ShowsOK

LEMMA NoRowsLag == Lags(NoRows)'
  BY BookingConstants DEF Lags

LEMMA RowsLagOn ==
    ASSUME BookingInv, GoesOn, NEW p \in Pages, page'[p].rows = page[p].rows
    PROVE  Lags(page[p].rows)'
<1>1. PICK rows : rows = page[p].rows
  OBVIOUS
<1>2. Lags(rows)'
  BY <1>1, LagsKept DEF BookingInv, PagesOK, ShowsOK
<1> QED
  BY <1>1, <1>2

LEMMA StatusSame ==
    ASSUME status' = status
    PROVE  GoesOn
  BY DEF GoesOn

\* Steps that neither ask nor answer a question.
LEMMA PagesUntouched ==
    ASSUME BookingInv, UNCHANGED <<status, changedBy, page, get, refunded>>,
           \A b \in Bookings : \/ Coming(b) => Coming(b)'
                               \/ \A q \in Pages : IsOpen(q) => <<q, b>> \in missed',
           missed \subseteq missed', outdated \subseteq outdated',
           dialog' \in DialogSet, dialog'.open = dialog.open, dialog'.created = dialog.created,
           DialogIsTruthful', event' \in SUBSET Bookings, CallsFit',
           call' \in [Calls -> ChangeSet \cup {Unused}],
           CachedLag', EvictionCoversOwnChanges', cache' \in [Keys -> RowSet \cup {None}]
    PROVE  BookingInv'
<1>1. GoesOn /\ \A q \in Pages : KeepsUp(q)
  <2>1. \A q \in Pages, b \in Bookings :
          <<q, b>> \in missed \cup outdated => <<q, b>> \in missed' \cup outdated'
    OBVIOUS
  <2> QED
    BY <2>1, QuietStep
<1>2. GetsGoOn(Pages)
  BY <1>1 DEF GetsGoOn, IsOpen
<1>3. /\ get' \in [Gets -> GetSet \cup {Unused}] /\ GetsOK' /\ OneAsk'
      /\ \A p \in Pages : Asks(p)' = Asks(p)
  BY <1>1, <1>2, GetsSame
<1>4. \A q \in Pages : ShowsOK(q)'
  <2>1. /\ \A q \in Pages : KeepsUp(q) /\ page'[q] = page[q] /\ Asks(q)' = Asks(q)
        /\ Pages \in SUBSET Pages /\ refunded' \subseteq refunded
    BY <1>1, <1>3
  <2> QED
    BY <1>1, <2>1, PagesKept, Zenon
<1>5. Refunds' /\ status' \in RowSet /\ refunded' \in SUBSET Bookings
  BY RefundsStay
<1>6. page' \in [Pages -> PageSet] /\ changedBy' \in [Bookings -> Callers \cup {None}]
  BY DEF BookingInv, BookingsTyped
<1>7. BookingsTyped'
  BY <1>3, <1>5, <1>6 DEF BookingsTyped
<1>8. PagesOK'
  BY <1>4 DEF PagesOK
<1> QED
  BY <1>3, <1>5, <1>7, <1>8 DEF BookingInv

LEMMA DialogTyped ==
    BookingInv => dialog \in DialogSet /\ event \in SUBSET Bookings
  BY DEF BookingInv, BookingsTyped

LEMMA BookingMissEvent ==
    ASSUME BookingInv, NEW b \in Bookings, missEvent(b)
    PROVE  BookingInv'
<1>1. /\ event' = event \ {b} /\ missed' = MissedByAll(b)
      /\ UNCHANGED <<status, changedBy, cache, crossed, unevicted, page, dialog, outdated,
                     refunded, get, call>>
  BY Zenon DEF missEvent
<1>2. GoesOn
  BY <1>1, StatusSame
<1>3. CallsFit' /\ call' \in [Calls -> ChangeSet \cup {Unused}] /\ Carried
  BY <1>1, <1>2, CallsSame
<1>4. CachedLag' /\ EvictionCoversOwnChanges' /\ cache' \in [Keys -> RowSet \cup {None}]
  BY <1>1, <1>3, CacheStays
<1>5. dialog' \in DialogSet /\ event' \in SUBSET Bookings
  BY <1>1, DialogTyped
<1>6. DialogIsTruthful'
  BY <1>1, <1>5, DialogStays
<1>7. missed \subseteq missed' /\ outdated \subseteq outdated'
  BY <1>1 DEF MissedByAll
<1>8. \A q \in Pages : IsOpen(q) => <<q, b>> \in missed'
  BY <1>1 DEF MissedByAll
<1>9. \A x \in Bookings : x # b => (Coming(x) => Coming(x)')
  BY <1>1 DEF Coming
<1>10. \A x \in Bookings : \/ Coming(x) => Coming(x)'
                           \/ \A q \in Pages : IsOpen(q) => <<q, x>> \in missed'
  BY <1>8, <1>9
<1> QED
  BY <1>1, <1>3, <1>4, <1>5, <1>6, <1>7, <1>10, PagesUntouched

\* A change is asked for, or refused.
LEMMA ChangeGoesOn ==
    ASSUME BookingInv, NEW c \in Calls, NEW x, x = Unused \/ CallFits(x)',
           call[c].stage \notin {"committed", "published"},
           call' = [call EXCEPT ![c] = x],
           UNCHANGED <<bookingServer, page, get, missed, outdated, refunded>>,
           dialog' \in DialogSet, dialog'.open = dialog.open, dialog'.created = dialog.created,
           dialog'.selected = dialog.selected
    PROVE  BookingInv'
<1>1. UNCHANGED <<status, changedBy, cache, event, crossed, unevicted>>
  BY DEF bookingServer
<1>2. GoesOn
  BY <1>1, StatusSame
<1>3. /\ call' \in [Calls -> ChangeSet \cup {Unused}] /\ CallsFit'
      /\ \A d \in Calls : d # c => call'[d] = call[d]
  BY <1>2, CallMoves
<1>4. Carried
  BY <1>3 DEF Carried
<1>5. CachedLag' /\ EvictionCoversOwnChanges' /\ cache' \in [Keys -> RowSet \cup {None}]
  BY <1>1, <1>4, CacheStays
<1>6. DialogIsTruthful'
  BY <1>1, DialogStays
<1>7. \A b \in Bookings : Coming(b) => Coming(b)'
  <2>1. \A d \in Calls : call[d].stage = "committed" => d # c
    OBVIOUS
  <2> QED
    BY <1>1, <1>3, <2>1, ComingKept
<1>8. event' \in SUBSET Bookings
  BY <1>1, DialogTyped
<1>9. \A b \in Bookings : \/ Coming(b) => Coming(b)'
                          \/ \A q \in Pages : IsOpen(q) => <<q, b>> \in missed'
  BY <1>7
<1> QED
  BY <1>1, <1>3, <1>5, <1>6, <1>8, <1>9, PagesUntouched

\* What a new change looks like.
LEMMA ChangeFits ==
    ASSUME NEW c \in Calls, NEW p, NEW by \in Callers, NEW kind, NEW b \in Bookings,
           Change(c, p, by, kind, b),
           \/ p = "nobody" /\ kind \in {"create", "cancel", "complete"}
           \/ p = "dialog" /\ kind = "create"
           \/ p \in {"mine", "org", "history"} /\ kind = "cancel"
           \/ p \in {"org", "history"} /\ kind = "complete"
    PROVE  \E x : /\ CallFits(x)' /\ call' = [call EXCEPT ![c] = x]
                  /\ call[c].stage \notin {"committed", "published"}
<1>1. PICK x : x = [page |-> p, by |-> by, kind |-> kind, booking |-> b, stage |-> "sent"]
  OBVIOUS
<1>2. p \in Pages \cup {"nobody"} /\ kind \in {"create", "cancel", "complete"}
  BY DEF Pages
<1>3. x \in ChangeSet /\ x.page = p /\ x.kind = kind /\ x.stage = "sent"
  BY <1>1, <1>2 DEF ChangeSet
<1>4. CallFits(x)'
  BY <1>3 DEF CallFits
<1>5. call[c] = Unused /\ call' = [call EXCEPT ![c] = x]
  BY <1>1 DEF Change
<1> QED
  BY <1>4, <1>5, BookingConstants

LEMMA BookingSubmitCancellation ==
    ASSUME BookingInv, NEW c \in Calls, NEW p \in Pages, NEW b \in Bookings,
           submitCancellation(c, p, b)
    PROVE  BookingInv'
<1>1. PICK by : by = IF p = "mine" THEN Owner ELSE Admin
  OBVIOUS
<1>2. /\ p \in {"mine", "org", "history"} /\ Change(c, p, by, "cancel", b)
      /\ UNCHANGED <<bookingServer, bookingPages, get>>
  BY <1>1, Zenon DEF submitCancellation
<1>3. by \in Callers
  BY <1>1 DEF Callers
<1>4. PICK x : /\ CallFits(x)' /\ call' = [call EXCEPT ![c] = x]
               /\ call[c].stage \notin {"committed", "published"}
  BY <1>2, <1>3, ChangeFits
<1>5. dialog' \in DialogSet /\ UNCHANGED <<page, dialog, missed, outdated, refunded>>
  BY <1>2, DialogTyped DEF bookingPages
<1> QED
  BY <1>2, <1>4, <1>5, ChangeGoesOn

LEMMA BookingMarkAsComplete ==
    ASSUME BookingInv, NEW c \in Calls, NEW p \in Pages, NEW b \in Bookings,
           markAsComplete(c, p, b)
    PROVE  BookingInv'
<1>1. PICK by : by = Admin
  OBVIOUS
<1>2. /\ p \in {"org", "history"} /\ Change(c, p, by, "complete", b)
      /\ UNCHANGED <<bookingServer, bookingPages, get>>
  BY <1>1, Zenon DEF markAsComplete
<1>3. by \in Callers
  BY <1>1 DEF Callers
<1>4. PICK x : /\ CallFits(x)' /\ call' = [call EXCEPT ![c] = x]
               /\ call[c].stage \notin {"committed", "published"}
  BY <1>2, <1>3, ChangeFits
<1>5. dialog' \in DialogSet /\ UNCHANGED <<page, dialog, missed, outdated, refunded>>
  BY <1>2, DialogTyped DEF bookingPages
<1> QED
  BY <1>2, <1>4, <1>5, ChangeGoesOn

LEMMA BookingChangeElsewhere ==
    ASSUME BookingInv, NEW c \in Calls, NEW by \in Callers, NEW b \in Bookings,
           NEW kind \in {"create", "cancel", "complete"}, changeElsewhere(c, by, kind, b)
    PROVE  BookingInv'
<1>2. /\ Change(c, "nobody", by, kind, b)
      /\ UNCHANGED <<bookingServer, bookingPages, get>>
  BY Zenon DEF changeElsewhere
<1>4. PICK x : /\ CallFits(x)' /\ call' = [call EXCEPT ![c] = x]
               /\ call[c].stage \notin {"committed", "published"}
  BY <1>2, ChangeFits
<1>5. dialog' \in DialogSet /\ UNCHANGED <<page, dialog, missed, outdated, refunded>>
  BY <1>2, DialogTyped DEF bookingPages
<1> QED
  BY <1>2, <1>4, <1>5, ChangeGoesOn

LEMMA BookingSubmitBooking ==
    ASSUME BookingInv, NEW c \in Calls, submitBooking(c)
    PROVE  BookingInv'
<1>1. PICK b : b = dialog.selected
  OBVIOUS
<1>2. PICK by : by = Owner
  OBVIOUS
<1>3. /\ Change(c, "dialog", by, "create", b) /\ b # None
      /\ UNCHANGED <<bookingServer, page, get, missed, outdated, refunded>>
      /\ dialog' = [dialog EXCEPT !.submitting = TRUE, !.error = FALSE]
  BY <1>1, <1>2, Zenon DEF submitBooking
<1>4. dialog \in DialogSet
  BY DialogTyped
<1>5. /\ dialog' \in DialogSet /\ dialog'.open = dialog.open
      /\ dialog'.created = dialog.created /\ dialog'.selected = dialog.selected
  BY <1>3, <1>4 DEF DialogSet
<1>6. b \in Bookings /\ by \in Callers
  BY <1>1, <1>2, <1>3, <1>4 DEF DialogSet, Callers
<1>7. PICK x : /\ CallFits(x)' /\ call' = [call EXCEPT ![c] = x]
               /\ call[c].stage \notin {"committed", "published"}
  BY <1>3, <1>6, ChangeFits
<1> QED
  BY <1>3, <1>5, <1>7, ChangeGoesOn

LEMMA BookingRefuse ==
    ASSUME BookingInv, NEW c \in Calls, refuse(c)
    PROVE  BookingInv'
<1>1. /\ call[c].stage = "sent" /\ call' = [call EXCEPT ![c].stage = "refused"]
      /\ UNCHANGED <<bookingServer, bookingPages, get>>
  BY Zenon DEF refuse
<1>2. call \in [Calls -> ChangeSet \cup {Unused}] /\ CallsFit
  BY DEF BookingInv, BookingsTyped
<1>3. PICK r : r = call[c]
  OBVIOUS
<1>4. r # Unused /\ CallFits(r) /\ r \in ChangeSet
  BY <1>1, <1>2, <1>3, BookingConstants DEF CallsFit, CallFits
<1>5. PICK x : x = [r EXCEPT !.stage = "refused"]
  OBVIOUS
<1>6. call' = [call EXCEPT ![c] = x]
  BY <1>1, <1>2, <1>3, <1>5
<1>7. x \in ChangeSet /\ x.page = r.page /\ x.kind = r.kind /\ x.stage = "refused"
  BY <1>4, <1>5 DEF ChangeSet
<1>8. CallFits(x)'
  BY <1>4, <1>7 DEF CallFits
<1>9. dialog' \in DialogSet /\ UNCHANGED <<page, dialog, missed, outdated, refunded>>
  BY <1>1, DialogTyped DEF bookingPages
<1> QED
  BY <1>1, <1>6, <1>8, <1>9, ChangeGoesOn

LEMMA BookingFailChange ==
    ASSUME BookingInv, NEW c \in Calls, failChange(c)
    PROVE  BookingInv'
<1>1. /\ call[c].stage \in {"refused", "evicted"} /\ EndOfCall(c)
      /\ UNCHANGED <<bookingServer, page, missed, outdated, refunded, get>>
  BY DEF failChange
<1>2. PICK x : x = Unused
  OBVIOUS
<1>3. call' = [call EXCEPT ![c] = x]
  BY <1>1, <1>2 DEF EndOfCall
<1>4. dialog \in DialogSet
  BY DialogTyped
<1>5. /\ dialog' \in DialogSet /\ dialog'.open = dialog.open
      /\ dialog'.created = dialog.created /\ dialog'.selected = dialog.selected
  BY <1>1, <1>4 DEF EndOfCall, DialogSet
<1> QED
  BY <1>1, <1>2, <1>3, <1>5, ChangeGoesOn

LEMMA BookingOnSelect ==
    ASSUME BookingInv, NEW b \in Bookings, onSelect(b)
    PROVE  BookingInv'
<1>1. /\ page["dialog"].status = "loaded" /\ Shown("dialog", b) # None
      /\ dialog' = [dialog EXCEPT !.selected = b, !.error = FALSE]
      /\ UNCHANGED <<bookingServer, page, missed, outdated, refunded, get, call>>
  BY Zenon DEF onSelect
<1>2. UNCHANGED <<status, changedBy, cache, event, crossed, unevicted>>
  BY <1>1 DEF bookingServer
<1>3. GoesOn
  BY <1>2, StatusSame
<1>4. CallsFit' /\ call' \in [Calls -> ChangeSet \cup {Unused}] /\ Carried
  BY <1>1, <1>3, CallsSame
<1>5. CachedLag' /\ EvictionCoversOwnChanges' /\ cache' \in [Keys -> RowSet \cup {None}]
  BY <1>2, <1>4, CacheStays
<1>6. dialog \in DialogSet /\ event' \in SUBSET Bookings
  BY <1>2, DialogTyped
<1>7. /\ dialog' \in DialogSet /\ dialog'.open = dialog.open
      /\ dialog'.created = dialog.created /\ dialog'.selected = b
  BY <1>1, <1>6 DEF DialogSet
<1>8. DialogIsTruthful'
  BY <1>1, <1>2, <1>7 DEF BookingInv, DialogIsTruthful, Shown
<1>9. \A x \in Bookings : \/ Coming(x) => Coming(x)'
                          \/ \A q \in Pages : IsOpen(q) => <<q, x>> \in missed'
  BY <1>1, <1>2 DEF Coming
<1> QED
  BY <1>1, <1>2, <1>4, <1>5, <1>6, <1>7, <1>8, <1>9, PagesUntouched

\* A committed change is published, or the service that made it dies.
LEMMA CommittedGoesOn ==
    ASSUME BookingInv, NEW c \in Calls, NEW x, x = Unused \/ CallFits(x)',
           call' = [call EXCEPT ![c] = x],
           UNCHANGED <<status, changedBy, page, get, refunded, outdated>>,
           missed \subseteq missed', event \subseteq event', event' \in SUBSET Bookings,
           call[c].stage = "committed" =>
              \/ call[c].booking \in event'
              \/ \A q \in Pages : IsOpen(q) => <<q, call[c].booking>> \in missed',
           dialog' \in DialogSet, dialog'.open = dialog.open, dialog'.created = dialog.created,
           dialog'.selected = dialog.selected,
           CachedLag', EvictionCoversOwnChanges', cache' \in [Keys -> RowSet \cup {None}]
    PROVE  BookingInv'
<1>1. GoesOn
  BY StatusSame
<1>2. /\ call' \in [Calls -> ChangeSet \cup {Unused}] /\ CallsFit'
      /\ \A d \in Calls : d # c => call'[d] = call[d]
  BY <1>1, CallMoves
<1>3. DialogIsTruthful'
  BY DialogStays
<1>4. \A b \in Bookings : \/ Coming(b) => Coming(b)'
                          \/ \A q \in Pages : IsOpen(q) => <<q, b>> \in missed'
  <2>1. ASSUME NEW b \in Bookings, Coming(b), ~Coming(b)', NEW q \in Pages, IsOpen(q)
        PROVE  <<q, b>> \in missed'
    <3>1. b \notin event /\ b \notin event'
      BY <2>1 DEF Coming
    <3>2. PICK d \in Calls : call[d].stage = "committed" /\ call[d].booking = b
      BY <2>1, <3>1 DEF Coming
    <3>3. d = c
      BY <1>2, <2>1, <3>2 DEF Coming
    <3> QED
      BY <2>1, <3>1, <3>2, <3>3
  <2> QED
    BY <2>1
<1>5. outdated \subseteq outdated'
  OBVIOUS
<1> QED
  BY <1>2, <1>3, <1>4, <1>5, PagesUntouched

LEMMA BookingPublish ==
    ASSUME BookingInv, NEW c \in Calls, NEW succeeds \in BOOLEAN,
           publishLifecycleEvent(c, succeeds)
    PROVE  BookingInv'
<1>1. /\ call[c].stage = "committed" /\ call' = [call EXCEPT ![c].stage = "published"]
      /\ UNCHANGED <<status, changedBy, cache, crossed, unevicted, page, dialog, outdated,
                     refunded, get>>
      /\ \/ event' = event \cup {call[c].booking} /\ missed' = missed
         \/ event' = event /\ missed' = MissedByAll(call[c].booking)
  BY DEF publishLifecycleEvent
<1>2. call \in [Calls -> ChangeSet \cup {Unused}] /\ CallsFit
  BY DEF BookingInv, BookingsTyped
<1>3. PICK r : r = call[c]
  OBVIOUS
<1>4. r # Unused /\ CallFits(r) /\ r \in ChangeSet
  BY <1>1, <1>2, <1>3, BookingConstants DEF CallsFit, CallFits
<1>5. PICK x : x = [r EXCEPT !.stage = "published"]
  OBVIOUS
<1>6. call' = [call EXCEPT ![c] = x]
  BY <1>1, <1>2, <1>3, <1>5
<1>7. /\ x \in ChangeSet /\ x.page = r.page /\ x.kind = r.kind /\ x.stage = "published"
      /\ x.booking = r.booking /\ x.by = r.by /\ r.booking \in Bookings
  BY <1>4, <1>5 DEF ChangeSet
<1>8. CallFits(x)'
  BY <1>1, <1>3, <1>4, <1>7 DEF CallFits
<1>9. Carried
  <2>1. call'[c] = x /\ \A d \in Calls : d # c => call'[d] = call[d]
    BY <1>2, <1>6
  <2> QED
    BY <1>3, <1>7, <2>1 DEF Carried
<1>10. CachedLag' /\ EvictionCoversOwnChanges' /\ cache' \in [Keys -> RowSet \cup {None}]
  BY <1>1, <1>9, CacheStays
<1>11. dialog' \in DialogSet /\ event' \in SUBSET Bookings
  BY <1>1, <1>3, <1>7, DialogTyped
<1>12. missed \subseteq missed' /\ event \subseteq event'
  BY <1>1 DEF MissedByAll
<1>13. \/ call[c].booking \in event'
       \/ \A q \in Pages : IsOpen(q) => <<q, call[c].booking>> \in missed'
  BY <1>1 DEF MissedByAll
<1> QED
  BY <1>1, <1>6, <1>8, <1>10, <1>11, <1>12, <1>13, CommittedGoesOn

LEMMA BookingServiceDies ==
    ASSUME BookingInv, NEW c \in Calls, serviceDies(c)
    PROVE  BookingInv'
<1>1. /\ call[c].stage \in {"committed", "published"} /\ EndOfCall(c)
      /\ missed' = IF call[c].stage = "committed" THEN MissedByAll(call[c].booking) ELSE missed
      /\ unevicted' = unevicted \cup {<<call[c].by, call[c].booking>>}
      /\ UNCHANGED <<status, changedBy, cache, event, crossed, page, outdated, refunded, get>>
  BY Zenon DEF serviceDies
<1>2. PICK x : x = Unused
  OBVIOUS
<1>3. call' = [call EXCEPT ![c] = x]
  BY <1>1, <1>2 DEF EndOfCall
<1>4. dialog \in DialogSet /\ event' \in SUBSET Bookings
  BY <1>1, DialogTyped
<1>5. /\ dialog' \in DialogSet /\ dialog'.open = dialog.open
      /\ dialog'.created = dialog.created /\ dialog'.selected = dialog.selected
  BY <1>1, <1>4 DEF EndOfCall, DialogSet
<1>6. missed \subseteq missed' /\ event \subseteq event'
  BY <1>1 DEF MissedByAll
<1>7. call[c].stage = "committed" =>
        \A q \in Pages : IsOpen(q) => <<q, call[c].booking>> \in missed'
  BY <1>1 DEF MissedByAll
<1>8. CachedLag /\ EvictionCoversOwnChanges /\ cache' \in [Keys -> RowSet \cup {None}]
  BY <1>1 DEF BookingInv, BookingsTyped
<1>9. CachedLag'
  BY <1>1, <1>8 DEF CachedLag, Lags
<1>10. \A d \in Calls : d # c => call'[d] = call[d]
  BY <1>3
<1>11. EvictionCoversOwnChanges'
  <2>1. ASSUME NEW k \in Keys, NEW b \in Bookings, cache[k] # None, cache[k][b] # status[b],
               changedBy[b] = k[2], <<k, b>> \notin crossed, <<k[2], b>> \notin unevicted'
        PROVE  \E d \in Calls : /\ call'[d].stage \in {"committed", "published"}
                                /\ call'[d].by = k[2] /\ call'[d].booking = b
    <3>1. <<k[2], b>> \notin unevicted
      BY <1>1, <2>1
    <3>2. PICK d \in Calls : /\ call[d].stage \in {"committed", "published"}
                             /\ call[d].by = k[2] /\ call[d].booking = b
      BY <1>8, <2>1, <3>1 DEF EvictionCoversOwnChanges
    <3>3. d # c
      BY <1>1, <2>1, <3>2
    <3> QED
      BY <1>10, <3>2, <3>3
  <2> QED
    BY <1>1, <2>1 DEF EvictionCoversOwnChanges
<1> QED
  BY <1>1, <1>2, <1>3, <1>4, <1>5, <1>6, <1>7, <1>8, <1>9, <1>11, CommittedGoesOn

\* Lists leave the cache.
LEMMA EvictKeeps ==
    ASSUME BookingInv, NEW keys, Evict(keys), UNCHANGED <<status, changedBy, unevicted>>,
           \A k \in Keys \ keys : \A c \in Calls :
              call[c].stage \in {"committed", "published"} /\ call[c].by = k[2] =>
                 call'[c] = call[c]
    PROVE  CachedLag' /\ EvictionCoversOwnChanges' /\ cache' \in [Keys -> RowSet \cup {None}]
<1>1. /\ cache' = [k \in Keys |-> IF k \in keys THEN None ELSE cache[k]]
      /\ crossed' = {x \in crossed : x[1] \notin keys}
  BY DEF Evict
<1>2. CachedLag /\ EvictionCoversOwnChanges /\ cache \in [Keys -> RowSet \cup {None}]
  BY DEF BookingInv, BookingsTyped
<1>3. cache' \in [Keys -> RowSet \cup {None}]
  BY <1>1, <1>2
<1>4. CachedLag'
  BY <1>1, <1>2 DEF CachedLag, Lags
<1>5. ASSUME NEW k \in Keys, NEW b \in Bookings, cache'[k] # None, cache'[k][b] # status[b],
             changedBy[b] = k[2], <<k, b>> \notin crossed', <<k[2], b>> \notin unevicted
      PROVE  \E d \in Calls : /\ call'[d].stage \in {"committed", "published"}
                              /\ call'[d].by = k[2] /\ call'[d].booking = b
  <2>1. k \notin keys /\ cache'[k] = cache[k]
    BY <1>1, <1>5
  <2>2. <<k, b>> \notin crossed
    BY <1>1, <1>5, <2>1
  <2>3. PICK d \in Calls : /\ call[d].stage \in {"committed", "published"}
                           /\ call[d].by = k[2] /\ call[d].booking = b
    BY <1>2, <1>5, <2>1, <2>2 DEF EvictionCoversOwnChanges
  <2>4. call'[d] = call[d]
    BY <2>1, <2>3
  <2> QED
    BY <2>3, <2>4
<1>6. EvictionCoversOwnChanges'
  BY <1>5 DEF EvictionCoversOwnChanges
<1> QED
  BY <1>3, <1>4, <1>6

LEMMA BookingExpire ==
    ASSUME BookingInv, NEW key \in Keys, expire(key)
    PROVE  BookingInv'
<1>1. /\ Evict({key})
      /\ UNCHANGED <<status, changedBy, event, unevicted, bookingPages, get, call>>
  BY Zenon DEF expire
<1>2. UNCHANGED <<page, dialog, missed, outdated, refunded>>
  BY <1>1 DEF bookingPages
<1>3. CachedLag' /\ EvictionCoversOwnChanges' /\ cache' \in [Keys -> RowSet \cup {None}]
  BY <1>1, EvictKeeps
<1>4. GoesOn
  BY <1>1, StatusSame
<1>5. CallsFit' /\ call' \in [Calls -> ChangeSet \cup {Unused}]
  BY <1>1, <1>4, CallsSame
<1>6. dialog' \in DialogSet /\ event' \in SUBSET Bookings
  BY <1>1, <1>2, DialogTyped
<1>7. DialogIsTruthful'
  BY <1>1, <1>2, <1>6, DialogStays
<1>8. \A x \in Bookings : \/ Coming(x) => Coming(x)'
                          \/ \A q \in Pages : IsOpen(q) => <<q, x>> \in missed'
  BY <1>1 DEF Coming
<1> QED
  BY <1>1, <1>2, <1>3, <1>5, <1>6, <1>7, <1>8, PagesUntouched

LEMMA BookingEvict ==
    ASSUME BookingInv, NEW c \in Calls, evict(c)
    PROVE  BookingInv'
<1>1. /\ call[c].stage = "published" /\ Evict(EvictedKeys(call[c].by))
      /\ call' = [call EXCEPT ![c].stage = "evicted"]
      /\ UNCHANGED <<status, changedBy, event, unevicted, bookingPages, get>>
  BY Zenon DEF evict
<1>2. UNCHANGED <<page, dialog, missed, outdated, refunded>>
  BY <1>1 DEF bookingPages
<1>3. call \in [Calls -> ChangeSet \cup {Unused}] /\ CallsFit
  BY DEF BookingInv, BookingsTyped
<1>4. PICK r : r = call[c]
  OBVIOUS
<1>5. r # Unused /\ CallFits(r) /\ r \in ChangeSet
  BY <1>1, <1>3, <1>4, BookingConstants DEF CallsFit, CallFits
<1>6. PICK x : x = [r EXCEPT !.stage = "evicted"]
  OBVIOUS
<1>7. call' = [call EXCEPT ![c] = x]
  BY <1>1, <1>3, <1>4, <1>6
<1>8. /\ x \in ChangeSet /\ x.page = r.page /\ x.kind = r.kind /\ x.stage = "evicted"
      /\ x.booking = r.booking
  BY <1>5, <1>6 DEF ChangeSet
<1>9. CallFits(x)'
  BY <1>1, <1>4, <1>5, <1>8 DEF CallFits
<1>10. \A d \in Calls : d # c => call'[d] = call[d]
  BY <1>7
<1>11. \A k \in Keys : k[2] = r.by => k \in EvictedKeys(r.by)
  BY DEF Keys, EvictedKeys, UserCacheKey
<1>12. CachedLag' /\ EvictionCoversOwnChanges' /\ cache' \in [Keys -> RowSet \cup {None}]
  <2>1. PICK keys : keys = EvictedKeys(r.by)
    OBVIOUS
  <2>2. \A k \in Keys \ keys : \A d \in Calls :
           call[d].stage \in {"committed", "published"} /\ call[d].by = k[2] =>
              call'[d] = call[d]
    BY <1>4, <1>10, <1>11, <2>1
  <2>3. Evict(keys)
    BY <1>1, <1>4, <2>1
  <2> QED
    BY <1>1, <2>2, <2>3, EvictKeeps
<1>13. dialog' \in DialogSet /\ event' \in SUBSET Bookings
  BY <1>1, <1>2, DialogTyped
<1>14. missed \subseteq missed' /\ event \subseteq event'
  BY <1>1, <1>2
<1> QED
  BY <1>1, <1>2, <1>7, <1>9, <1>12, <1>13, <1>14, CommittedGoesOn

\* The database changes: what is shown lags behind, and somebody is going to tell.
LEMMA BookingCommit ==
    ASSUME BookingInv, NEW c \in Calls, commit(c)
    PROVE  BookingInv'
<1>1. /\ call \in [Calls -> ChangeSet \cup {Unused}] /\ CallsFit /\ status \in RowSet
      /\ changedBy \in [Bookings -> Callers \cup {None}]
  BY DEF BookingInv, BookingsTyped
<1>2. PICK r : r = call[c]
  OBVIOUS
<1>3. /\ r.stage = "sent" /\ status[r.booking] = From(r.kind)
      /\ status' = [status EXCEPT ![r.booking] = To(r.kind)]
      /\ changedBy' = [changedBy EXCEPT ![r.booking] = r.by]
      /\ unevicted' = {x \in unevicted : x[2] # r.booking}
      /\ call' = [call EXCEPT ![c].stage = "committed"]
      /\ UNCHANGED <<cache, event, crossed, bookingPages, get>>
  BY <1>2, Zenon DEF commit
<1>4. UNCHANGED <<page, dialog, missed, outdated, refunded>>
  BY <1>3 DEF bookingPages
<1>5. r # Unused /\ CallFits(r) /\ r \in ChangeSet
  BY <1>1, <1>2, <1>3, BookingConstants DEF CallsFit, CallFits
<1>6. PICK x : x = [r EXCEPT !.stage = "committed"]
  OBVIOUS
<1>7. call' = [call EXCEPT ![c] = x]
  BY <1>1, <1>2, <1>3, <1>6
<1>8. /\ x \in ChangeSet /\ x.page = r.page /\ x.kind = r.kind /\ x.stage = "committed"
      /\ x.booking = r.booking /\ x.by = r.by /\ r.booking \in Bookings
      /\ r.kind \in {"create", "cancel", "complete"}
  BY <1>5, <1>6 DEF ChangeSet
<1>9. /\ From(r.kind) \notin Final /\ To(r.kind) # "AVAILABLE" /\ To(r.kind) \in Statuses
  BY <1>8 DEF From, To, Final, Statuses
<1>10. /\ status'[r.booking] = To(r.kind) /\ status' \in RowSet
       /\ \A b \in Bookings : b # r.booking => status'[b] = status[b]
  BY <1>1, <1>3, <1>8, <1>9 DEF RowSet
<1>11. GoesOn
  BY <1>3, <1>9, <1>10 DEF GoesOn
<1>12. CallFits(x)'
  BY <1>5, <1>8, <1>9, <1>10 DEF CallFits
<1>13. /\ call' \in [Calls -> ChangeSet \cup {Unused}] /\ CallsFit'
       /\ call'[c] = x /\ \A d \in Calls : d # c => call'[d] = call[d]
  BY <1>7, <1>11, <1>12, CallMoves
<1>14. \A q \in Pages : KeepsUp(q)
  <2>1. \A b \in Bookings : Coming(b) => Coming(b)'
    <3>1. \A d \in Calls : call[d].stage = "committed" => d # c
      BY <1>2, <1>3
    <3> QED
      BY <1>3, <1>13, <3>1, ComingKept
  <2>2. Coming(r.booking)'
    BY <1>8, <1>13 DEF Coming
  <2>3. ASSUME NEW q \in Pages, NEW b \in Bookings
        PROVE  /\ status'[b] = status[b] \/ Coming(b)'
               /\ Excused(q, b) => Excused(q, b)' \/ ~IsOpen(q)
    BY <1>4, <1>10, <2>1, <2>2 DEF Excused
  <2> QED
    BY <2>3 DEF KeepsUp
<1>15. GetsGoOn(Pages)
  BY <1>4, <1>14 DEF GetsGoOn, IsOpen
<1>16. /\ get' \in [Gets -> GetSet \cup {Unused}] /\ GetsOK' /\ OneAsk'
       /\ \A p \in Pages : Asks(p)' = Asks(p)
  BY <1>3, <1>11, <1>15, GetsSame
<1>17. \A q \in Pages : ShowsOK(q)'
  <2>1. /\ \A q \in Pages : KeepsUp(q) /\ page'[q] = page[q] /\ Asks(q)' = Asks(q)
        /\ Pages \in SUBSET Pages /\ refunded' \subseteq refunded
        /\ dialog'.open = dialog.open /\ dialog'.created = dialog.created
    BY <1>4, <1>14, <1>16
  <2> QED
    BY <1>11, <2>1, PagesKept, Zenon
<1>18. Refunds' /\ refunded' \in SUBSET Bookings
  <2>1. Refunds /\ refunded \in SUBSET Bookings
    BY DEF BookingInv, BookingsTyped
  <2> QED
    BY <1>4, <1>11, <2>1 DEF Refunds, GoesOn, Final
<1>19. DialogIsTruthful'
  <2>1. DialogIsTruthful /\ dialog \in DialogSet
    BY DEF BookingInv, BookingsTyped
  <2>2. dialog.created # None => status'[dialog.created] # "AVAILABLE"
    BY <1>11, <2>1 DEF DialogIsTruthful, DialogSet, GoesOn
  <2> QED
    BY <1>4, <2>1, <2>2 DEF DialogIsTruthful, Shown
<1>20. CachedLag' /\ cache' \in [Keys -> RowSet \cup {None}]
  <2>1. CachedLag /\ cache \in [Keys -> RowSet \cup {None}]
    BY DEF BookingInv, BookingsTyped
  <2>2. ASSUME NEW k \in Keys, cache[k] # None PROVE Lags(cache[k])'
    <3>1. PICK rows : rows = cache[k]
      OBVIOUS
    <3>2. Lags(rows)'
      BY <1>11, <2>1, <2>2, <3>1, LagsKept DEF CachedLag
    <3> QED
      BY <1>3, <3>1, <3>2
  <2> QED
    BY <1>3, <2>1, <2>2 DEF CachedLag
<1>21. EvictionCoversOwnChanges'
  <2>1. ASSUME NEW k \in Keys, NEW b \in Bookings, cache[k] # None, cache[k][b] # status'[b],
               changedBy'[b] = k[2], <<k, b>> \notin crossed, <<k[2], b>> \notin unevicted'
        PROVE  \E d \in Calls : /\ call'[d].stage \in {"committed", "published"}
                                /\ call'[d].by = k[2] /\ call'[d].booking = b
    <3>1. CASE b # r.booking
      <4>1. changedBy'[b] = changedBy[b] /\ status'[b] = status[b]
        BY <1>1, <1>3, <1>10, <3>1
      <4>2. <<k[2], b>> \notin unevicted
        BY <1>3, <2>1, <3>1
      <4>3. PICK d \in Calls : /\ call[d].stage \in {"committed", "published"}
                               /\ call[d].by = k[2] /\ call[d].booking = b
        BY <2>1, <4>1, <4>2 DEF BookingInv, EvictionCoversOwnChanges
      <4>4. d # c
        BY <1>2, <1>3, <4>3
      <4> QED
        BY <1>13, <4>3, <4>4
    <3>2. CASE b = r.booking /\ changedBy'[b] = r.by
      BY <1>8, <1>13, <2>1, <3>2
    <3>3. CASE b = r.booking /\ changedBy'[b] # r.by
      BY <1>1, <1>3, <3>3
    <3> QED
      BY <3>1, <3>2, <3>3
  <2> QED
    BY <1>3, <2>1 DEF EvictionCoversOwnChanges
<1>22. BookingsTyped'
  <2>1. page' \in [Pages -> PageSet] /\ dialog' \in DialogSet /\ event' \in SUBSET Bookings
    BY <1>3, <1>4 DEF BookingInv, BookingsTyped
  <2>2. r.by \in Callers
    BY <1>5 DEF ChangeSet
  <2>3. changedBy' \in [Bookings -> Callers \cup {None}]
    BY <1>3, <1>8, <2>2 DEF BookingInv, BookingsTyped
  <2> QED
    BY <1>10, <1>13, <1>16, <1>18, <1>20, <2>1, <2>3 DEF BookingsTyped
<1>23. PagesOK'
  BY <1>17 DEF PagesOK
<1> QED
  BY <1>13, <1>16, <1>18, <1>19, <1>20, <1>21, <1>22, <1>23 DEF BookingInv

\* The two halves of the invariant: the service and its changes, and the pages.
ServiceOK ==
    /\ status \in RowSet /\ changedBy \in [Bookings -> Callers \cup {None}]
    /\ cache \in [Keys -> RowSet \cup {None}] /\ event \in SUBSET Bookings
    /\ refunded \in SUBSET Bookings /\ call \in [Calls -> ChangeSet \cup {Unused}]
    /\ CallsFit /\ CachedLag /\ EvictionCoversOwnChanges /\ Refunds
BrowserOK ==
    /\ get \in [Gets -> GetSet \cup {Unused}] /\ GetsOK /\ OneAsk
    /\ page \in [Pages -> PageSet] /\ dialog \in DialogSet /\ PagesOK /\ DialogIsTruthful

LEMMA BookingHalves == ServiceOK' /\ BrowserOK' => BookingInv'
  BY DEF BookingInv, BookingsTyped, ServiceOK, BrowserOK

LEMMA ServiceRests ==
    ASSUME BookingInv, UNCHANGED <<bookingServer, call, refunded>>
    PROVE  /\ ServiceOK' /\ GoesOn /\ status' = status
           /\ \A b \in Bookings : Coming(b) => Coming(b)'
<1>1. UNCHANGED <<status, changedBy, cache, event, crossed, unevicted>>
  BY DEF bookingServer
<1>2. GoesOn
  BY <1>1, StatusSame
<1>3. CallsFit' /\ call' \in [Calls -> ChangeSet \cup {Unused}] /\ Carried
  BY <1>2, CallsSame
<1>4. CachedLag' /\ EvictionCoversOwnChanges' /\ cache' \in [Keys -> RowSet \cup {None}]
  BY <1>1, <1>3, CacheStays
<1>5. Refunds' /\ status' \in RowSet /\ refunded' \in SUBSET Bookings
  BY <1>1, RefundsStay
<1>6. event' \in SUBSET Bookings /\ changedBy' \in [Bookings -> Callers \cup {None}]
  BY <1>1 DEF BookingInv, BookingsTyped
<1>7. \A b \in Bookings : Coming(b) => Coming(b)'
  BY <1>1 DEF Coming
<1> QED
  BY <1>1, <1>2, <1>3, <1>4, <1>5, <1>6, <1>7 DEF ServiceOK

\* A question under way, of a page that is open.
LEMMA GetUnderWay ==
    ASSUME BookingInv, NEW g \in Gets,
           get[g].stage \in {"asked", "missed", "read", "done"} \/ get[g] # Unused
    PROVE  /\ get[g] # Unused /\ GetOK(get[g]) /\ get[g] \in GetSet
           /\ get \in [Gets -> GetSet \cup {Unused}]
<1>1. get[g] # Unused
  BY BookingConstants
<1> QED
  BY <1>1 DEF BookingInv, BookingsTyped, GetsOK, GetOK

\* A question moves on, and nothing on the pages changes.
LEMMA BrowserMoves ==
    ASSUME BookingInv, NEW g \in Gets, get[g] # Unused, NEW x, GetOK(x)',
           x.page = get[g].page, get' = [get EXCEPT ![g] = Tidy(x)],
           UNCHANGED <<status, event, call, page, dialog, missed, refunded>>,
           outdated \subseteq outdated'
    PROVE  BrowserOK'
<1>1. \A b \in Bookings : Coming(b) => Coming(b)'
  BY DEF Coming
<1>2. GoesOn /\ \A q \in Pages : KeepsUp(q)
  <2>1. \A q \in Pages, b \in Bookings :
          <<q, b>> \in missed \cup outdated => <<q, b>> \in missed' \cup outdated'
    OBVIOUS
  <2> QED
    BY <1>1, <2>1, QuietStep
<1>3. GetsGoOn(Pages)
  BY <1>2 DEF GetsGoOn, IsOpen
<1>4. /\ get' \in [Gets -> GetSet \cup {Unused}] /\ GetsOK' /\ OneAsk'
      /\ \A p \in Pages : Asks(p)' = Asks(p)
  BY <1>2, <1>3, GetMoves
<1>5. \A q \in Pages : ShowsOK(q)'
  <2>1. /\ \A q \in Pages : KeepsUp(q) /\ page'[q] = page[q] /\ Asks(q)' = Asks(q)
        /\ Pages \in SUBSET Pages /\ refunded' \subseteq refunded
        /\ dialog'.open = dialog.open /\ dialog'.created = dialog.created
    BY <1>2, <1>4
  <2> QED
    BY <1>2, <2>1, PagesKept, Zenon
<1>6. page' \in [Pages -> PageSet] /\ dialog' \in DialogSet
  BY DEF BookingInv, BookingsTyped
<1>7. DialogIsTruthful'
  BY <1>6, DialogStays
<1> QED
  BY <1>4, <1>5, <1>6, <1>7 DEF BrowserOK, PagesOK

LEMMA BookingLookUp ==
    ASSUME BookingInv, NEW g \in Gets, lookUp(g)
    PROVE  BookingInv'
<1>1. PICK r : r = get[g]
  OBVIOUS
<1>2. r.stage = "asked" /\ UNCHANGED <<bookingServer, page, dialog, missed, refunded, call>>
  BY <1>1, Zenon DEF lookUp
<1>3. r # Unused /\ GetOK(r) /\ r \in GetSet /\ get \in [Gets -> GetSet \cup {Unused}]
  BY <1>1, <1>2, GetUnderWay
<1>4. UNCHANGED <<status, event, cache>>
  BY <1>2 DEF bookingServer
<1>5. ServiceOK' /\ GoesOn
  BY <1>2, ServiceRests
<1>6. /\ r.page \in Pages \cup {"nobody"}
      /\ r.page # "nobody" => IsOpen(r.page)' /\ r.key = Question(r.page)
      /\ r.key \in Keys \cup {None}
  BY <1>2, <1>3 DEF GetOK, GetSet, IsOpen
<1>7. CASE r.key # None /\ cache[r.key] # None
  <2>1. PICK rows : rows = cache[r.key]
    OBVIOUS
  <2>2. PICK x : x = [r EXCEPT !.stage = "done", !.rows = rows]
    OBVIOUS
  <2>3. /\ get' = [get EXCEPT ![g] = Tidy(x)]
        /\ outdated' = outdated \cup OutdatedRows(g)
    BY <1>1, <1>3, <1>7, <2>1, <2>2 DEF lookUp
  <2>4. rows \in RowSet /\ Lags(rows)'
    <3>1. rows \in RowSet /\ Lags(rows)
      BY <1>6, <1>7, <2>1 DEF BookingInv, BookingsTyped, CachedLag
    <3> QED
      BY <1>5, <3>1, LagsKept
  <2>5. x \in GetSet /\ x.page = r.page /\ x.key = r.key /\ x.stage = "done" /\ x.rows = rows
    BY <1>3, <2>2, <2>4 DEF GetSet
  <2>6. ASSUME NEW b \in Bookings, r.page # "nobody", rows[b] # status'[b]
        PROVE  Excused(r.page, b)'
    <3>1. <<r.page, b>> \in OutdatedRows(g)
      BY <1>1, <1>4, <2>1, <2>6 DEF OutdatedRows
    <3> QED
      BY <2>3, <3>1 DEF Excused
  <2>7. x.page # "card"
    BY <1>6, <1>7, <2>5, BookingConstants
  <2>8. GetOK(x)'
    BY <1>6, <2>4, <2>5, <2>6, <2>7 DEF GetOK
  <2>9. BrowserOK'
    BY <1>1, <1>2, <1>3, <1>4, <2>3, <2>5, <2>8, BrowserMoves
  <2> QED
    BY <1>5, <2>9, BookingHalves
<1>8. CASE ~(r.key # None /\ cache[r.key] # None)
  <2>1. PICK x : x = [r EXCEPT !.stage = "missed"]
    OBVIOUS
  <2>2. get' = [get EXCEPT ![g] = x] /\ outdated' = outdated
    BY <1>1, <1>3, <1>8, <2>1 DEF lookUp
  <2>3. x \in GetSet /\ x.page = r.page /\ x.key = r.key /\ x.stage = "missed"
    BY <1>3, <2>1 DEF GetSet
  <2>4. GetOK(x)'
    BY <1>6, <2>3 DEF GetOK
  <2>5. Tidy(x) = x
    BY <2>3 DEF Tidy
  <2>6. get' = [get EXCEPT ![g] = Tidy(x)]
    BY <2>2, <2>5
  <2>7. BrowserOK'
    BY <1>1, <1>2, <1>3, <1>4, <2>2, <2>3, <2>4, <2>6, BrowserMoves
  <2> QED
    BY <1>5, <2>7, BookingHalves
<1> QED
  BY <1>7, <1>8

LEMMA BookingFindRows ==
    ASSUME BookingInv, NEW g \in Gets, findRows(g)
    PROVE  BookingInv'
<1>1. PICK r : r = get[g]
  OBVIOUS
<1>2. PICK next \in {"read", "done"} : next = IF r.key = None THEN "done" ELSE "read"
  OBVIOUS
<1>3. PICK x : x = [r EXCEPT !.rows = status, !.stage = next]
  OBVIOUS
<1>4. r.stage = "missed" /\ UNCHANGED <<bookingServer, bookingPages, call>>
  BY <1>1, Zenon DEF findRows
<1>5. r # Unused /\ GetOK(r) /\ r \in GetSet /\ get \in [Gets -> GetSet \cup {Unused}]
  BY <1>1, <1>4, GetUnderWay
<1>6. get' = [get EXCEPT ![g] = Tidy(x)]
  BY <1>1, <1>2, <1>3, <1>5 DEF findRows
<1>7. UNCHANGED <<status, event, page, dialog, missed, outdated, refunded>>
  BY <1>4 DEF bookingServer, bookingPages
<1>8. ServiceOK' /\ GoesOn
  BY <1>4, <1>7, ServiceRests
<1>9. /\ r.page # "nobody" => IsOpen(r.page)' /\ r.key = Question(r.page)
      /\ status \in RowSet /\ refunded \in SUBSET Bookings /\ Refunds
  BY <1>5, <1>7 DEF GetOK, IsOpen, BookingInv, BookingsTyped
<1>10. /\ x \in GetSet /\ x.page = r.page /\ x.key = r.key /\ x.stage = next
       /\ x.rows = status
  BY <1>3, <1>5, <1>9 DEF GetSet
<1>11. GetOK(x)'
  <2>1. Lags(x.rows)'
    BY <1>7, <1>10 DEF Lags
  <2>2. \A b \in refunded' : x.rows[b] = "CANCELLED"
    BY <1>7, <1>9, <1>10 DEF Refunds
  <2>3. \A b \in Bookings : x.rows[b] = status'[b]
    BY <1>7, <1>10
  <2> QED
    BY <1>2, <1>9, <1>10, <2>1, <2>2, <2>3 DEF GetOK
<1>12. outdated \subseteq outdated'
  BY <1>7
<1>13. BrowserOK'
  BY <1>1, <1>4, <1>5, <1>6, <1>7, <1>10, <1>11, <1>12, BrowserMoves
<1> QED
  BY <1>8, <1>13, BookingHalves

LEMMA BookingStoreRows ==
    ASSUME BookingInv, NEW g \in Gets, storeRows(g)
    PROVE  BookingInv'
<1>1. PICK r : r = get[g]
  OBVIOUS
<1>2. PICK x : x = [r EXCEPT !.stage = "done"]
  OBVIOUS
<1>3. /\ r.stage = "read" /\ cache' = [cache EXCEPT ![r.key] = r.rows]
      /\ crossed' = {y \in crossed : y[1] # r.key} \cup
                       {<<r.key, b>> : b \in {z \in Bookings : r.rows[z] # status[z]}}
      /\ UNCHANGED <<status, changedBy, event, unevicted, bookingPages, call>>
  BY <1>1, Zenon DEF storeRows
<1>4. r # Unused /\ GetOK(r) /\ r \in GetSet /\ get \in [Gets -> GetSet \cup {Unused}]
  BY <1>1, <1>3, GetUnderWay
<1>5. get' = [get EXCEPT ![g] = Tidy(x)]
  BY <1>1, <1>2, <1>4 DEF storeRows
<1>6. UNCHANGED <<page, dialog, missed, outdated, refunded>>
  BY <1>3 DEF bookingPages
<1>7. /\ x \in GetSet /\ x.page = r.page /\ x.key = r.key /\ x.stage = "done"
      /\ x.rows = r.rows
  BY <1>2, <1>4 DEF GetSet
<1>8. r.key \in Keys /\ r.rows \in RowSet /\ Lags(r.rows)
  BY <1>3, <1>4 DEF GetOK, GetSet
<1>9. GoesOn
  BY <1>3, StatusSame
<1>10. GetOK(r)'
  <2>1. r.page # "nobody" => IsOpen(r.page)'
    BY <1>4, <1>6 DEF GetOK, IsOpen
  <2>2. r.page # "nobody" => KeepsUp(r.page)
    <3>1. \A b \in Bookings : Coming(b) => Coming(b)'
      BY <1>3 DEF Coming
    <3>2. \A b \in Bookings : Excused(r.page, b) => Excused(r.page, b)'
      BY <1>6, <3>1 DEF Excused
    <3> QED
      BY <1>3, <3>2 DEF KeepsUp
  <2> QED
    BY <1>4, <1>6, <1>9, <2>1, <2>2, GetKept
<1>11. GetOK(x)'
  BY <1>3, <1>7, <1>10 DEF GetOK
<1>12. outdated \subseteq outdated'
  BY <1>6
<1>13. BrowserOK'
  BY <1>1, <1>3, <1>4, <1>5, <1>6, <1>7, <1>11, <1>12, BrowserMoves
<1>14. CallsFit' /\ call' \in [Calls -> ChangeSet \cup {Unused}]
  BY <1>3, <1>9, CallsSame
<1>15. Refunds' /\ status' \in RowSet /\ refunded' \in SUBSET Bookings
  BY <1>3, <1>6, RefundsStay
<1>16. /\ cache \in [Keys -> RowSet \cup {None}] /\ CachedLag /\ EvictionCoversOwnChanges
       /\ event' \in SUBSET Bookings /\ changedBy' \in [Bookings -> Callers \cup {None}]
  BY <1>3 DEF BookingInv, BookingsTyped
<1>17. /\ cache' \in [Keys -> RowSet \cup {None}] /\ cache'[r.key] = r.rows
       /\ \A k \in Keys : k # r.key => cache'[k] = cache[k]
  BY <1>3, <1>8, <1>16
<1>18. CachedLag'
  <2>1. ASSUME NEW k \in Keys, cache'[k] # None PROVE Lags(cache[k])'
    BY <1>3, <1>8, <1>16, <1>17, <2>1 DEF CachedLag, Lags
  <2> QED
    BY <2>1 DEF CachedLag
<1>19. EvictionCoversOwnChanges'
  <2>1. ASSUME NEW k \in Keys, NEW b \in Bookings, cache'[k] # None, cache'[k][b] # status[b],
               changedBy[b] = k[2], <<k, b>> \notin crossed', <<k[2], b>> \notin unevicted
        PROVE  \E d \in Calls : /\ call[d].stage \in {"committed", "published"}
                                /\ call[d].by = k[2] /\ call[d].booking = b
    <3>1. k # r.key
      BY <1>3, <1>17, <2>1
    <3>2. <<k, b>> \notin crossed
      BY <1>3, <2>1, <3>1
    <3> QED
      BY <1>16, <1>17, <2>1, <3>1, <3>2 DEF EvictionCoversOwnChanges
  <2> QED
    BY <1>3, <2>1 DEF EvictionCoversOwnChanges
<1>20. ServiceOK'
  BY <1>14, <1>15, <1>16, <1>17, <1>18, <1>19 DEF ServiceOK
<1> QED
  BY <1>13, <1>20, BookingHalves

\* The answer of a question reaches its page.
LEMMA BrowserAnswers ==
    ASSUME BookingInv, NEW g \in Gets, get[g] # Unused, NEW p \in Pages, get[g].page = p,
           NEW v \in PageSet, page' = [page EXCEPT ![p] = v], get' = Answered(g),
           UNCHANGED <<status, event, call, dialog, missed, outdated, refunded>>,
           v.status \in {"loaded", "error"}, Lags(v.rows),
           v.status = "loaded" =>
              /\ \A b \in Bookings : Excused(p, b) \/ v.rows[b] = View(p, status)[b]
              /\ p = "card" => \A b \in refunded : v.rows[b] = "CANCELLED"
    PROVE  BrowserOK'
<1>1. \A b \in Bookings : Coming(b) => Coming(b)'
  BY DEF Coming
<1>2. GoesOn /\ \A q \in Pages : KeepsUp(q)
  BY <1>1, QuietStep
<1>3. page \in [Pages -> PageSet] /\ dialog' \in DialogSet
  BY DEF BookingInv, BookingsTyped
<1>4. /\ page' \in [Pages -> PageSet] /\ page'[p] = v
      /\ \A q \in Pages \ {p} : page'[q] = page[q]
  BY <1>3
<1>5. GetsGoOn(Pages \ {p})
  BY <1>2, <1>4 DEF GetsGoOn, IsOpen
<1>6. /\ get' \in [Gets -> GetSet \cup {Unused}] /\ GetsOK' /\ OneAsk'
      /\ Asks(p)' = {} /\ \A q \in Pages \ {p} : Asks(q)' = Asks(q)
  BY <1>2, <1>5, GetAnswered
<1>7. \A q \in Pages \ {p} : ShowsOK(q)'
  <2>1. /\ \A q \in Pages \ {p} : KeepsUp(q) /\ page'[q] = page[q] /\ Asks(q)' = Asks(q)
        /\ Pages \ {p} \in SUBSET Pages /\ refunded' \subseteq refunded
        /\ dialog'.open = dialog.open /\ dialog'.created = dialog.created
    BY <1>2, <1>4, <1>6
  <2> QED
    BY <1>2, <2>1, PagesKept, Zenon
<1>8. ShowsOK(p)'
  <2>1. Lags(page[p].rows)'
    BY <1>4 DEF Lags
  <2>2. Waits(p)' /\ Balanced(p)'
    BY <1>4 DEF Waits, Balanced, Shown
  <2>3. \A b \in Bookings : Excused(p, b) => Excused(p, b)'
    BY <1>1 DEF Excused
  <2>4. Settled(p)'
    BY <1>4, <2>3 DEF Settled, Shown
  <2> QED
    BY <1>6, <2>1, <2>2, <2>4 DEF ShowsOK
<1>9. DialogIsTruthful'
  <2>1. CASE p = "dialog"
    <3>1. g \in Asks(p)
      BY DEF Asks
    <3>2. page[p].status # "loaded"
      BY <2>1, <3>1 DEF BookingInv, PagesOK, ShowsOK
    <3>3. dialog.selected = None
      BY <2>1, <3>2 DEF BookingInv, DialogIsTruthful
    <3> QED
      BY <1>3, <3>3, DialogStays
  <2>2. CASE p # "dialog"
    <3>1. page'["dialog"] = page["dialog"]
      BY <1>4, <2>2, BookingConstants
    <3> QED
      BY <1>3, <3>1, DialogStays
  <2> QED
    BY <2>1, <2>2
<1> QED
  BY <1>3, <1>4, <1>6, <1>7, <1>8, <1>9 DEF BrowserOK, PagesOK

LEMMA BookingApplyLoad ==
    ASSUME BookingInv, NEW g \in Gets, applyLoad(g)
    PROVE  BookingInv'
<1>1. PICK r : r = get[g]
  OBVIOUS
<1>2. PICK p : p = r.page
  OBVIOUS
<1>3. PICK v : v = [status |-> "loaded", rows |-> View(p, r.rows)]
  OBVIOUS
<1>4. /\ r.stage \in {"read", "done"} /\ p # "nobody" /\ page' = [page EXCEPT ![p] = v]
      /\ get' = Answered(g)
      /\ UNCHANGED <<bookingServer, dialog, missed, outdated, refunded, call>>
  BY <1>1, <1>2, <1>3, Zenon DEF applyLoad
<1>5. r # Unused /\ GetOK(r) /\ r \in GetSet
  BY <1>1, <1>4, GetUnderWay
<1>6. /\ p \in Pages /\ r.rows \in RowSet /\ Lags(r.rows)
      /\ \A b \in Bookings : r.rows[b] = status[b] \/ Excused(p, b)
      /\ p = "card" => \A b \in refunded : r.rows[b] = "CANCELLED"
  BY <1>2, <1>4, <1>5 DEF GetOK, GetSet
<1>7. /\ View(p, r.rows) \in [Bookings -> Statuses \cup {None}]
      /\ \A b \in Bookings : View(p, r.rows)[b] = r.rows[b] \/ View(p, r.rows)[b] = None
      /\ p \notin {"upcoming", "dialog"} =>
           \A b \in Bookings : r.rows[b] \in Final => View(p, r.rows)[b] = r.rows[b]
      /\ \A other : \A b \in Bookings :
           r.rows[b] = other[b] => View(p, r.rows)[b] = View(p, other)[b]
  BY <1>6, ViewsOfRows
<1>8. v \in PageSet /\ v.status = "loaded" /\ v.rows = View(p, r.rows)
  BY <1>3, <1>7 DEF PageSet, PageStates
<1>9. Lags(v.rows)
  BY <1>6, <1>7, <1>8, BookingConstants DEF Lags
<1>10. \A b \in Bookings : Excused(p, b) \/ v.rows[b] = View(p, status)[b]
  BY <1>6, <1>7, <1>8
<1>11. p = "card" => \A b \in refunded : v.rows[b] = "CANCELLED"
  <2>1. refunded \in SUBSET Bookings /\ "CANCELLED" \in Final
    BY DEF BookingInv, BookingsTyped, Final
  <2> QED
    BY <1>6, <1>7, <1>8, <2>1
<1>12. UNCHANGED <<status, event>>
  BY <1>4 DEF bookingServer
<1>13. BrowserOK'
  BY <1>1, <1>2, <1>4, <1>5, <1>6, <1>8, <1>9, <1>10, <1>11, <1>12, BrowserAnswers
<1>14. ServiceOK'
  BY <1>4, ServiceRests
<1> QED
  BY <1>13, <1>14, BookingHalves

LEMMA BookingFailLoad ==
    ASSUME BookingInv, NEW g \in Gets, failLoad(g)
    PROVE  BookingInv'
<1>1. PICK r : r = get[g]
  OBVIOUS
<1>2. PICK p : p = r.page
  OBVIOUS
<1>3. PICK v : v = [status |-> "error", rows |-> NoRows]
  OBVIOUS
<1>4. /\ r # Unused /\ p # "nobody" /\ page' = [page EXCEPT ![p] = v]
      /\ get' = Answered(g)
      /\ UNCHANGED <<bookingServer, dialog, missed, outdated, refunded, call>>
  BY <1>1, <1>2, <1>3, Zenon DEF failLoad
<1>5. GetOK(r) /\ r \in GetSet
  BY <1>1, <1>4, GetUnderWay
<1>6. p \in Pages
  BY <1>2, <1>4, <1>5 DEF GetSet
<1>7. v \in PageSet /\ v.status = "error" /\ v.rows = NoRows
  BY <1>3, BookingConstants DEF PageSet, PageStates
<1>8. Lags(v.rows)
  BY <1>7, BookingConstants DEF Lags
<1>9. UNCHANGED <<status, event>>
  BY <1>4 DEF bookingServer
<1>10. BrowserOK'
  BY <1>1, <1>2, <1>4, <1>6, <1>7, <1>8, <1>9, BrowserAnswers
<1>11. ServiceOK'
  BY <1>4, ServiceRests
<1> QED
  BY <1>10, <1>11, BookingHalves

\* A page asks again.
LEMMA PageAsks ==
    ASSUME BookingInv, GoesOn, NEW p \in Pages, NEW g \in Gets, GetsGoOn(Pages \ {p}),
           get[g] = Unused, get' = Asking(p, g), IsOpen(p)', page'[p].rows = page[p].rows,
           p = "dialog" => page'[p].status # "loaded"
    PROVE  /\ get' \in [Gets -> GetSet \cup {Unused}] /\ GetsOK' /\ OneAsk'
           /\ ShowsOK(p)' /\ \A q \in Pages \ {p} : Asks(q)' = Asks(q)
<1>1. /\ get' \in [Gets -> GetSet \cup {Unused}] /\ GetsOK' /\ OneAsk'
      /\ Asks(p)' = {g} /\ \A q \in Pages \ {p} : Asks(q)' = Asks(q)
  BY GetAsked
<1>2. Lags(page[p].rows)'
  BY RowsLagOn
<1>3. Asks(p)' # {}
  BY <1>1
<1>4. Waits(p)' /\ Settled(p)' /\ Balanced(p)'
  BY <1>3 DEF Waits, Settled, Balanced
<1>5. ShowsOK(p)'
  BY <1>2, <1>4 DEF ShowsOK
<1> QED
  BY <1>1, <1>5

LEMMA BrowserAsks ==
    ASSUME BookingInv, GoesOn, NEW p \in Pages, NEW g \in Gets, get[g] = Unused,
           get' = Asking(p, g), \A q \in Pages \ {p} : KeepsUp(q) /\ page'[q] = page[q],
           page' \in [Pages -> PageSet], page'[p].rows = page[p].rows, IsOpen(p)',
           p = "dialog" => page'[p].status # "loaded", refunded' = refunded,
           dialog' \in DialogSet, DialogIsTruthful',
           dialog'.open = dialog.open \/ p = "dialog", dialog'.created = dialog.created
    PROVE  BrowserOK'
<1>1. GetsGoOn(Pages \ {p})
  BY DEF GetsGoOn, IsOpen
<1>2. /\ get' \in [Gets -> GetSet \cup {Unused}] /\ GetsOK' /\ OneAsk'
      /\ ShowsOK(p)' /\ \A q \in Pages \ {p} : Asks(q)' = Asks(q)
  BY <1>1, PageAsks
<1>3. \A q \in Pages \ {p} : ShowsOK(q)'
  <2>1. /\ \A q \in Pages \ {p} : KeepsUp(q) /\ page'[q] = page[q] /\ Asks(q)' = Asks(q)
        /\ Pages \ {p} \in SUBSET Pages /\ refunded' \subseteq refunded
        /\ "dialog" \in Pages \ {p} =>
              (dialog'.open = dialog.open /\ dialog'.created = dialog.created)
    BY <1>2
  <2> QED
    BY <2>1, PagesKept, Zenon
<1> QED
  BY <1>2, <1>3 DEF BrowserOK, PagesOK

LEMMA BookingRetry ==
    ASSUME BookingInv, NEW p \in Pages, NEW g \in Gets, retry(p, g)
    PROVE  BookingInv'
<1>1. /\ page[p].status = "error" /\ page' = [page EXCEPT ![p].status = "loading"]
      /\ dialog' = IF p = "dialog" THEN [dialog EXCEPT !.error = FALSE, !.selected = None]
                   ELSE dialog
      /\ Ask(p, g) /\ UNCHANGED <<bookingServer, refunded, call>>
  BY Zenon DEF retry
<1>2. ServiceOK' /\ GoesOn /\ status' = status /\ \A b \in Bookings : Coming(b) => Coming(b)'
  BY <1>1, ServiceRests
<1>3. \A q \in Pages \ {p} : KeepsUp(q)
  <2>1. \A q \in Pages \ {p}, b \in Bookings :
           <<q, b>> \in missed \cup outdated => <<q, b>> \in missed' \cup outdated'
    BY <1>1, AskKeeps
  <2> QED
    BY <1>2, <2>1, QuietStep
<1>4. page \in [Pages -> PageSet] /\ dialog \in DialogSet
  BY DEF BookingInv, BookingsTyped
<1>5. /\ page' \in [Pages -> PageSet] /\ page'[p].rows = page[p].rows
      /\ page'[p].status = "loading" /\ \A q \in Pages \ {p} : page'[q] = page[q]
  BY <1>1, <1>4 DEF PageSet, PageStates
<1>6. IsOpen(p)'
  BY <1>5 DEF IsOpen
<1>7. get[g] = Unused /\ get' = Asking(p, g)
  BY <1>1 DEF Ask
<1>8. /\ dialog' \in DialogSet /\ dialog'.open = dialog.open
      /\ dialog'.created = dialog.created
      /\ dialog'.selected = None \/ (p # "dialog" /\ dialog'.selected = dialog.selected)
  BY <1>1, <1>4 DEF DialogSet
<1>9. DialogIsTruthful'
  BY <1>2, <1>5, <1>8, BookingConstants, DialogStays
<1>10. BrowserOK'
  BY <1>1, <1>2, <1>3, <1>5, <1>6, <1>7, <1>8, <1>9, BrowserAsks
<1> QED
  BY <1>2, <1>10, BookingHalves

LEMMA BookingHandleEvent ==
    ASSUME BookingInv, NEW b \in Bookings, NEW p \in Pages, NEW g \in Gets,
           handleEvent(b, p, g)
    PROVE  BookingInv'
<1>1. /\ Listens(p) /\ event' = event \ {b} /\ get[g] = Unused /\ get' = Asking(p, g)
      /\ missed' = {x \in MissedByAll(b) : x[1] # p}
      /\ outdated' = {x \in outdated : x[1] # p}
      /\ UNCHANGED <<status, changedBy, cache, crossed, unevicted, refunded, call>>
  BY Zenon DEF handleEvent
<1>2. /\ p = "dialog" => /\ page' = [page EXCEPT ![p].status = "loading"]
                         /\ dialog' = reloadSlots
      /\ p # "dialog" => page' = page /\ dialog' = dialog
  BY DEF handleEvent
<1>3. GoesOn
  BY <1>1, StatusSame
<1>4. CallsFit' /\ call' \in [Calls -> ChangeSet \cup {Unused}] /\ Carried
  BY <1>1, <1>3, CallsSame
<1>5. CachedLag' /\ EvictionCoversOwnChanges' /\ cache' \in [Keys -> RowSet \cup {None}]
  BY <1>1, <1>4, CacheStays
<1>6. Refunds' /\ status' \in RowSet /\ refunded' \in SUBSET Bookings
  BY <1>1, RefundsStay
<1>7. ServiceOK'
  <2>1. event' \in SUBSET Bookings /\ changedBy' \in [Bookings -> Callers \cup {None}]
    BY <1>1 DEF BookingInv, BookingsTyped
  <2> QED
    BY <1>4, <1>5, <1>6, <2>1 DEF ServiceOK
<1>8. \A q \in Pages \ {p} : KeepsUp(q)
  <2>1. PICK M : M = MissedByAll(b)
    OBVIOUS
  <2>2. missed \subseteq M /\ \A q \in Pages : IsOpen(q) => <<q, b>> \in M
    BY <2>1 DEF MissedByAll
  <2>3. ASSUME NEW q \in Pages \ {p}, NEW y \in Bookings
        PROVE  /\ <<q, y>> \in M => <<q, y>> \in missed'
               /\ <<q, y>> \in outdated => <<q, y>> \in outdated'
    BY <1>1, <2>1, AskingKeepsTheOthers
  <2>4. \A y \in Bookings : y # b => (Coming(y) => Coming(y)')
    BY <1>1 DEF Coming
  <2>5. \A y \in Bookings : \/ Coming(y) => Coming(y)'
                            \/ \A q \in Pages \ {p} : IsOpen(q) => <<q, y>> \in missed'
    BY <2>2, <2>3, <2>4
  <2>6. \A q \in Pages \ {p}, y \in Bookings :
           <<q, y>> \in missed \cup outdated => <<q, y>> \in missed' \cup outdated'
    BY <2>2, <2>3
  <2> QED
    BY <1>1, <2>5, <2>6, QuietStep
<1>9. page \in [Pages -> PageSet] /\ dialog \in DialogSet /\ IsOpen(p)
  BY <1>1 DEF BookingInv, BookingsTyped, Listens, useBookingRealtime,
              useOrganizationBookingRealtime, IsOpen
<1>10. /\ page' \in [Pages -> PageSet] /\ page'[p].rows = page[p].rows
       /\ p = "dialog" => page'[p].status = "loading"
       /\ \A q \in Pages \ {p} : page'[q] = page[q]
  BY <1>2, <1>9 DEF PageSet, PageStates
<1>11. IsOpen(p)'
  BY <1>2, <1>9, <1>10 DEF IsOpen
<1>12. /\ dialog' \in DialogSet /\ dialog'.open = dialog.open
       /\ dialog'.created = dialog.created
       /\ dialog'.selected = None \/ (p # "dialog" /\ dialog'.selected = dialog.selected)
  BY <1>2, <1>9 DEF DialogSet, reloadSlots
<1>13. DialogIsTruthful'
  BY <1>1, <1>10, <1>12, BookingConstants, DialogStays
<1>14. BrowserOK'
  BY <1>1, <1>3, <1>8, <1>10, <1>11, <1>12, <1>13, BrowserAsks
<1> QED
  BY <1>7, <1>14, BookingHalves

\* The dialog changes, and the other pages do not.
LEMMA BrowserTurns ==
    ASSUME BookingInv, GoesOn, \A q \in Pages \ {"dialog"} : KeepsUp(q) /\ page'[q] = page[q],
           get' \in [Gets -> GetSet \cup {Unused}], GetsOK', OneAsk',
           \A q \in Pages \ {"dialog"} : Asks(q)' = Asks(q),
           page' \in [Pages -> PageSet], ShowsOK("dialog")', refunded' = refunded,
           dialog' \in DialogSet, DialogIsTruthful'
    PROVE  BrowserOK'
<1>1. \A q \in Pages \ {"dialog"} : ShowsOK(q)'
  <2>1. /\ \A q \in Pages \ {"dialog"} :
              KeepsUp(q) /\ page'[q] = page[q] /\ Asks(q)' = Asks(q)
        /\ Pages \ {"dialog"} \in SUBSET Pages /\ refunded' \subseteq refunded
        /\ "dialog" \notin Pages \ {"dialog"}
    OBVIOUS
  <2> QED
    BY <2>1, PagesKept, Zenon
<1> QED
  BY <1>1 DEF BrowserOK, PagesOK

\* The dialog waits, although it does not ask: it is closed or has its booking.
LEMMA BrowserRests ==
    ASSUME BookingInv, GoesOn, \A q \in Pages : KeepsUp(q), get' = get,
           \A q \in Pages \ {"dialog"} : page'[q] = page[q],
           page' \in [Pages -> PageSet], page'["dialog"].rows = page["dialog"].rows,
           page'["dialog"].status = "loading", refunded' = refunded,
           dialog' \in DialogSet, DialogIsTruthful',
           ~dialog'.open \/ dialog'.created # None
    PROVE  BrowserOK'
<1>1. GetsGoOn(Pages)
  BY DEF GetsGoOn, IsOpen
<1>2. /\ get' \in [Gets -> GetSet \cup {Unused}] /\ GetsOK' /\ OneAsk'
      /\ \A p \in Pages : Asks(p)' = Asks(p)
  BY <1>1, GetsSame
<1>3. "dialog" \in Pages
  BY BookingConstants
<1>4. Lags(page["dialog"].rows)'
  BY <1>3, RowsLagOn
<1>5. ShowsOK("dialog")'
  BY <1>3, <1>4, NotYetShown
<1> QED
  BY <1>2, <1>5, BrowserTurns

LEMMA BookingOpenDialog ==
    ASSUME BookingInv, NEW g \in Gets, openDialog(g)
    PROVE  BookingInv'
<1>1. /\ IsOpen("dialog") /\ ~dialog.open
      /\ dialog' = [dialog EXCEPT !.open = TRUE, !.selected = None]
      /\ page' = [page EXCEPT !["dialog"].status = "loading"]
      /\ dialog.created = None => Ask("dialog", g)
      /\ dialog.created # None => UNCHANGED <<get, missed, outdated>>
      /\ UNCHANGED <<bookingServer, refunded, call>>
  BY DEF openDialog
<1>2. ServiceOK' /\ GoesOn /\ status' = status /\ \A b \in Bookings : Coming(b) => Coming(b)'
  BY <1>1, ServiceRests
<1>3. page \in [Pages -> PageSet] /\ dialog \in DialogSet /\ "dialog" \in Pages
  BY BookingConstants DEF BookingInv, BookingsTyped
<1>4. /\ page' \in [Pages -> PageSet] /\ page'["dialog"].rows = page["dialog"].rows
      /\ page'["dialog"].status = "loading"
      /\ \A q \in Pages \ {"dialog"} : page'[q] = page[q]
  BY <1>1, <1>3 DEF PageSet, PageStates
<1>5. IsOpen("dialog")'
  BY <1>4 DEF IsOpen
<1>6. /\ dialog' \in DialogSet /\ dialog'.created = dialog.created
      /\ dialog'.selected = None
  BY <1>1, <1>3 DEF DialogSet
<1>7. DialogIsTruthful'
  BY <1>2, <1>6, DialogStays
<1>8. CASE dialog.created = None
  <2>1. \A q \in Pages \ {"dialog"}, b \in Bookings :
           <<q, b>> \in missed \cup outdated => <<q, b>> \in missed' \cup outdated'
    BY <1>1, <1>8, AskKeeps
  <2>2. \A q \in Pages \ {"dialog"} : KeepsUp(q)
    BY <1>2, <2>1, QuietStep
  <2>3. get[g] = Unused /\ get' = Asking("dialog", g)
    BY <1>1, <1>8 DEF Ask
  <2>4. BrowserOK'
    BY <1>1, <1>2, <1>3, <1>4, <1>5, <1>6, <1>7, <2>2, <2>3, BrowserAsks
  <2> QED
    BY <1>2, <2>4, BookingHalves
<1>9. CASE dialog.created # None
  <2>1. \A q \in Pages : KeepsUp(q)
    BY <1>1, <1>2, <1>9, QuietStep
  <2>2. BrowserOK'
    BY <1>1, <1>2, <1>4, <1>6, <1>7, <1>9, <2>1, BrowserRests
  <2> QED
    BY <1>2, <2>2, BookingHalves
<1> QED
  BY <1>8, <1>9

LEMMA BookingCloseDialog ==
    ASSUME BookingInv, closeDialog
    PROVE  BookingInv'
<1>1. /\ dialog' = [dialog EXCEPT !.open = FALSE, !.selected = None, !.error = FALSE,
                                  !.created = None]
      /\ page' = [page EXCEPT !["dialog"] = [status |-> "idle", rows |-> NoRows]]
      /\ get' = Abort("dialog")
      /\ UNCHANGED <<bookingServer, missed, outdated, refunded, call>>
  BY Zenon DEF closeDialog
<1>2. ServiceOK' /\ GoesOn /\ status' = status /\ \A b \in Bookings : Coming(b) => Coming(b)'
  BY <1>1, ServiceRests
<1>3. page \in [Pages -> PageSet] /\ dialog \in DialogSet /\ "dialog" \in Pages
  BY BookingConstants DEF BookingInv, BookingsTyped
<1>4. /\ page' \in [Pages -> PageSet] /\ page'["dialog"].rows = NoRows
      /\ page'["dialog"].status = "idle"
      /\ \A q \in Pages \ {"dialog"} : page'[q] = page[q]
  BY <1>1, <1>3, BookingConstants DEF PageSet, PageStates
<1>5. \A q \in Pages : KeepsUp(q)
  BY <1>1, <1>2, QuietStep
<1>6. GetsGoOn(Pages \ {"dialog"})
  BY <1>1, <1>4, <1>5 DEF GetsGoOn, IsOpen
<1>7. /\ get' \in [Gets -> GetSet \cup {Unused}] /\ GetsOK' /\ OneAsk'
      /\ \A q \in Pages \ {"dialog"} : Asks(q)' = Asks(q)
  BY <1>1, <1>2, <1>3, <1>6, GetAborted
<1>8. ShowsOK("dialog")'
  <2>1. Lags(page["dialog"].rows)'
    BY <1>4, NoRowsLag
  <2> QED
    BY <1>2, <1>3, <1>4, <2>1, NotYetShown
<1>9. /\ dialog' \in DialogSet /\ dialog'.created = None /\ dialog'.selected = None
  BY <1>1, <1>3 DEF DialogSet
<1>10. DialogIsTruthful'
  BY <1>9 DEF DialogIsTruthful
<1>11. BrowserOK'
  BY <1>1, <1>2, <1>4, <1>5, <1>7, <1>8, <1>9, <1>10, BrowserTurns
<1> QED
  BY <1>2, <1>11, BookingHalves

\* A change is answered: it is no longer under way.
LEMMA ServiceAnswers ==
    ASSUME BookingInv, NEW c \in Calls, call[c].stage \notin {"committed", "published"},
           call' = [call EXCEPT ![c] = Unused], UNCHANGED bookingServer,
           refunded' \in SUBSET Bookings, Refunds'
    PROVE  /\ ServiceOK' /\ GoesOn /\ status' = status
           /\ \A b \in Bookings : Coming(b) => Coming(b)'
<1>1. UNCHANGED <<status, changedBy, cache, event, crossed, unevicted>>
  BY DEF bookingServer
<1>2. GoesOn
  BY <1>1, StatusSame
<1>3. PICK x : x = Unused
  OBVIOUS
<1>4. /\ call' \in [Calls -> ChangeSet \cup {Unused}] /\ CallsFit'
      /\ \A d \in Calls : d # c => call'[d] = call[d]
  BY <1>2, <1>3, CallMoves
<1>5. Carried
  BY <1>4 DEF Carried
<1>6. CachedLag' /\ EvictionCoversOwnChanges' /\ cache' \in [Keys -> RowSet \cup {None}]
  BY <1>1, <1>5, CacheStays
<1>7. /\ event' \in SUBSET Bookings /\ changedBy' \in [Bookings -> Callers \cup {None}]
      /\ status' \in RowSet
  BY <1>1 DEF BookingInv, BookingsTyped
<1>8. \A d \in Calls : call[d].stage = "committed" => d # c
  OBVIOUS
<1>9. \A b \in Bookings : Coming(b) => Coming(b)'
  BY <1>1, <1>4, <1>8, ComingKept
<1> QED
  BY <1>1, <1>2, <1>4, <1>6, <1>7, <1>9 DEF ServiceOK

LEMMA BookingAnswerBooking ==
    ASSUME BookingInv, NEW c \in Calls, answerBooking(c)
    PROVE  BookingInv'
<1>1. PICK b : b = call[c].booking
  OBVIOUS
<1>2. /\ call[c].stage = "evicted"
      /\ dialog' = [dialog EXCEPT !.created = b, !.submitting = FALSE]
      /\ get' = Abort("dialog") /\ call' = [call EXCEPT ![c] = Unused]
      /\ UNCHANGED <<bookingServer, page, missed, outdated, refunded>>
  BY <1>1, Zenon DEF answerBooking
<1>3. b \in Bookings /\ status[b] # "AVAILABLE" /\ b # None
  <2>1. call[c] # Unused /\ CallFits(call[c])
    BY <1>2, BookingConstants DEF BookingInv, CallsFit
  <2> QED
    BY <1>1, <1>2, <2>1, BookingConstants DEF CallFits, ChangeSet
<1>4. UNCHANGED <<status, event>>
  BY <1>2 DEF bookingServer
<1>5. Refunds' /\ refunded' \in SUBSET Bookings
  BY <1>2, <1>4, RefundsStay
<1>6. ServiceOK' /\ GoesOn /\ status' = status /\ \A y \in Bookings : Coming(y) => Coming(y)'
  BY <1>2, <1>5, ServiceAnswers
<1>7. \A q \in Pages : KeepsUp(q)
  BY <1>2, <1>6, QuietStep
<1>8. GetsGoOn(Pages \ {"dialog"})
  BY <1>2, <1>7 DEF GetsGoOn, IsOpen
<1>9. /\ get' \in [Gets -> GetSet \cup {Unused}] /\ GetsOK' /\ OneAsk'
      /\ Asks("dialog")' = {}
      /\ \A q \in Pages \ {"dialog"} : Asks(q)' = Asks(q)
  BY <1>2, <1>6, <1>8, BookingConstants, GetAborted
<1>10. page \in [Pages -> PageSet] /\ dialog \in DialogSet /\ "dialog" \in Pages
  BY BookingConstants DEF BookingInv, BookingsTyped
<1>11. /\ dialog' \in DialogSet /\ dialog'.created = b
       /\ dialog'.selected = dialog.selected
  BY <1>2, <1>3, <1>10 DEF DialogSet
<1>12. ShowsOK("dialog")'
  <2>1. Lags(page["dialog"].rows)'
    BY <1>2, <1>6, <1>10, RowsLagOn
  <2>2. Waits("dialog")' /\ Settled("dialog")' /\ Balanced("dialog")'
    BY <1>3, <1>11 DEF Waits, Settled, Balanced
  <2> QED
    BY <1>9, <2>1, <2>2 DEF ShowsOK
<1>13. DialogIsTruthful'
  BY <1>2, <1>3, <1>6, <1>11 DEF BookingInv, DialogIsTruthful, Shown
<1>14. page' \in [Pages -> PageSet] /\ refunded' = refunded
       /\ \A q \in Pages \ {"dialog"} : KeepsUp(q) /\ page'[q] = page[q]
  BY <1>2, <1>7, <1>10
<1>15. BrowserOK'
  BY <1>6, <1>9, <1>11, <1>12, <1>13, <1>14, BrowserTurns
<1> QED
  BY <1>6, <1>15, BookingHalves

LEMMA BookingRefused ==
    ASSUME BookingInv, NEW c \in Calls, NEW g \in Gets, refusedBooking(c, g)
    PROVE  BookingInv'
<1>1. /\ call[c].stage = "refused"
      /\ dialog' = [dialog EXCEPT !.error = TRUE, !.submitting = FALSE, !.selected = None]
      /\ page' = [page EXCEPT !["dialog"].status = "loading"]
      /\ dialog.open => Ask("dialog", g)
      /\ ~dialog.open => UNCHANGED <<get, missed, outdated>>
      /\ call' = [call EXCEPT ![c] = Unused]
      /\ UNCHANGED <<bookingServer, refunded>>
  BY DEF refusedBooking
<1>2. UNCHANGED <<status, event>>
  BY <1>1 DEF bookingServer
<1>3. Refunds' /\ refunded' \in SUBSET Bookings
  BY <1>1, <1>2, RefundsStay
<1>4. ServiceOK' /\ GoesOn /\ status' = status /\ \A y \in Bookings : Coming(y) => Coming(y)'
  BY <1>1, <1>3, ServiceAnswers
<1>5. page \in [Pages -> PageSet] /\ dialog \in DialogSet /\ "dialog" \in Pages
  BY BookingConstants DEF BookingInv, BookingsTyped
<1>6. /\ page' \in [Pages -> PageSet] /\ page'["dialog"].rows = page["dialog"].rows
      /\ page'["dialog"].status = "loading"
      /\ \A q \in Pages \ {"dialog"} : page'[q] = page[q]
  BY <1>1, <1>5 DEF PageSet, PageStates
<1>7. IsOpen("dialog")'
  BY <1>6 DEF IsOpen
<1>8. /\ dialog' \in DialogSet /\ dialog'.created = dialog.created
      /\ dialog'.open = dialog.open /\ dialog'.selected = None
  BY <1>1, <1>5 DEF DialogSet
<1>9. DialogIsTruthful'
  BY <1>4, <1>8, DialogStays
<1>10. CASE dialog.open
  <2>1. \A q \in Pages \ {"dialog"}, b \in Bookings :
           <<q, b>> \in missed \cup outdated => <<q, b>> \in missed' \cup outdated'
    BY <1>1, <1>10, AskKeeps
  <2>2. \A q \in Pages \ {"dialog"} : KeepsUp(q)
    BY <1>4, <2>1, QuietStep
  <2>3. get[g] = Unused /\ get' = Asking("dialog", g)
    BY <1>1, <1>10 DEF Ask
  <2>4. BrowserOK'
    BY <1>1, <1>4, <1>5, <1>6, <1>7, <1>8, <1>9, <2>2, <2>3, BrowserAsks
  <2> QED
    BY <1>4, <2>4, BookingHalves
<1>11. CASE ~dialog.open
  <2>1. \A q \in Pages : KeepsUp(q)
    BY <1>1, <1>4, <1>11, QuietStep
  <2>2. BrowserOK'
    BY <1>1, <1>4, <1>6, <1>8, <1>9, <1>11, <2>1, BrowserRests
  <2> QED
    BY <1>4, <2>2, BookingHalves
<1> QED
  BY <1>10, <1>11

\* A row is replaced by what the answer to a change says.
LEMMA RowIsReplaced ==
    ASSUME BookingInv, GoesOn, status' = status, NEW p \in Pages,
           p \in {"mine", "org", "history"}, KeepsUp(p), Asks(p)' = Asks(p),
           NEW b \in Bookings, NEW s \in Final, status[b] = s,
           page' = handleBookingUpdated(p, b, s)
    PROVE  ShowsOK(p)'
<1>1. /\ page \in [Pages -> PageSet] /\ status \in RowSet /\ ShowsOK(p)
      /\ p \notin {"upcoming", "dialog", "card"}
  BY DEF BookingInv, BookingsTyped, PagesOK
<1>2. CASE page' = page
  BY <1>1, <1>2, ShowsKept
<1>3. CASE page' # page
  <2>1. page[p].status = "loaded" /\ page' = [page EXCEPT ![p].rows[b] = s]
    BY <1>3 DEF handleBookingUpdated
  <2>2. PICK v \in PageSet : v = page[p]
    BY <1>1
  <2>3. /\ page'[p].status = "loaded" /\ page'[p].rows = [v.rows EXCEPT ![b] = s]
        /\ v.rows \in [Bookings -> Statuses \cup {None}]
    BY <1>1, <2>1, <2>2 DEF PageSet
  <2>4. page'[p].rows[b] = s /\ \A y \in Bookings : y # b => page'[p].rows[y] = v.rows[y]
    BY <2>3
  <2>5. Lags(page[p].rows)'
    <3>1. Lags(v.rows)
      BY <1>1, <2>2 DEF ShowsOK
    <3> QED
      BY <2>4, <3>1 DEF Lags
  <2>6. Settled(p)'
    <3>1. ASSUME NEW y \in Bookings, Asks(p) = {}, ~Excused(p, y)'
          PROVE  page'[p].rows[y] = View(p, status)[y]
      <4>1. CASE y = b
        BY <1>1, <2>4, <4>1, ViewsOfRows
      <4>2. CASE y # b
        <5>1. IsOpen(p)
          BY <2>1 DEF IsOpen
        <5>2. ~Excused(p, y)
          BY <3>1, <5>1 DEF KeepsUp
        <5>3. Shown(p, y) = View(p, status)[y]
          BY <1>1, <2>1, <3>1, <5>2 DEF ShowsOK, Settled
        <5> QED
          BY <2>2, <2>4, <4>2, <5>3 DEF Shown
      <4> QED
        BY <4>1, <4>2
    <3> QED
      BY <3>1 DEF Settled, Shown
  <2>7. Waits(p)' /\ Balanced(p)'
    BY <1>1, <2>3 DEF Waits, Balanced
  <2> QED
    BY <1>1, <2>5, <2>6, <2>7 DEF ShowsOK
<1> QED
  BY <1>2, <1>3

LEMMA BookingAnswerChange ==
    ASSUME BookingInv, NEW c \in Calls, NEW g \in Gets, answerChange(c, g)
    PROVE  BookingInv'
<1>1. PICK r : r = call[c]
  OBVIOUS
<1>2. PICK p : p = r.page
  OBVIOUS
<1>3. PICK b : b = r.booking
  OBVIOUS
<1>4. PICK s : s = To(r.kind)
  OBVIOUS
<1>5. /\ r.stage = "evicted" /\ p \notin {"nobody", "dialog"}
      /\ page' = handleBookingUpdated(p, b, s) /\ call' = [call EXCEPT ![c] = Unused]
      /\ refunded' = IF p = "mine" THEN refunded \cup {b} ELSE refunded
      /\ refreshBalance(c, g) /\ UNCHANGED <<bookingServer, dialog>>
  BY <1>1, <1>2, <1>3, <1>4, Zenon DEF answerChange
<1>6. r # Unused /\ CallFits(r) /\ r \in ChangeSet
  BY <1>1, <1>5, BookingConstants DEF BookingInv, CallsFit, CallFits
<1>7. /\ p \in {"mine", "org", "history"} /\ r.kind \in {"cancel", "complete"}
      /\ p = "mine" => r.kind = "cancel"
      /\ b \in Bookings /\ status[b] = s
  BY <1>2, <1>3, <1>4, <1>5, <1>6 DEF CallFits, ChangeSet
<1>8. p \in Pages /\ p # "card" /\ s \in Final /\ (p = "mine" => s = "CANCELLED")
  BY <1>4, <1>7 DEF Pages, To, Final
<1>9. UNCHANGED <<status, event>>
  BY <1>5 DEF bookingServer
<1>10. Refunds' /\ refunded' \in SUBSET Bookings
  BY <1>5, <1>7, <1>8, <1>9 DEF BookingInv, BookingsTyped, Refunds
<1>11. ServiceOK' /\ GoesOn /\ status' = status /\ \A y \in Bookings : Coming(y) => Coming(y)'
  BY <1>1, <1>5, <1>10, ServiceAnswers
<1>12. page \in [Pages -> PageSet] /\ dialog' \in DialogSet
  BY <1>5 DEF BookingInv, BookingsTyped
<1>13. s \in Statuses
  BY <1>8, BookingConstants
<1>14. /\ page' \in [Pages -> PageSet] /\ page'[p].status = page[p].status
       /\ \A q \in Pages \ {p} : page'[q] = page[q]
  BY <1>5, <1>7, <1>8, <1>12, <1>13 DEF handleBookingUpdated, PageSet
<1>15. \A q \in Pages : IsOpen(q) => IsOpen(q)'
  BY <1>14 DEF IsOpen
<1>16. DialogIsTruthful'
  <2>1. page'["dialog"] = page["dialog"]
    BY <1>5, <1>14, BookingConstants
  <2> QED
    BY <1>5, <1>9, <1>12, <2>1, DialogStays
<1>17. dialog'.open = dialog.open /\ dialog'.created = dialog.created
  BY <1>5
<1>18. CASE p = "mine" /\ IsOpen("card")
  <2>1. Ask("card", g)
    BY <1>1, <1>2, <1>5, <1>18 DEF refreshBalance
  <2>2. \A q \in Pages \ {"card"}, y \in Bookings :
           <<q, y>> \in missed \cup outdated => <<q, y>> \in missed' \cup outdated'
    BY <2>1, AskKeeps
  <2>3. \A q \in Pages \ {"card"} : KeepsUp(q)
    BY <1>11, <2>2, QuietStep
  <2>4. GetsGoOn(Pages \ {"card"})
    BY <1>15, <2>3 DEF GetsGoOn
  <2>5. /\ get[g] = Unused /\ get' = Asking("card", g) /\ "card" \in Pages
        /\ page'["card"] = page["card"]
    BY <1>8, <1>14, <2>1, BookingConstants DEF Ask
  <2>6. /\ get' \in [Gets -> GetSet \cup {Unused}] /\ GetsOK' /\ OneAsk'
        /\ ShowsOK("card")' /\ \A q \in Pages \ {"card"} : Asks(q)' = Asks(q)
    BY <1>11, <1>15, <1>18, <2>4, <2>5, PageAsks
  <2>7. \A q \in Pages \ {"card", p} : ShowsOK(q)'
    <3>1. /\ \A q \in Pages \ {"card", p} :
                KeepsUp(q) /\ page'[q] = page[q] /\ Asks(q)' = Asks(q)
          /\ Pages \ {"card", p} \in SUBSET Pages /\ "card" \notin Pages \ {"card", p}
      BY <1>14, <2>3, <2>6
    <3> QED
      BY <1>11, <1>17, <3>1, PagesKept, Zenon
  <2>8. ShowsOK(p)'
    BY <1>5, <1>7, <1>8, <1>11, <2>3, <2>6, RowIsReplaced
  <2>9. BrowserOK'
    BY <1>12, <1>14, <1>16, <2>6, <2>7, <2>8 DEF BrowserOK, PagesOK
  <2> QED
    BY <1>11, <2>9, BookingHalves
<1>19. CASE ~(p = "mine" /\ IsOpen("card"))
  <2>1. UNCHANGED <<get, missed, outdated>>
    BY <1>1, <1>2, <1>5, <1>19 DEF refreshBalance
  <2>2. \A q \in Pages : KeepsUp(q)
    BY <1>11, <2>1, QuietStep
  <2>3. refunded' \subseteq refunded \/ ~IsOpen("card")
    BY <1>5, <1>19
  <2>4. GetsGoOn(Pages)
    BY <1>15, <2>2, <2>3 DEF GetsGoOn
  <2>5. /\ get' \in [Gets -> GetSet \cup {Unused}] /\ GetsOK' /\ OneAsk'
        /\ \A q \in Pages : Asks(q)' = Asks(q)
    BY <1>11, <2>1, <2>4, GetsSame
  <2>6. \A q \in Pages \ {p} : ShowsOK(q)'
    <3>1. /\ \A q \in Pages \ {p} : KeepsUp(q) /\ page'[q] = page[q] /\ Asks(q)' = Asks(q)
          /\ Pages \ {p} \in SUBSET Pages
      BY <1>14, <2>2, <2>5
    <3> QED
      BY <1>11, <1>17, <2>3, <3>1, PagesKept, Zenon
  <2>7. ShowsOK(p)'
    BY <1>5, <1>7, <1>8, <1>11, <2>2, <2>5, RowIsReplaced
  <2>8. BrowserOK'
    BY <1>12, <1>14, <1>16, <2>5, <2>6, <2>7 DEF BrowserOK, PagesOK
  <2> QED
    BY <1>11, <2>8, BookingHalves
<1> QED
  BY <1>18, <1>19

\* The browser leaves: nobody waits for anything any more.
LEMMA BookingLeave ==
    ASSUME BookingInv, NEW p \in Pages, leaveForLogin(p)
    PROVE  BookingInv'
<1>1. /\ page' = [q \in Pages |-> IF IsOpen(q) THEN [status |-> "left", rows |-> NoRows]
                                  ELSE page[q]]
      /\ get' = [g \in Gets |-> IF get[g] = Unused THEN Unused
                                ELSE Tidy([get[g] EXCEPT !.page = "nobody"])]
      /\ call' = [c \in Calls |-> IF call[c] = Unused THEN Unused
                                  ELSE [call[c] EXCEPT !.page = "nobody"]]
      /\ dialog' = NewDialog
      /\ UNCHANGED <<bookingServer, missed, outdated, refunded>>
  BY Zenon DEF leaveForLogin
<1>2. UNCHANGED <<status, changedBy, cache, event, crossed, unevicted>>
  BY <1>1 DEF bookingServer
<1>3. GoesOn
  BY <1>2, StatusSame
<1>4. /\ page \in [Pages -> PageSet] /\ get \in [Gets -> GetSet \cup {Unused}]
      /\ call \in [Calls -> ChangeSet \cup {Unused}] /\ PagesOK /\ CallsFit
  BY DEF BookingInv, BookingsTyped
<1>5. ASSUME NEW c \in Calls, call[c] # Unused
      PROVE  /\ call'[c] \in ChangeSet /\ CallFits(call[c])'
             /\ call'[c].stage = call[c].stage /\ call'[c].by = call[c].by
             /\ call'[c].booking = call[c].booking
  <2>1. PICK r \in ChangeSet : r = call[c]
    BY <1>4, <1>5
  <2>2. PICK x : x = [r EXCEPT !.page = "nobody"]
    OBVIOUS
  <2>3. call'[c] = x
    BY <1>1, <1>5, <2>1, <2>2
  <2>4. /\ x \in ChangeSet /\ x.page = "nobody" /\ x.kind = r.kind /\ x.stage = r.stage
        /\ x.by = r.by /\ x.booking = r.booking
    BY <2>1, <2>2 DEF ChangeSet
  <2>5. CallFits(r)
    BY <1>4, <1>5, <2>1 DEF CallsFit
  <2>6. CallFits(x)'
    BY <1>2, <2>4, <2>5 DEF CallFits
  <2> QED
    BY <2>1, <2>3, <2>4, <2>6
<1>6. \A c \in Calls : call[c] = Unused => call'[c] = Unused
  BY <1>1
<1>7. CallsFit' /\ call' \in [Calls -> ChangeSet \cup {Unused}]
  <2>1. \A c \in Calls : call'[c] = Unused \/ (call'[c] \in ChangeSet /\ CallFits(call[c])')
    BY <1>5, <1>6
  <2>2. call' = [c \in Calls |-> call'[c]]
    BY <1>1
  <2> QED
    BY <2>1, <2>2 DEF CallsFit
<1>8. Carried
  BY <1>5, BookingConstants DEF Carried
<1>9. CachedLag' /\ EvictionCoversOwnChanges' /\ cache' \in [Keys -> RowSet \cup {None}]
  BY <1>2, <1>8, CacheStays
<1>10. Refunds' /\ status' \in RowSet /\ refunded' \in SUBSET Bookings
  BY <1>1, <1>2, RefundsStay
<1>11. ServiceOK'
  <2>1. event' \in SUBSET Bookings /\ changedBy' \in [Bookings -> Callers \cup {None}]
    BY <1>2 DEF BookingInv, BookingsTyped
  <2> QED
    BY <1>7, <1>9, <1>10, <2>1 DEF ServiceOK
<1>12. ASSUME NEW g \in Gets, get[g] # Unused
       PROVE  /\ get'[g] \in GetSet \cup {Unused}
              /\ get'[g] = Unused \/ (/\ get'[g] = [get[g] EXCEPT !.page = "nobody"]
                                      /\ get'[g].page = "nobody")
  <2>1. PICK r \in GetSet : r = get[g]
    BY <1>4, <1>12
  <2>2. PICK x : x = [r EXCEPT !.page = "nobody"]
    OBVIOUS
  <2>3. /\ x.page = "nobody" /\ (Tidy(x) = x \/ Tidy(x) = Unused)
        /\ Tidy(x) \in GetSet \cup {Unused}
    BY <2>2, TidyNobody
  <2>4. get'[g] = Tidy(x)
    BY <1>1, <1>12, <2>1, <2>2
  <2> QED
    BY <2>1, <2>2, <2>3, <2>4
<1>13. \A g \in Gets : get[g] = Unused => get'[g] = Unused
  BY <1>1
<1>14. get' \in [Gets -> GetSet \cup {Unused}]
  <2>1. \A g \in Gets : get'[g] \in GetSet \cup {Unused}
    BY <1>12, <1>13
  <2>2. get' = [g \in Gets |-> get'[g]]
    BY <1>1
  <2> QED
    BY <2>1, <2>2
<1>15. GetsOK'
  <2>1. \A h \in Gets :
          \/ get'[h] = Unused
          \/ get[h] # Unused /\ get'[h] = [get[h] EXCEPT !.page = "nobody"]
    BY <1>12, <1>13
  <2>2. GetsGoOn({}) /\ {} \in SUBSET Pages
    BY DEF GetsGoOn
  <2> QED
    BY <1>3, <2>1, <2>2, GetsFollow, Zenon
<1>16. \A q \in Pages : Asks(q)' = {}
  <2>1. \A g \in Gets : get'[g] = Unused \/ get'[g].page = "nobody"
    BY <1>12, <1>13
  <2> QED
    BY <2>1, BookingConstants DEF Asks
<1>17. OneAsk'
  <2>1. \A q \in Pages : \A g, h \in Asks(q)' : g = h
    BY <1>16
  <2> QED
    BY <2>1 DEF OneAsk
<1>18. page' \in [Pages -> PageSet]
  BY <1>1, <1>4, BookingConstants DEF PageSet, PageStates
<1>19. ASSUME NEW q \in Pages PROVE ShowsOK(q)'
  <2>1. page'[q].status \in {"closed", "left"}
    BY <1>1 DEF IsOpen
  <2>2. CASE page'[q].rows = NoRows
    <3>1. Lags(page[q].rows)'
      BY <2>2, NoRowsLag
    <3> QED
      BY <1>3, <2>1, <3>1, NotYetShown
  <2>3. CASE page'[q].rows = page[q].rows
    <3>1. Lags(page[q].rows)'
      BY <1>3, <2>3, RowsLagOn
    <3> QED
      BY <1>3, <2>1, <3>1, NotYetShown
  <2> QED
    BY <1>1, <2>2, <2>3
<1>20. dialog' \in DialogSet /\ DialogIsTruthful'
  BY <1>1 DEF NewDialog, DialogSet, DialogIsTruthful
<1>21. BrowserOK'
  BY <1>14, <1>15, <1>17, <1>18, <1>19, <1>20 DEF BrowserOK, PagesOK
<1> QED
  BY <1>11, <1>21, BookingHalves

LEMMA BookingStutter ==
    ASSUME BookingInv, UNCHANGED bookingVars
    PROVE  BookingInv'
<1>1. UNCHANGED <<bookingServer, page, get, call, dialog, missed, outdated, refunded>>
  BY DEF bookingVars, bookingPages
<1>2. UNCHANGED <<status, changedBy, event>>
  BY <1>1 DEF bookingServer
<1>3. ServiceOK' /\ \A b \in Bookings : Coming(b) => Coming(b)'
  BY <1>1, ServiceRests
<1>4. /\ dialog' \in DialogSet /\ dialog'.open = dialog.open
      /\ dialog'.created = dialog.created /\ dialog'.selected = dialog.selected
      /\ page'["dialog"] = page["dialog"]
  BY <1>1, DialogTyped
<1>5. DialogIsTruthful'
  BY <1>2, <1>4, DialogStays
<1>6. \A b \in Bookings : \/ Coming(b) => Coming(b)'
                          \/ \A q \in Pages : IsOpen(q) => <<q, b>> \in missed'
  BY <1>3
<1> QED
  BY <1>1, <1>2, <1>3, <1>4, <1>5, <1>6, PagesUntouched DEF ServiceOK

LEMMA BookingInitInv == BookingInit => BookingInv
<1> SUFFICES ASSUME BookingInit PROVE BookingInv
  OBVIOUS
<1>1. /\ status \in [Bookings -> {"AVAILABLE", "CONFIRMED"}]
      /\ changedBy = [b \in Bookings |-> None] /\ cache = [k \in Keys |-> None]
      /\ dialog = NewDialog /\ call = [c \in Calls |-> Unused] /\ event = {}
      /\ refunded = {}
  BY DEF BookingInit
<1>2. PICK open \in PageSets :
          /\ page = [p \in Pages |-> NewPage(open, p)]
          /\ \E f \in [open \ {"dialog"} -> Gets] :
                /\ \A p, q \in open \ {"dialog"} : p # q => f[p] # f[q]
                /\ get = [g \in Gets |->
                       IF \E p \in open \ {"dialog"} : f[p] = g
                       THEN LET p == CHOOSE p \in open \ {"dialog"} : f[p] = g
                            IN  [page |-> p, key |-> Question(p), stage |-> "asked",
                                 rows |-> None]
                       ELSE Unused]
  BY Zenon DEF BookingInit
<1>3. PICK f \in [open \ {"dialog"} -> Gets] :
          /\ \A p, q \in open \ {"dialog"} : p # q => f[p] # f[q]
          /\ get = [g \in Gets |->
                 IF \E p \in open \ {"dialog"} : f[p] = g
                 THEN LET p == CHOOSE p \in open \ {"dialog"} : f[p] = g
                      IN  [page |-> p, key |-> Question(p), stage |-> "asked",
                           rows |-> None]
                 ELSE Unused]
  BY <1>2, Zenon
<1>4. open \in SUBSET Pages
  BY BookingPagesAssumption
<1>5. ASSUME NEW p \in open \ {"dialog"}
      PROVE  get[f[p]] = [page |-> p, key |-> Question(p), stage |-> "asked", rows |-> None]
  <2>1. (CHOOSE q \in open \ {"dialog"} : f[q] = f[p]) = p
    <3>1. \A q \in open \ {"dialog"} : f[q] = f[p] => q = p
      BY <1>3
    <3> QED
      BY <3>1
  <2>2. f[p] \in Gets
    BY <1>3
  <2> QED
    BY <1>3, <2>1, <2>2
<1>6. \A g \in Gets : get[g] = Unused \/ \E p \in open \ {"dialog"} : f[p] = g
  BY <1>3
<1>7. ASSUME NEW p \in open \ {"dialog"}
      PROVE  /\ get[f[p]] \in GetSet /\ get[f[p]].page = p /\ get[f[p]].key = Question(p)
             /\ get[f[p]].stage = "asked" /\ f[p] \in Gets /\ p \in Pages
             /\ get[f[p]] # Unused
  <2>1. p \in Pages /\ f[p] \in Gets
    BY <1>3, <1>4
  <2>2. Question(p) \in Keys \cup {None}
    BY <2>1, BookingConstants
  <2>3. PICK n : n = [page |-> p, key |-> Question(p), stage |-> "asked", rows |-> None]
    OBVIOUS
  <2>4. n \in GetSet /\ n.page = p /\ n.key = Question(p) /\ n.stage = "asked"
    BY <2>1, <2>2, <2>3 DEF GetSet
  <2> QED
    BY <1>5, <2>1, <2>3, <2>4, BookingConstants
<1>8. get \in [Gets -> GetSet \cup {Unused}]
  <2>1. \A g \in Gets : get[g] \in GetSet \cup {Unused}
    BY <1>6, <1>7
  <2>2. get = [g \in Gets |-> get[g]]
    BY <1>3
  <2> QED
    BY <2>1, <2>2
<1>9. \A p \in Pages : page[p] = NewPage(open, p) /\ page[p].rows = NoRows
  BY <1>2 DEF NewPage
<1>10. /\ \A p \in open \ {"dialog"} : page[p].status = "loading"
       /\ \A p \in Pages : page[p].status = "loading" => p \in open \ {"dialog"}
       /\ \A p \in Pages : page[p].status \in {"closed", "idle", "loading"}
  <2>1. ASSUME NEW p \in Pages
        PROVE  page[p].status = IF p \notin open THEN "closed"
                                ELSE IF p = "dialog" THEN "idle" ELSE "loading"
    BY <1>2 DEF NewPage
  <2> QED
    BY <1>4, <2>1
<1>11. page \in [Pages -> PageSet]
  <2>1. \A p \in Pages : NewPage(open, p) \in PageSet
    BY BookingConstants DEF NewPage, PageSet, PageStates
  <2> QED
    BY <1>2, <2>1
<1>12. status \in RowSet /\ dialog \in DialogSet
  BY <1>1 DEF RowSet, Statuses, NewDialog, DialogSet
<1>13. BookingsTyped
  BY <1>1, <1>8, <1>11, <1>12 DEF BookingsTyped
<1>14. GetsOK
  <2>1. ASSUME NEW p \in open \ {"dialog"} PROVE GetOK(get[f[p]])
    <3>1. IsOpen(p)
      BY <1>10 DEF IsOpen
    <3> QED
      BY <1>7, <3>1 DEF GetOK
  <2> QED
    BY <1>6, <2>1 DEF GetsOK
<1>15. OneAsk
  <2>1. ASSUME NEW p \in Pages, NEW g \in Asks(p) PROVE p \in open \ {"dialog"} /\ g = f[p]
    <3>1. g \in Gets /\ get[g] # Unused /\ get[g].page = p
      BY DEF Asks
    <3>2. PICK q \in open \ {"dialog"} : f[q] = g
      BY <1>6, <3>1
    <3> QED
      BY <1>7, <3>1, <3>2
  <2> QED
    BY <2>1 DEF OneAsk
<1>16. CallsFit /\ CachedLag /\ EvictionCoversOwnChanges /\ Refunds
  BY <1>1 DEF CallsFit, CachedLag, EvictionCoversOwnChanges, Refunds
<1>17. ASSUME NEW p \in Pages PROVE ShowsOK(p)
  <2>1. Lags(page[p].rows)
    BY <1>9, BookingConstants DEF Lags
  <2>2. Waits(p)
    <3>1. ASSUME page[p].status = "loading" PROVE Asks(p) # {}
      <4>1. f[p] \in Asks(p)
        BY <1>7, <1>10, <3>1 DEF Asks
      <4> QED
        BY <4>1
    <3> QED
      BY <3>1 DEF Waits
  <2>3. Settled(p) /\ Balanced(p)
    BY <1>10 DEF Settled, Balanced
  <2> QED
    BY <1>10, <2>1, <2>2, <2>3 DEF ShowsOK
<1>18. DialogIsTruthful
  BY <1>1 DEF DialogIsTruthful, NewDialog
<1> QED
  BY <1>13, <1>14, <1>15, <1>16, <1>17, <1>18 DEF BookingInv, PagesOK

THEOREM BookingInvariance == BookingSpec => []BookingInv
<1>1. BookingInv /\ [BookingNext]_bookingVars => BookingInv'
  BY BookingStutter, BookingLookUp, BookingFindRows, BookingStoreRows, BookingApplyLoad,
     BookingFailLoad, BookingOpenDialog, BookingRetry, BookingHandleEvent,
     BookingAnswerChange, BookingRefused, BookingExpire, BookingLeave, BookingMissEvent,
     BookingCommit, BookingRefuse, BookingEvict, BookingAnswerBooking, BookingFailChange,
     BookingServiceDies, BookingSubmitBooking, BookingPublish, BookingSubmitCancellation,
     BookingMarkAsComplete, BookingChangeElsewhere, BookingCloseDialog, BookingOnSelect, Zenon
     DEF BookingNext
<1> QED
  BY <1>1, BookingInitInv, PTL DEF BookingSpec

LEMMA BookingsRun == DashboardSpec => BookingSpec
<1>1. DashboardInit => BookingInit
  BY DEF DashboardInit
<1>2. [DashboardNext]_dashboardVars => [BookingNext]_bookingVars
  BY DEF DashboardNext, dashboardVars
<1> QED
  BY <1>1, <1>2, PTL DEF DashboardSpec, BookingSpec

\* For any bookings, pages that are open together and faults, what a page or the cache
\* shows as over is over, a user's own changes are not hidden by the cache without a
\* cause, and a page that waits for nothing is behind the database only because it
\* missed an event or was answered from the cache.
THEOREM BookingListsStayTruthful == DashboardSpec => []BookingListsAreTruthful
<1>1. BookingInv => BookingListsAreTruthful
  <2> SUFFICES ASSUME BookingInv PROVE BookingListsAreTruthful
    OBVIOUS
  <2>1. BookingTypeOK
    BY DEF BookingInv, BookingsTyped, RowSet, PageSet, DialogSet, BookingTypeOK
  <2>2. ShownFinalIsFinal
    BY DEF BookingInv, PagesOK, ShowsOK, Lags, Final, Shown, ShownFinalIsFinal
  <2>3. StalenessHasACause
    <3>1. ASSUME NEW p \in Pages, page[p].status = "loaded", p # "card", NEW b \in Bookings,
                 ~UnderWay(p, b), p = "dialog" => dialog.created = None,
                 <<p, b>> \notin missed \cup outdated
          PROVE  Shown(p, b) = View(p, status)[b]
      <4>1. Asks(p) = {} /\ ~Excused(p, b)
        BY <3>1 DEF UnderWay, Excused, Coming
      <4>2. Settled(p)
        BY DEF BookingInv, PagesOK, ShowsOK
      <4> QED
        BY <3>1, <4>1, <4>2 DEF Settled
    <3> QED
      BY <3>1 DEF StalenessHasACause
  <2>4. EvictionCoversOwnChanges
    BY DEF BookingInv
  <2> QED
    BY <2>1, <2>2, <2>3, <2>4 DEF BookingListsAreTruthful
<1> QED
  BY <1>1, BookingsRun, BookingInvariance, PTL

\* For any bookings, pages and faults, whoever sees a page load waits for a request that
\* is under way, the balance follows the cancellations that the list was told of, and the
\* dialog confirms only what is booked and offers only what it shows.
THEOREM BookingPagesStaySettled == DashboardSpec => []BookingPagesSettle
<1>1. BookingInv => BookingPagesSettle
  <2> SUFFICES ASSUME BookingInv PROVE BookingPagesSettle
    OBVIOUS
  <2>1. \A p \in Pages : Waits(p) /\ Balanced(p)
    BY DEF BookingInv, PagesOK, ShowsOK
  <2>2. NobodyWaitsInVain
    BY <2>1, BookingConstants DEF Waits, NobodyWaitsInVain
  <2>3. BalanceFollowsCancellations
    BY <2>1, BookingConstants DEF Balanced, BalanceFollowsCancellations
  <2>4. DialogIsTruthful
    BY DEF BookingInv
  <2> QED
    BY <2>2, <2>3, <2>4 DEF BookingPagesSettle
<1> QED
  BY <1>1, BookingsRun, BookingInvariance, PTL

-----------------------------------------------------------------------------
(* The forms of a resource                                                 *)

Minutes == FormNotices \cup {0}
Details ==
    [text : Texts, notice : Minutes, allowed : SUBSET FormOrgs, status : {"ACTIVE", "INACTIVE"},
     image : {"old", "new"}]
Ratings == {0, 1, 2}
TimeRanges == [startsAt : Nat, endsAt : Nat]

\* Why the details of the cache are not those of the row.
SameButStatus(details, row) == details.text = row.text /\ details.notice = row.notice
                               /\ details.allowed = row.allowed /\ details.image = row.image
DetailsOK ==
    stored # NoDetails /\ stored # resource =>
        \/ others = "committed" \/ job.stage = "committed" \/ "race" \in blame \/ "died" \in blame
        \/ "mark" \in blame /\ SameButStatus(stored, resource)
RowsOK ==
    /\ resource \in Details /\ FormOwner \in resource.allowed
    /\ stored \in Details \cup {NoDetails} /\ storing \in Details \cup {NoDetails}
    /\ adminOf \in SUBSET FormOrgs /\ formFaults \in Nat
    /\ others \in {"idle", "committed"}

\* A form that waits for its data.
BareForm == [status : {"loading", "error", "denied"}]
LoadJobs == [kind : {"load"}, stage : {"sent", "read"}, data : Details \cup {NoDetails}]
AccessJobs == [kind : {"access"}, stage : {"sent"}, data : {NoDetails}]
ImageJobs ==
    [kind : {"delete", "image"}, stage : {"sent", "committed", "done"},
     data : {NoDetails} \cup [owner : FormOrgs]]

\* The edit form has the notice of the details it came from, and unless it was
\* touched their other fields; so has what it saves, which is what it had then.
Saved ==
    [owner : FormOrgs, text : Texts, allowed : SUBSET FormOrgs, notice : Minutes,
     image : BOOLEAN, touched : BOOLEAN]
SaveJobs == [kind : {"save"}, stage : {"sent", "committed", "done"}, data : Saved]
EditForm ==
    [status : {"loaded", "left"}, submitting : BOOLEAN, error : BOOLEAN, done : BOOLEAN,
     text : Texts, notice : {splitNotice(n) : n \in Minutes}, allowed : SUBSET FormOrgs,
     image : BOOLEAN, refused : Nat, base : Details, touched : BOOLEAN]
FieldsOK(f) ==
    /\ f.notice = splitNotice(f.base.notice)
    /\ ~f.touched => f.text = f.base.text /\ f.allowed = f.base.allowed
SavesItsBase(f, j) ==
    j \in SaveJobs =>
        /\ j.data.notice = f.base.notice
        /\ ~j.data.touched => j.data.text = f.base.text /\ j.data.allowed = f.base.allowed
EditOK(f, j) ==
    \/ /\ f \in BareForm /\ j \in LoadJobs \cup {NoJob}
       /\ j.stage = "read" => j.data \in Details
    \/ /\ f \in EditForm /\ FieldsOK(f) /\ SavesItsBase(f, j)
       /\ j \in SaveJobs \cup ImageJobs \cup {NoJob} /\ (j # NoJob => f.submitting)

\* The creation form counts the resources that it made.
CreateJobs ==
    [kind : {"create"}, stage : {"sent", "committed", "done"},
     data : [owner : FormOrgs, allowed : SUBSET (FormOrgs \cup {0}), image : BOOLEAN]]
CreateForm ==
    [status : {"loaded"}, submitting : BOOLEAN, error : BOOLEAN, done : BOOLEAN,
     owners : SUBSET FormOrgs, owner : FormOrgs \cup {0}, allowed : SUBSET (FormOrgs \cup {0}),
     image : BOOLEAN, refused : Nat, admins : SUBSET FormOrgs]
MadeOne(f, j) == f.done \/ j.kind = "image" \/ (j.kind = "create" /\ j.stage # "sent")
CreateOK(f, j, m, failed) ==
    \/ f \in BareForm /\ (j = NoJob \/ j \in AccessJobs) /\ m = 0
    \/ /\ f \in CreateForm /\ m \in Nat
       /\ f.owners = {o \in FormOrgs : canActivate(f.admins, o)}
       /\ \/ j = NoJob
          \/ j \in CreateJobs /\ f.submitting /\ ~f.done
          \/ j \in ImageJobs /\ j.kind = "image" /\ f.submitting /\ ~f.done
       /\ m <= failed + f.refused + (IF MadeOne(f, j) THEN 1 ELSE 0)

\* The reviews know the user's rating, unless it was changed elsewhere.
AskJobs == [kind : {"reviews"}, stage : {"sent"}, data : {NoDetails}]
ReviewJobs == [kind : {"reviews"}, stage : {"read"}, data : Ratings]
RateJobs == [kind : {"rate"}, stage : {"sent", "done"}, data : Ratings \ {0}]
ReviewForm ==
    [status : {"loading", "error", "loaded"}, submitting : BOOLEAN, error : BOOLEAN, mine : Ratings,
     told : Ratings, elsewhere : BOOLEAN]
ReviewsOK(f, j, m) ==
    /\ f \in ReviewForm /\ m \in Ratings
    /\ \/ j = NoJob
       \/ j.kind = "reviews" /\ j.stage = "sent" /\ j \in AskJobs
       \/ j.kind = "reviews" /\ j.stage = "read" /\ j \in ReviewJobs
       \/ j.kind = "rate" /\ j \in RateJobs
    /\ j.kind = "rate" => f.told = 0
    /\ ~f.elsewhere =>
         /\ f.told # 0 => f.told = m
         /\ j.stage \in {"done", "read"} => j.data = m
         /\ (f.status = "loaded" /\ f.told # 0) => f.mine = f.told

\* The dialog of slots confirms what was published.
SlotJobs == [kind : {"slot"}, stage : {"sent", "permitted", "done"}, data : TimeRanges]
SlotForm ==
    [open : BOOLEAN, range : TimeRanges, submitting : BOOLEAN, error : BOOLEAN,
     created : TimeRanges, status : {"ready"}, at : Nat, touched : BOOLEAN]
Before(r, s) == r.endsAt <= s.startsAt
SlotsOK(f, j, published, now) ==
    /\ f \in SlotForm /\ now \in Nat /\ f.at <= now
    /\ j = NoJob \/ j \in SlotJobs
    /\ \A s \in published : s.range \in TimeRanges
    /\ \A s, t \in published : s # t => Before(s.range, t.range) \/ Before(t.range, s.range)
    /\ f.created # NoRange => \E s \in published : s.range = f.created
    /\ j \in SlotJobs /\ j.stage = "done" => \E s \in published : s.range = j.data
    /\ f.open /\ f.at = now /\ ~f.touched =>
         f.range.startsAt > now /\ f.range.endsAt > f.range.startsAt

FormInv ==
    /\ screen \in {"edit", "create", "reviews", "slots"} /\ RowsOK /\ DetailsOK
    /\ screen = "edit" => EditOK(form, job)
    /\ screen = "create" => CreateOK(form, job, made, formFaults)
    /\ screen = "reviews" => ReviewsOK(form, job, made)
    /\ screen = "slots" => SlotsOK(form, job, slots, clock)

LEMMA FormFacts ==
    /\ FormOrgs \subseteq Nat \ {0} /\ 1 \in FormOrgs /\ Minutes \subseteq Nat
    /\ \A o \in FormOrgs : ParentOf[o] \in FormOrgs \cup {0} /\ ParentOf[o] < o
    /\ NoDetails \notin Details /\ NoDetails.text = "none"
    /\ NoJob.kind = "none" /\ NoJob.stage = "none" /\ FormOwner \in FormOrgs
<1>1. /\ FormOrgs \subseteq Nat \ {0} /\ 1 \in FormOrgs /\ Minutes \subseteq Nat
      /\ \A o \in FormOrgs : ParentOf[o] \in FormOrgs \cup {0} /\ ParentOf[o] < o
  BY ResourceFormsAssumption DEF Minutes
<1>2. NoDetails.text = "none"
  BY DEF NoDetails
<1>3. NoDetails \notin Details
  BY <1>2 DEF Details, Texts
<1> QED
  BY <1>1, <1>2, <1>3 DEF NoJob, FormOwner

\* Weeks, days, hours and minutes add up to the notice that was split.
LEMMA NoticeAddsUp ==
    ASSUME NEW n \in Nat
    PROVE  totalCancellationNoticeMinutes(splitNotice(n)) = n
<1> DEFINE weeks == n \div WEEK
           withoutWeeks == n - weeks * WEEK
           days == withoutWeeks \div DAY
           withoutDays == withoutWeeks - days * DAY
           hours == withoutDays \div 60
<1>1. WEEK = 10080 /\ DAY = 1440
  BY DEF WEEK, DAY
<1>2. weeks \in Int /\ withoutWeeks \in Int
  BY <1>1
<1>3. days \in Int /\ withoutDays \in Int
  BY <1>1, <1>2
<1>4. hours \in Int
  BY <1>3
<1>5. splitNotice(n) = [weeks |-> weeks, days |-> days, hours |-> hours,
                        minutes |-> withoutDays - hours * 60]
  BY DEF splitNotice
<1>6. (withoutDays - hours * 60) + hours * 60 + days * DAY + weeks * WEEK = n
  <2> HIDE DEF weeks, days, hours
  <2> QED
    BY <1>1, <1>2, <1>3, <1>4
<1> HIDE DEF weeks, withoutWeeks, days, withoutDays, hours
<1> QED
  BY <1>5, <1>6 DEF totalCancellationNoticeMinutes

\* A finite set of numbers has a bound, and so a greatest element.
LEMMA FormOrgsAreBounded == \E m \in Nat : \A o \in FormOrgs : o <= m
<1>1. IsFiniteSet(FormOrgs) /\ FormOrgs \subseteq Nat
  BY ResourceFormsAssumption
<1>2. PICK n \in Nat : \E f : f \in Bijection(1 .. n, FormOrgs)
  BY <1>1, FS_NatBijection DEF ExistsBijection
<1>3. PICK f : f \in Bijection(1 .. n, FormOrgs)
  BY <1>2
<1>4. f \in [1 .. n -> FormOrgs] /\ \A o \in FormOrgs : \E i \in 1 .. n : f[i] = o
  BY <1>3 DEF Bijection, Surjection, Injection
<1>5. PICK Good : Good = {k \in Nat : k <= n => \E m \in Nat : \A i \in 1 .. k : f[i] <= m}
  OBVIOUS
<1>6. 0 \in Good
  <2>1. \A i \in 1 .. 0 : f[i] <= 0
    OBVIOUS
  <2> QED
    BY <1>5, <2>1
<1>7. ASSUME NEW k \in Nat, k \in Good PROVE k + 1 \in Good
  <2> SUFFICES ASSUME k + 1 <= n PROVE \E m \in Nat : \A i \in 1 .. (k + 1) : f[i] <= m
    BY <1>5
  <2>1. PICK m \in Nat : \A i \in 1 .. k : f[i] <= m
    BY <1>5, <1>7
  <2>2. f[k + 1] \in Nat
    <3>1. k + 1 \in 1 .. n
      OBVIOUS
    <3> QED
      BY <1>1, <1>4, <3>1
  <2>3. PICK e \in Nat : e = f[k + 1]
    BY <2>2
  <2>4. PICK w \in Nat : m <= w /\ e <= w
    BY <2>3
  <2>5. ASSUME NEW i \in 1 .. (k + 1) PROVE f[i] <= w
    <3>1. CASE i = k + 1
      BY <2>3, <2>4, <3>1
    <3>2. CASE i # k + 1
      <4>1. i \in 1 .. k /\ i \in 1 .. n
        BY <3>2
      <4>2. f[i] <= m /\ f[i] \in Nat
        BY <1>1, <1>4, <2>1, <4>1
      <4> QED
        BY <2>4, <4>2
    <3> QED
      BY <3>1, <3>2
  <2> QED
    BY <2>5
<1>8. n \in Good
  <2> SUFFICES ASSUME n \notin Good PROVE FALSE
    OBVIOUS
  <2>1. PICK Bad : Bad = Nat \ Good
    OBVIOUS
  <2>2. Bad \in SUBSET Nat /\ Bad # {}
    BY <2>1
  <2>3. PICK k \in Bad : \A x \in Bad : k <= x
    BY <2>2, LeastNumber
  <2>4. k \in Nat /\ k # 0
    BY <1>6, <2>1, <2>2, <2>3
  <2>5. k - 1 \in Nat /\ k - 1 \notin Bad /\ (k - 1) + 1 = k
    BY <2>3, <2>4
  <2> QED
    BY <1>7, <2>1, <2>3, <2>5
<1>9. PICK m \in Nat : \A i \in 1 .. n : f[i] <= m
  BY <1>5, <1>8
<1> QED
  BY <1>4, <1>9

LEMMA GreatestOrganization ==
    ASSUME NEW S \in SUBSET FormOrgs, S # {}
    PROVE  \E x \in S : \A y \in S : y <= x
<1>1. PICK m \in Nat : \A o \in FormOrgs : o <= m
  BY FormOrgsAreBounded
<1>2. S \subseteq Nat
  BY FormFacts
<1>7. PICK D : D = {d \in Nat : d <= m /\ m - d \in S}
  OBVIOUS
<1>3. D # {} /\ D \in SUBSET Nat
  <2>1. PICK x \in S : TRUE
    OBVIOUS
  <2>2. x \in Nat /\ x <= m /\ m - x \in Nat /\ m - x <= m /\ m - (m - x) = x
    BY <1>1, <1>2, <2>1
  <2> QED
    BY <1>7, <2>1, <2>2
<1>4. PICK d \in D : \A e \in D : d <= e
  BY <1>3, LeastNumber
<1>5. m - d \in S
  BY <1>7, <1>4
<1>6. ASSUME NEW y \in S PROVE y <= m - d
  <2>1. y \in Nat /\ y <= m /\ m - y \in Nat /\ m - y <= m /\ m - (m - y) = y
    BY <1>1, <1>2
  <2>2. m - y \in D
    BY <1>7, <2>1
  <2> QED
    BY <1>3, <1>4, <2>1, <2>2
<1> QED
  BY <1>5, <1>6

LEMMA FirstIsOne ==
    ASSUME NEW S \in SUBSET FormOrgs, S # {}
    PROVE  First(S) \in S
<1>1. S \in SUBSET Nat
  BY FormFacts
<1>2. \E x \in S : \A y \in S : x <= y
  BY <1>1, LeastNumber
<1> QED
  BY <1>2 DEF First

\* The page and the guards climb alike.
LEMMA ManagedStep ==
    ASSUME NEW admins \in SUBSET FormOrgs, NEW o \in FormOrgs
    PROVE  isOrganizationManaged(admins, o) <=>
              \/ o \in admins
              \/ ParentOf[o] \in FormOrgs /\ isOrganizationManaged(admins, ParentOf[o])
<1>1. o \in admins => isOrganizationManaged(admins, o)
  <2> SUFFICES ASSUME o \in admins PROVE isOrganizationManaged(admins, o)
    OBVIOUS
  <2>1. {o} \in SUBSET FormOrgs /\ {o} \cap admins # {}
    OBVIOUS
  <2> QED
    BY <2>1 DEF isOrganizationManaged
<1>2. ASSUME ParentOf[o] \in FormOrgs, isOrganizationManaged(admins, ParentOf[o])
      PROVE  isOrganizationManaged(admins, o)
  <2>1. PICK path \in SUBSET FormOrgs :
           /\ ParentOf[o] \in path
           /\ \A p \in path : p = ParentOf[o] \/ \E c \in path : ParentOf[c] = p
           /\ path \cap admins # {}
    BY <1>2 DEF isOrganizationManaged
  <2>2. PICK more : more = path \cup {o}
    OBVIOUS
  <2>3. more \in SUBSET FormOrgs /\ o \in more /\ more \cap admins # {}
    BY <2>1, <2>2
  <2>4. \A p \in more : p = o \/ \E c \in more : ParentOf[c] = p
    BY <2>1, <2>2
  <2> QED
    BY <2>3, <2>4 DEF isOrganizationManaged
<1>3. ASSUME isOrganizationManaged(admins, o), o \notin admins
      PROVE  ParentOf[o] \in FormOrgs /\ isOrganizationManaged(admins, ParentOf[o])
  <2>1. PICK path \in SUBSET FormOrgs :
           /\ o \in path
           /\ \A p \in path : p = o \/ \E c \in path : ParentOf[c] = p
           /\ path \cap admins # {}
    BY <1>3 DEF isOrganizationManaged
  <2>2. PICK rest : rest = path \ {o}
    OBVIOUS
  <2>3. rest \in SUBSET FormOrgs /\ rest \cap admins # {} /\ rest # {}
    BY <1>3, <2>1, <2>2
  <2>4. PICK x \in rest : \A y \in rest : y <= x
    BY <2>3, GreatestOrganization
  <2>5. PICK c \in path : ParentOf[c] = x
    BY <2>1, <2>2, <2>4
  <2>6. c \in FormOrgs /\ x \in FormOrgs /\ x < c
    BY <2>1, <2>3, <2>4, <2>5, FormFacts
  <2>7. c = o
    BY <2>2, <2>4, <2>5, <2>6, FormFacts
  <2>8. ParentOf[o] = x
    BY <2>5, <2>7
  <2>9. \A p \in rest : p = x \/ \E d \in rest : ParentOf[d] = p
    BY <2>1, <2>2, <2>8
  <2>10. isOrganizationManaged(admins, x)
    BY <2>3, <2>4, <2>9 DEF isOrganizationManaged
  <2> QED
    BY <2>6, <2>8, <2>10
<1> QED
  BY <1>1, <1>2, <1>3

\* One step of the guard, for any function it may climb with.
GuardStep(admins, f) ==
    [p \in FormOrgs \cup {0} |-> p # 0 /\ (p \in admins \/ f[ParentOf[p]])]

LEMMA GuardsAgree ==
    ASSUME NEW admins \in SUBSET FormOrgs, NEW o \in FormOrgs
    PROVE  canActivate(admins, o) <=> isOrganizationManaged(admins, o)
<1>1. PICK D : D = FormOrgs \cup {0}
  OBVIOUS
<1>2. 0 \notin FormOrgs /\ \A p \in FormOrgs : ParentOf[p] \in D /\ ParentOf[p] < p
  BY <1>1, FormFacts
<1>3. PICK M : M = {p \in FormOrgs : isOrganizationManaged(admins, p)}
  OBVIOUS
<1>4. \A p \in FormOrgs : p \in M <=> p \in admins \/ ParentOf[p] \in M
  BY <1>3, ManagedStep
<1>5. PICK g : g = [p \in D |-> p \in M]
  OBVIOUS
<1>6. g = GuardStep(admins, g)
  <2>1. ASSUME NEW p \in D PROVE (p \in M) = (p # 0 /\ (p \in admins \/ g[ParentOf[p]]))
    <3>1. CASE p = 0
      BY <1>2, <1>3, <3>1
    <3>2. CASE p \in FormOrgs
      <4>1. g[ParentOf[p]] = (ParentOf[p] \in M)
        BY <1>2, <1>5, <3>2
      <4>2. p # 0 /\ (p \in M <=> p \in admins \/ ParentOf[p] \in M)
        BY <1>2, <1>4, <3>2
      <4>3. g[ParentOf[p]] <=> ParentOf[p] \in M
        BY <4>1
      <4>4. p \in M <=> p # 0 /\ (p \in admins \/ g[ParentOf[p]])
        BY <4>2, <4>3, Zenon
      <4> QED
        BY <4>4, SMT
    <3> QED
      BY <1>1, <2>1, <3>1, <3>2
  <2>2. [p \in D |-> p \in M] = [p \in D |-> p # 0 /\ (p \in admins \/ g[ParentOf[p]])]
    BY <2>1
  <2> QED
    BY <1>1, <1>5, <2>2 DEF GuardStep
<1>7. PICK up : up = CHOOSE h : h = GuardStep(admins, h)
  OBVIOUS
<1>8. up = GuardStep(admins, up)
  BY <1>6, <1>7
<1>9. canActivate(admins, o) = up[o]
  BY <1>7 DEF canActivate, GuardStep
<1>10. \A p \in D : up[p] = (p # 0 /\ (p \in admins \/ up[ParentOf[p]]))
  BY <1>1, <1>8 DEF GuardStep
<1>11. PICK Bad : Bad = {p \in FormOrgs : ~(up[p] = (p \in M))}
  OBVIOUS
<1>12. Bad = {}
  <2> SUFFICES ASSUME Bad # {} PROVE FALSE
    OBVIOUS
  <2>1. Bad \in SUBSET Nat
    BY <1>11, FormFacts
  <2>2. PICK p \in Bad : \A x \in Bad : p <= x
    BY <2>1, LeastNumber
  <2>3. p \in FormOrgs /\ p \in Nat /\ p # 0 /\ p \in D
    BY <1>1, <1>2, <1>11, <2>1, <2>2
  <2>4. PICK q : q = ParentOf[p]
    OBVIOUS
  <2>5. q \in D /\ q < p /\ q \in Nat
    <3>1. q \in D /\ q < p
      BY <1>2, <2>3, <2>4
    <3>2. D \subseteq Nat
      BY <1>1, FormFacts
    <3> QED
      BY <3>1, <3>2
  <2>6. q \notin Bad
    BY <2>2, <2>3, <2>5
  <2>7. up[q] = (q \in M)
    <3>1. CASE q = 0
      BY <1>2, <1>3, <1>10, <2>5, <3>1
    <3>2. CASE q # 0
      BY <1>1, <1>11, <2>5, <2>6, <3>2
    <3> QED
      BY <3>1, <3>2
  <2>8. up[p] = (p \in admins \/ q \in M)
    BY <1>10, <2>3, <2>4, <2>7
  <2>9. up[p] = (p \in M)
    BY <1>4, <2>3, <2>4, <2>8
  <2> QED
    BY <1>11, <2>2, <2>9
<1>13. up[o] = (o \in M)
  BY <1>11, <1>12
<1> QED
  BY <1>3, <1>9, <1>13

\* Which form and which screen a request belongs to.
JobsFit(s, f, j) ==
    /\ j.kind = "load" => s = "edit" /\ f \in BareForm /\ j \in LoadJobs
    /\ j.kind = "access" => s = "create" /\ f \in BareForm /\ j \in AccessJobs
    /\ j.kind = "save" => s = "edit" /\ f \in EditForm /\ f.submitting /\ j \in SaveJobs
    /\ j.kind = "delete" => s = "edit" /\ f \in EditForm /\ f.submitting /\ j \in ImageJobs
    /\ j.kind = "create" => s = "create" /\ f \in CreateForm /\ f.submitting /\ j \in CreateJobs
    /\ j.kind = "image" => /\ j \in ImageJobs /\ f.submitting
                           /\ (s = "edit" /\ f \in EditForm) \/ (s = "create" /\ f \in CreateForm)
    /\ j.kind \in {"reviews", "rate"} => s = "reviews" /\ f \in ReviewForm
    /\ j.kind = "slot" => s = "slots" /\ f \in SlotForm /\ j \in SlotJobs
    /\ j.stage = "committed" => j.kind \in {"save", "delete", "image", "create"}

LEMMA EditJobsFit == ASSUME NEW f, NEW j, EditOK(f, j) PROVE JobsFit("edit", f, j)
<1>1. CASE f \in BareForm /\ j \in LoadJobs \cup {NoJob}
  BY <1>1 DEF JobsFit, LoadJobs, NoJob
<1>2. CASE f \in EditForm /\ j \in SaveJobs \cup ImageJobs \cup {NoJob} /\ (j # NoJob => f.submitting)
  BY <1>2 DEF JobsFit, SaveJobs, ImageJobs, NoJob
<1> QED
  BY <1>1, <1>2 DEF EditOK

LEMMA CreateJobsFit ==
    ASSUME NEW f, NEW j, NEW m, NEW n, CreateOK(f, j, m, n) PROVE JobsFit("create", f, j)
<1>1. CASE f \in BareForm /\ (j = NoJob \/ j \in AccessJobs)
  BY <1>1 DEF JobsFit, AccessJobs, NoJob
<1>2. CASE f \in CreateForm /\ j = NoJob
  BY <1>2 DEF JobsFit, NoJob
<1>3. CASE f \in CreateForm /\ j \in CreateJobs /\ f.submitting
  BY <1>3 DEF JobsFit, CreateJobs
<1>4. CASE f \in CreateForm /\ j \in ImageJobs /\ j.kind = "image" /\ f.submitting
  BY <1>4 DEF JobsFit, ImageJobs
<1> QED
  BY <1>1, <1>2, <1>3, <1>4, Zenon DEF CreateOK

LEMMA ReviewJobsFit ==
    ASSUME NEW f, NEW j, NEW m, ReviewsOK(f, j, m) PROVE JobsFit("reviews", f, j)
<1>1. f \in ReviewForm
  BY Zenon DEF ReviewsOK
<1>2. CASE j = NoJob
  BY <1>2 DEF JobsFit, NoJob
<1>3. CASE j.kind = "reviews" /\ j.stage \in {"sent", "read"}
  BY <1>1, <1>3 DEF JobsFit
<1>4. CASE j.kind = "rate" /\ j \in RateJobs
  BY <1>1, <1>4 DEF JobsFit, RateJobs
<1> QED
  BY <1>2, <1>3, <1>4 DEF ReviewsOK

LEMMA SlotJobsFit ==
    ASSUME NEW f, NEW j, NEW p, NEW n, SlotsOK(f, j, p, n) PROVE JobsFit("slots", f, j)
<1>1. f \in SlotForm /\ (j = NoJob \/ j \in SlotJobs)
  BY Zenon DEF SlotsOK
<1>2. CASE j = NoJob
  BY <1>2 DEF JobsFit, NoJob
<1>3. CASE j \in SlotJobs
  BY <1>1, <1>3 DEF JobsFit, SlotJobs
<1> QED
  BY <1>1, <1>2, <1>3

LEMMA JobsAlwaysFit == ASSUME FormInv PROVE JobsFit(screen, form, job)
<1>1. CASE screen = "edit"
  BY <1>1, EditJobsFit, Zenon DEF FormInv
<1>2. CASE screen = "create"
  BY <1>2, CreateJobsFit, Zenon DEF FormInv
<1>3. CASE screen = "reviews"
  BY <1>3, ReviewJobsFit, Zenon DEF FormInv
<1>4. CASE screen = "slots"
  BY <1>4, SlotJobsFit, Zenon DEF FormInv
<1> QED
  BY <1>1, <1>2, <1>3, <1>4 DEF FormInv

\* A form whose request has committed waits for its answer.
LEMMA CommittedFormsWait ==
    ASSUME FormInv, job.stage = "committed"
    PROVE  /\ screen \in {"edit", "create"} /\ form.submitting /\ form.status # "error"
           /\ job.kind \in {"save", "delete", "image", "create"} /\ job # NoJob
<1>1. JobsFit(screen, form, job)
  BY JobsAlwaysFit
<1>2. job.kind \in {"save", "delete", "image", "create"} /\ job # NoJob
  BY <1>1 DEF JobsFit, NoJob
<1>3. screen \in {"edit", "create"} /\ form.submitting /\ form \in EditForm \cup CreateForm
  BY <1>1, <1>2 DEF JobsFit
<1> QED
  BY <1>2, <1>3 DEF EditForm, CreateForm


(* The row and its details in the cache *)

LEMMA RowsFrame ==
    ASSUME RowsOK, DetailsOK, UNCHANGED resourceRows, adminOf' \in SUBSET FormOrgs,
           formFaults' \in Nat, job.stage = "committed" => job'.stage = "committed"
    PROVE  RowsOK' /\ DetailsOK'
<1>1. UNCHANGED <<resource, stored, storing, blame, others>>
  BY DEF resourceRows
<1>2. RowsOK'
  BY <1>1 DEF RowsOK
<1>3. DetailsOK'
  BY <1>1 DEF DetailsOK
<1> QED
  BY <1>2, <1>3

\* The actions that leave the row and the cache alone.
RowsRest ==
    /\ UNCHANGED <<screen, resourceRows>>
    /\ adminOf' = adminOf \/ \E o \in FormOrgs : changeAdmin(o)
    /\ formFaults' \in {formFaults, formFaults + 1}
    /\ job.stage = "committed" => job'.stage = "committed"

LEMMA RowsAtRest == ASSUME FormInv, RowsRest PROVE RowsOK' /\ DetailsOK'
<1>1. RowsOK /\ DetailsOK /\ adminOf \in SUBSET FormOrgs /\ formFaults \in Nat
  BY Zenon DEF FormInv, RowsOK
<1>2. adminOf' \in SUBSET FormOrgs
  BY <1>1 DEF RowsRest, changeAdmin
<1>3. formFaults' \in Nat
  BY <1>1 DEF RowsRest
<1> QED
  BY <1>1, <1>2, <1>3, RowsFrame DEF RowsRest

\* A change commits; the cache is cleared later.
LEMMA RowsCommit ==
    ASSUME FormInv, NEW row \in Details, FormOwner \in row.allowed, resource' = row,
           UNCHANGED <<stored, storing, blame, others, adminOf, formFaults>>,
           others = "committed" \/ job'.stage = "committed"
    PROVE  RowsOK' /\ DetailsOK'
<1>1. RowsOK
  BY Zenon DEF FormInv
<1>2. RowsOK'
  BY <1>1 DEF RowsOK
<1>3. DetailsOK'
  BY DEF DetailsOK
<1> QED
  BY <1>2, <1>3

LEMMA RowsClear ==
    ASSUME FormInv, clearDetails, UNCHANGED <<resource, storing, adminOf, formFaults>>,
           others' \in {"idle", "committed"}
    PROVE  RowsOK' /\ DetailsOK'
<1>1. RowsOK
  BY Zenon DEF FormInv
<1>2. RowsOK'
  BY <1>1 DEF RowsOK, clearDetails
<1>3. DetailsOK'
  BY DEF DetailsOK, clearDetails
<1> QED
  BY <1>2, <1>3

LEMMA FindOneRows == ASSUME FormInv, findOne PROVE RowsOK' /\ DetailsOK'
<1>1. /\ RowsOK /\ DetailsOK
      /\ UNCHANGED <<resource, stored, blame, others, adminOf, formFaults>>
      /\ job.stage = "sent" /\ storing' \in {NoDetails, resource}
  <2>1. storing' \in {NoDetails, resource}
    BY DEF findOne
  <2> QED
    BY <2>1, Zenon DEF FormInv, findOne, elsewhere, On
<1>2. RowsOK'
  BY <1>1 DEF RowsOK
<1>3. DetailsOK'
  BY <1>1 DEF DetailsOK
<1> QED
  BY <1>2, <1>3

LEMMA StoreDetailsRows == ASSUME FormInv, storeDetails PROVE RowsOK' /\ DetailsOK'
<1>1. /\ RowsOK /\ stored' = storing /\ storing' = NoDetails
      /\ blame' = IF storing # resource THEN {"race"} ELSE {}
      /\ UNCHANGED <<resource, others, adminOf, formFaults>>
  BY Zenon DEF FormInv, storeDetails, elsewhere
<1>2. RowsOK'
  BY <1>1 DEF RowsOK
<1>3. DetailsOK'
  BY <1>1 DEF DetailsOK
<1> QED
  BY <1>2, <1>3

LEMMA OtherUpdateRows ==
    ASSUME FormInv, NEW field, NEW value,
           (field = "text" /\ value \in Texts) \/ (field = "notice" /\ value \in Minutes),
           otherUpdate(field, value)
    PROVE  RowsOK' /\ DetailsOK'
<1>1. /\ RowsOK /\ resource' = [resource EXCEPT ![field] = value]
      /\ others' = "committed"
      /\ UNCHANGED <<stored, storing, blame, adminOf, formFaults>>
  BY Zenon DEF FormInv, otherUpdate, elsewhere
<1>2. resource' \in Details /\ resource'.allowed = resource.allowed
  BY <1>1 DEF RowsOK, Details
<1>3. RowsOK'
  BY <1>1, <1>2 DEF RowsOK
<1>4. DetailsOK'
  BY <1>1 DEF DetailsOK
<1> QED
  BY <1>3, <1>4

LEMMA MarkUnavailableRows ==
    ASSUME FormInv, NEW value \in {"ACTIVE", "INACTIVE"}, markUnavailable(value)
    PROVE  RowsOK' /\ DetailsOK'
<1>1. /\ RowsOK /\ DetailsOK /\ resource' = [resource EXCEPT !.status = value]
      /\ blame' = IF stored # NoDetails THEN blame \cup {"mark"} ELSE blame
      /\ UNCHANGED <<stored, storing, others, job, adminOf, formFaults>>
  BY Zenon DEF FormInv, markUnavailable, elsewhere
<1>2. resource' \in Details /\ resource'.allowed = resource.allowed /\ SameButStatus(resource, resource')
  BY <1>1 DEF RowsOK, Details, SameButStatus
<1>3. RowsOK'
  BY <1>1, <1>2 DEF RowsOK
<1>4. DetailsOK'
  <2> SUFFICES ASSUME stored # NoDetails
               PROVE  \/ others' = "committed" \/ job'.stage = "committed"
                      \/ "race" \in blame' \/ "died" \in blame'
                      \/ "mark" \in blame' /\ SameButStatus(stored, resource')
    BY <1>1 DEF DetailsOK
  <2>1. "mark" \in blame' /\ blame \subseteq blame'
    BY <1>1
  <2>2. CASE stored = resource
    BY <1>1, <1>2, <2>1, <2>2
  <2>3. CASE stored # resource
    BY <1>1, <1>2, <2>1, <2>3 DEF DetailsOK, SameButStatus
  <2> QED
    BY <2>2, <2>3
<1> QED
  BY <1>3, <1>4

LEMMA DieBeforeClearRows == ASSUME FormInv, dieBeforeClear PROVE RowsOK' /\ DetailsOK'
<1>1. /\ RowsOK /\ blame' = blame \cup {"died"} /\ formFaults' = formFaults + 1
      /\ UNCHANGED <<resource, stored, storing, others, adminOf>>
  BY Zenon DEF FormInv, dieBeforeClear, elsewhere, FormFault
<1>2. RowsOK'
  BY <1>1 DEF RowsOK
<1>3. DetailsOK'
  BY <1>1 DEF DetailsOK
<1> QED
  BY <1>2, <1>3


LEMMA AnswersAtRest ==
    ASSUME FormInv,
           \/ applyDetails \/ denyEdit \/ answerChanges
           \/ answerRemoval \/ refuseChange \/ loadResourceCreationAccess
           \/ createResource \/ refuseCreation \/ getRatings
           \/ applyRatings \/ upsertRating \/ handleRatingSubmitted
           \/ createResourceSlot \/ refuseSlot \/ answerSlot \/ refuseImage \/ permitSlot
    PROVE  RowsRest
<1>1. CASE applyDetails
  <2>1. job.stage # "committed"
    BY <1>1 DEF applyDetails, On
  <2> QED
    BY <1>1, <2>1, Zenon DEF applyDetails, RowsRest, elsewhere
<1>2. CASE denyEdit
  <2>1. job.stage # "committed"
    BY <1>2 DEF denyEdit, On
  <2> QED
    BY <1>2, <2>1, Zenon DEF denyEdit, RowsRest, elsewhere
<1>3. CASE answerChanges
  <2>1. job.stage # "committed"
    BY <1>3 DEF answerChanges, On
  <2> QED
    BY <1>3, <2>1, Zenon DEF answerChanges, RowsRest, elsewhere
<1>4. CASE answerRemoval
  <2>1. job.stage # "committed"
    BY <1>4 DEF answerRemoval, On
  <2> QED
    BY <1>4, <2>1, Zenon DEF answerRemoval, RowsRest, elsewhere
<1>5. CASE refuseChange
  <2>1. job.stage # "committed"
    BY <1>5 DEF refuseChange, On
  <2> QED
    BY <1>5, <2>1, Zenon DEF refuseChange, RowsRest, elsewhere
<1>6. CASE loadResourceCreationAccess
  <2>1. job.stage # "committed"
    BY <1>6 DEF loadResourceCreationAccess, On
  <2> QED
    BY <1>6, <2>1, Zenon DEF loadResourceCreationAccess, RowsRest, elsewhere
<1>7. CASE createResource
  <2>1. job.stage # "committed"
    BY <1>7 DEF createResource, On
  <2> QED
    BY <1>7, <2>1, Zenon DEF createResource, RowsRest, elsewhere
<1>8. CASE refuseCreation
  <2>1. job.stage # "committed"
    BY <1>8 DEF refuseCreation, On
  <2> QED
    BY <1>8, <2>1, Zenon DEF refuseCreation, RowsRest, elsewhere
<1>9. CASE getRatings
  <2>1. job.stage # "committed"
    BY <1>9 DEF getRatings, On
  <2> QED
    BY <1>9, <2>1, Zenon DEF getRatings, RowsRest, elsewhere
<1>10. CASE applyRatings
  <2>1. job.stage # "committed"
    BY <1>10 DEF applyRatings, On
  <2> QED
    BY <1>10, <2>1, Zenon DEF applyRatings, RowsRest, elsewhere
<1>11. CASE upsertRating
  <2>1. job.stage # "committed"
    BY <1>11 DEF upsertRating, On
  <2> QED
    BY <1>11, <2>1, Zenon DEF upsertRating, RowsRest, elsewhere
<1>12. CASE handleRatingSubmitted
  <2>1. job.stage # "committed"
    BY <1>12 DEF handleRatingSubmitted, On
  <2> QED
    BY <1>12, <2>1, Zenon DEF handleRatingSubmitted, RowsRest, elsewhere
<1>13. CASE createResourceSlot
  <2>1. job.stage # "committed"
    BY <1>13 DEF createResourceSlot, On
  <2> QED
    BY <1>13, <2>1, Zenon DEF createResourceSlot, RowsRest, elsewhere
<1>14. CASE refuseSlot
  <2>1. job.stage # "committed"
    BY <1>14 DEF refuseSlot, On
  <2> QED
    BY <1>14, <2>1, Zenon DEF refuseSlot, RowsRest, elsewhere
<1>15. CASE answerSlot
  <2>1. job.stage # "committed"
    BY <1>15 DEF answerSlot, On
  <2> QED
    BY <1>15, <2>1, Zenon DEF answerSlot, RowsRest, elsewhere
<1>16. CASE refuseImage
  <2>1. job.stage # "committed"
    BY <1>16 DEF refuseImage, On
  <2> QED
    BY <1>16, <2>1, Zenon DEF refuseImage, RowsRest, elsewhere
<1>17. CASE permitSlot
  <2>1. job.stage # "committed"
    BY <1>17 DEF permitSlot, On
  <2> QED
    BY <1>17, <2>1, Zenon DEF permitSlot, RowsRest, elsewhere
<1> QED
  BY <1>1, <1>2, <1>3, <1>4, <1>5, <1>6, <1>7, <1>8, <1>9, <1>10, <1>11, <1>12, <1>13, <1>14, <1>15,
     <1>16, <1>17, Zenon

LEMMA FailuresAtRest ==
    ASSUME FormInv, failFormLoad \/ failChanges \/ retryFormLoad
    PROVE  RowsRest
<1>1. CASE failFormLoad
  <2>1. job.stage # "committed"
    BY <1>1, CommittedFormsWait DEF failFormLoad
  <2> QED
    BY <1>1, <2>1, Zenon DEF failFormLoad, RowsRest, elsewhere, FormFault
<1>2. CASE failChanges
  <2>1. job.stage # "committed"
    BY <1>2 DEF failChanges
  <2> QED
    BY <1>2, <2>1, Zenon DEF failChanges, RowsRest, elsewhere, FormFault
<1>3. CASE retryFormLoad
  <2>1. job.stage # "committed"
    BY <1>3, CommittedFormsWait DEF retryFormLoad
  <2> QED
    BY <1>3, <2>1, Zenon DEF retryFormLoad, RowsRest, elsewhere
<1> QED
  BY <1>1, <1>2, <1>3

LEMMA InputsAtRest ==
    ASSUME FormInv,
           \/ \E value \in Texts : changeField("text", value)
           \/ \E o \in FormOrgs : toggleOrganization(o) \/ changeOwner(o) \/ changeAdmin(o)
           \/ \E chosen \in BOOLEAN : chooseImage(chosen)
           \/ createAnotherResource \/ tickForm
           \/ \E rating \in {1, 2} : rateElsewhere(rating)
           \/ \E open \in BOOLEAN : changeOpen(open)
           \/ \E r \in Ranges : setRange(r)
    PROVE  RowsRest
<1>1. CASE \E value \in Texts : changeField("text", value)
  BY <1>1, Zenon DEF changeField, RowsRest, elsewhere
<1>2. CASE \E o \in FormOrgs : toggleOrganization(o)
  BY <1>2, Zenon DEF toggleOrganization, RowsRest, elsewhere
<1>3. CASE \E o \in FormOrgs : changeOwner(o)
  BY <1>3, Zenon DEF changeOwner, RowsRest, elsewhere
<1>4. CASE \E o \in FormOrgs : changeAdmin(o)
  <2>1. UNCHANGED <<screen, resourceRows, job, formFaults>>
    BY <1>4, Zenon DEF changeAdmin
  <2> QED
    BY <1>4, <2>1, Zenon DEF RowsRest
<1>5. CASE \E chosen \in BOOLEAN : chooseImage(chosen)
  BY <1>5, Zenon DEF chooseImage, RowsRest, elsewhere
<1>6. CASE createAnotherResource
  BY <1>6, Zenon DEF createAnotherResource, RowsRest
<1>7. CASE tickForm
  BY <1>7, Zenon DEF tickForm, RowsRest
<1>8. CASE \E rating \in {1, 2} : rateElsewhere(rating)
  BY <1>8, Zenon DEF rateElsewhere, RowsRest
<1>9. CASE \E open \in BOOLEAN : changeOpen(open)
  BY <1>9, Zenon DEF changeOpen, RowsRest, elsewhere
<1>10. CASE \E r \in Ranges : setRange(r)
  BY <1>10, Zenon DEF setRange, RowsRest, elsewhere
<1> QED
  BY <1>1, <1>2, <1>3, <1>4, <1>5, <1>6, <1>7, <1>8, <1>9, <1>10, Zenon

LEMMA SubmissionsAtRest ==
    ASSUME FormInv,
           \/ submitUpdate \/ handleDelete \/ submitResource \/ submitSlot
           \/ \E rating \in {1, 2} : handleSubmit(rating)
    PROVE  RowsRest
<1>1. ASSUME ~form.submitting \/ screen \notin {"edit", "create"} PROVE job.stage # "committed"
  BY <1>1, CommittedFormsWait
<1>2. CASE submitUpdate
  BY <1>1, <1>2, Zenon DEF submitUpdate, RowsRest, elsewhere
<1>3. CASE handleDelete
  BY <1>1, <1>3, Zenon DEF handleDelete, RowsRest, elsewhere
<1>4. CASE submitResource
  BY <1>1, <1>4, Zenon DEF submitResource, MaySubmit, RowsRest, elsewhere
<1>5. CASE submitSlot
  BY <1>1, <1>5, Zenon DEF submitSlot, RowsRest, elsewhere
<1>6. CASE \E rating \in {1, 2} : handleSubmit(rating)
  BY <1>1, <1>6, Zenon DEF handleSubmit, RowsRest, elsewhere
<1> QED
  BY <1>2, <1>3, <1>4, <1>5, <1>6, Zenon

LEMMA CommitsOfRows ==
    ASSUME FormInv, commitUpdate \/ commitRemoval \/ uploadImage
    PROVE  RowsOK' /\ DetailsOK'
<1>1. resource \in Details /\ FormOwner \in resource.allowed /\ JobsFit(screen, form, job)
  BY JobsAlwaysFit, Zenon DEF FormInv, RowsOK
<1>2. UNCHANGED <<stored, storing, blame, others, adminOf, formFaults>>
  BY Zenon DEF commitUpdate, commitRemoval, uploadImage, elsewhere
<1>3. job' = [job EXCEPT !.stage = "committed"]
  BY Zenon DEF commitUpdate, commitRemoval, uploadImage
<1>4. job \in SaveJobs \cup ImageJobs
  BY <1>1 DEF JobsFit, commitUpdate, commitRemoval, uploadImage, On
<1>5. job'.stage = "committed"
  BY <1>3, <1>4 DEF SaveJobs, ImageJobs
<1>6. resource' \in Details /\ FormOwner \in resource'.allowed
  <2>1. CASE commitUpdate
    <3>1. job \in SaveJobs
      BY <1>1, <2>1 DEF JobsFit, commitUpdate, On
    <3>2. /\ resource' = [resource EXCEPT !.text = job.data.text, !.notice = job.data.notice,
                                          !.allowed = {FormOwner} \cup job.data.allowed]
          /\ job.data \in Saved
      BY <2>1, <3>1 DEF commitUpdate, SaveJobs
    <3> QED
      BY <1>1, <3>2, FormFacts DEF Saved, Details
  <2>2. CASE commitRemoval
    BY <1>1, <2>2 DEF commitRemoval, Details
  <2>3. CASE uploadImage
    BY <1>1, <2>3 DEF uploadImage, Details
  <2> QED
    BY <2>1, <2>2, <2>3
<1>7. PICK row : row = resource'
  OBVIOUS
<1> QED
  BY <1>2, <1>5, <1>6, <1>7, RowsCommit

LEMMA ClearsOfRows ==
    ASSUME FormInv, expireDetails \/ otherClear \/ clearAfterChange
    PROVE  RowsOK' /\ DetailsOK'
<1>1. others \in {"idle", "committed"}
  BY Zenon DEF FormInv, RowsOK
<1>2. /\ clearDetails /\ UNCHANGED <<resource, storing, adminOf, formFaults>>
      /\ others' = others \/ others' = "idle"
  BY Zenon DEF expireDetails, otherClear, clearAfterChange, elsewhere
<1>3. others' \in {"idle", "committed"}
  BY <1>1, <1>2
<1> QED
  BY <1>2, <1>3, RowsClear

LEMMA RowsStep == ASSUME FormInv, FormNext PROVE RowsOK' /\ DetailsOK'
<1>1. CASE RowsRest
  BY <1>1, RowsAtRest
<1>2. CASE findOne \/ storeDetails \/ dieBeforeClear
  BY <1>2, FindOneRows, StoreDetailsRows, DieBeforeClearRows, Zenon
<1>3. CASE expireDetails \/ otherClear \/ clearAfterChange
  BY <1>3, ClearsOfRows
<1>4. CASE commitUpdate \/ commitRemoval \/ uploadImage
  BY <1>4, CommitsOfRows
<1>5. CASE \E value \in Texts : otherUpdate("text", value)
  BY <1>5, OtherUpdateRows, Zenon
<1>6. CASE \E value \in FormNotices : otherUpdate("notice", value)
  BY <1>6, OtherUpdateRows, Zenon DEF Minutes
<1>7. CASE \E value \in {"ACTIVE", "INACTIVE"} : markUnavailable(value)
  BY <1>7, MarkUnavailableRows, Zenon
<1> QED
  BY <1>1, <1>2, <1>3, <1>4, <1>5, <1>6, <1>7, AnswersAtRest, FailuresAtRest, InputsAtRest,
     SubmissionsAtRest, ZenonT(60) DEF FormNext


(* The edit form *)

EditNext ==
    \/ findOne \/ storeDetails \/ expireDetails \/ otherClear
    \/ \E value \in Texts : otherUpdate("text", value)
    \/ \E value \in FormNotices : otherUpdate("notice", value)
    \/ \E value \in {"ACTIVE", "INACTIVE"} : markUnavailable(value)
    \/ applyDetails \/ denyEdit \/ failFormLoad \/ retryFormLoad
    \/ \E value \in Texts : changeField("text", value)
    \/ \E o \in FormOrgs : toggleOrganization(o) \/ changeAdmin(o)
    \/ submitUpdate \/ commitUpdate \/ handleDelete \/ commitRemoval \/ uploadImage
    \/ clearAfterChange \/ answerChanges \/ answerRemoval \/ refuseChange
    \/ refuseImage \/ failChanges \/ dieBeforeClear
    \/ \E chosen \in BOOLEAN : chooseImage(chosen)

LEMMA EditActions == ASSUME FormInv, FormNext, screen = "edit" PROVE EditNext
<1>1. JobsFit(screen, form, job)
  BY JobsAlwaysFit
<1>2. job.kind \notin {"access", "create", "reviews", "rate", "slot"}
  BY <1>1 DEF JobsFit
<1>3. /\ ~loadResourceCreationAccess /\ ~createResource /\ ~refuseCreation
      /\ ~getRatings /\ ~applyRatings /\ ~upsertRating /\ ~handleRatingSubmitted
      /\ ~permitSlot /\ ~createResourceSlot /\ ~refuseSlot /\ ~answerSlot
  BY <1>2 DEF loadResourceCreationAccess, createResource, refuseCreation, getRatings, applyRatings,
     upsertRating, handleRatingSubmitted, permitSlot, createResourceSlot, refuseSlot, answerSlot, On
<1>4. /\ ~submitResource /\ ~createAnotherResource /\ ~submitSlot /\ ~tickForm
      /\ ~ \E o \in FormOrgs : changeOwner(o)
      /\ ~ \E rating \in {1, 2} : handleSubmit(rating) \/ rateElsewhere(rating)
      /\ ~ \E open \in BOOLEAN : changeOpen(open)
      /\ ~ \E r \in Ranges : setRange(r)
  BY DEF submitResource, MaySubmit, createAnotherResource, submitSlot, tickForm, changeOwner,
     handleSubmit, rateElsewhere, changeOpen, setRange
<1> QED
  BY <1>3, <1>4, ZenonT(60) DEF FormNext, EditNext

SameFields(f, g) ==
    /\ g.text = f.text /\ g.notice = f.notice /\ g.allowed = f.allowed
    /\ g.base = f.base /\ g.touched = f.touched

\* What an answer changes of the edit form.
LEMMA EditFormTurns ==
    ASSUME NEW f \in EditForm, NEW a \in BOOLEAN, NEW b \in BOOLEAN, NEW g,
           \/ g = [f EXCEPT !.submitting = a, !.error = b]
           \/ g = [f EXCEPT !.submitting = a, !.done = b]
           \/ g = [f EXCEPT !.status = "left"]
           \/ g = [f EXCEPT !.image = a]
           \/ g = [[f EXCEPT !.submitting = a, !.error = b] EXCEPT !.refused = f.refused + 1]
    PROVE  g \in EditForm /\ SameFields(f, g)
<1>1. CASE g = [f EXCEPT !.submitting = a, !.error = b]
  BY <1>1 DEF EditForm, SameFields
<1>2. CASE g = [f EXCEPT !.submitting = a, !.done = b]
  BY <1>2 DEF EditForm, SameFields
<1>3. CASE g = [f EXCEPT !.status = "left"]
  BY <1>3 DEF EditForm, SameFields
<1>4. CASE g = [f EXCEPT !.image = a]
  BY <1>4 DEF EditForm, SameFields
<1>5. CASE g = [[f EXCEPT !.submitting = a, !.error = b] EXCEPT !.refused = f.refused + 1]
  <2>1. f.refused + 1 \in Nat
    BY DEF EditForm
  <2> QED
    BY <1>5, <2>1 DEF EditForm, SameFields
<1> QED
  BY <1>1, <1>2, <1>3, <1>4, <1>5

LEMMA EditFormStarts ==
    ASSUME NEW f \in EditForm, NEW yes, yes = TRUE, NEW b \in BOOLEAN,
           NEW g, g = [f EXCEPT !.submitting = yes, !.error = b]
    PROVE  g.submitting
BY DEF EditForm

LEMMA FieldsCarry ==
    ASSUME NEW f, NEW g, FieldsOK(f), SameFields(f, g)
    PROVE  FieldsOK(g) /\ \A j : SavesItsBase(f, j) => SavesItsBase(g, j)
BY DEF FieldsOK, SameFields, SavesItsBase

LEMMA JobKindsApart ==
    /\ \A j \in SaveJobs : j.kind = "save" /\ j # NoJob
    /\ \A j \in ImageJobs : j.kind \in {"delete", "image"} /\ j # NoJob
    /\ \A j \in CreateJobs : j.kind = "create" /\ j # NoJob
    /\ NoJob \notin SaveJobs /\ SaveJobs \cap ImageJobs = {}
BY DEF SaveJobs, ImageJobs, CreateJobs, NoJob

LEMMA JobStages ==
    ASSUME NEW j, NEW s \in {"sent", "committed", "done"}, NEW k, k = [j EXCEPT !.stage = s]
    PROVE  /\ j \in SaveJobs => k \in SaveJobs /\ k.data = j.data
           /\ j \in ImageJobs => k \in ImageJobs /\ k.kind = j.kind
           /\ j \in CreateJobs => k \in CreateJobs /\ k.data = j.data /\ k.stage = s
<1>1. j \in SaveJobs => k \in SaveJobs /\ k.data = j.data
  BY DEF SaveJobs
<1>2. j \in ImageJobs => k \in ImageJobs /\ k.kind = j.kind
  BY DEF ImageJobs
<1>3. j \in CreateJobs => k \in CreateJobs /\ k.data = j.data /\ k.stage = s
  BY DEF CreateJobs
<1> QED
  BY <1>1, <1>2, <1>3

LEMMA EditKnown ==
    ASSUME NEW f \in EditForm, NEW j, EditOK(f, j)
    PROVE  /\ FieldsOK(f) /\ SavesItsBase(f, j) /\ j \in SaveJobs \cup ImageJobs \cup {NoJob}
           /\ j # NoJob => f.submitting
<1>1. f \notin BareForm
  BY DEF EditForm, BareForm
<1> QED
  BY <1>1 DEF EditOK

LEMMA EditIdle ==
    ASSUME NEW f, NEW g \in EditForm, FieldsOK(f), SameFields(f, g)
    PROVE  EditOK(g, NoJob)
<1>1. FieldsOK(g)
  BY FieldsCarry
<1>2. SavesItsBase(g, NoJob)
  BY JobKindsApart DEF SavesItsBase
<1> QED
  BY <1>1, <1>2 DEF EditOK

LEMMA EditMoves ==
    ASSUME NEW f \in EditForm, NEW j, NEW s \in {"sent", "committed", "done"}, NEW k,
           k = [j EXCEPT !.stage = s], EditOK(f, j), j # NoJob
    PROVE  EditOK(f, k)
<1>1. FieldsOK(f) /\ SavesItsBase(f, j) /\ j \in SaveJobs \cup ImageJobs /\ f.submitting
  BY EditKnown
<1>2. CASE j \in SaveJobs
  <2>1. k \in SaveJobs /\ k.data = j.data
    BY <1>2, JobStages
  <2> QED
    BY <1>1, <1>2, <2>1 DEF EditOK, SavesItsBase
<1>3. CASE j \in ImageJobs
  <2>1. k \in ImageJobs /\ k \notin SaveJobs
    BY <1>3, JobStages, JobKindsApart
  <2> QED
    BY <1>1, <2>1 DEF EditOK, SavesItsBase
<1> QED
  BY <1>1, <1>2, <1>3


LEMMA EditQuietly ==
    ASSUME FormInv, screen = "edit",
           \/ storeDetails \/ expireDetails \/ otherClear
           \/ \E value \in Texts : otherUpdate("text", value)
           \/ \E value \in FormNotices : otherUpdate("notice", value)
           \/ \E value \in {"ACTIVE", "INACTIVE"} : markUnavailable(value)
           \/ \E o \in FormOrgs : changeAdmin(o)
    PROVE  EditOK(form', job')
<1>1. form' = form /\ job' = job
  BY Zenon DEF storeDetails, expireDetails, otherClear, otherUpdate, markUnavailable, changeAdmin
<1> QED
  BY <1>1 DEF FormInv

LEMMA EditLoads ==
    ASSUME FormInv, screen = "edit",
           findOne \/ applyDetails \/ denyEdit \/ failFormLoad \/ retryFormLoad
    PROVE  EditOK(form', job')
<1>1. EditOK(form, job) /\ JobsFit(screen, form, job)
  BY JobsAlwaysFit, Zenon DEF FormInv
<1>2. /\ resource \in Details /\ stored \in Details \cup {NoDetails}
  BY Zenon DEF FormInv, RowsOK
<1>3. form \in BareForm
  <2>1. CASE findOne \/ applyDetails \/ denyEdit
    BY <1>1, <2>1 DEF findOne, applyDetails, denyEdit, JobsFit, On
  <2>2. CASE failFormLoad
    BY <1>1, <2>2 DEF failFormLoad, JobsFit
  <2>3. CASE retryFormLoad
    <3>1. form.status = "error"
      BY <2>3 DEF retryFormLoad
    <3> QED
      BY <1>1, <3>1 DEF EditOK, EditForm
  <2> QED
    BY <2>1, <2>2, <2>3
<1>4. /\ job \in LoadJobs \cup {NoJob} /\ (job.stage = "read" => job.data \in Details)
      /\ form \notin EditForm
  <2>1. form \notin EditForm
    BY <1>3 DEF EditForm, BareForm
  <2> QED
    BY <1>1, <2>1 DEF EditOK
<1>5. \A s \in {"loading", "error", "denied"} : [form EXCEPT !.status = s] \in BareForm
  BY <1>3 DEF BareForm
<1>6. CASE findOne
  <2>1. /\ form' = form /\ job.kind = "load"
        /\ job' = [job EXCEPT !.stage = "read",
                              !.data = IF stored # NoDetails THEN stored ELSE resource]
    BY <1>6, Zenon DEF findOne, On
  <2>2. PICK d : d = IF stored # NoDetails THEN stored ELSE resource
    OBVIOUS
  <2>3. d \in Details
    BY <1>2, <2>2
  <2>4. job' = [job EXCEPT !.stage = "read", !.data = d] /\ job \in LoadJobs
    BY <1>4, <2>1, <2>2, FormFacts
  <2>5. job' \in LoadJobs /\ job'.data \in Details
    BY <2>3, <2>4 DEF LoadJobs
  <2> QED
    BY <1>3, <2>1, <2>5 DEF EditOK
<1>7. CASE applyDetails
  <2>1. PICK d : d = job.data
    OBVIOUS
  <2>2. PICK no \in BOOLEAN : no = FALSE
    OBVIOUS
  <2>3. d \in Details /\ job' = NoJob
    BY <1>4, <1>7, <2>1 DEF applyDetails, On
  <2>4. form' = [status |-> "loaded", submitting |-> no, error |-> no,
                 done |-> no, text |-> d.text, notice |-> splitNotice(d.notice),
                 allowed |-> d.allowed, image |-> no, refused |-> 0, base |-> d,
                 touched |-> no]
    BY <1>7, <2>1, <2>2 DEF applyDetails
  <2>5. d.text \in Texts /\ d.notice \in Minutes /\ d.allowed \in SUBSET FormOrgs
    BY <2>3 DEF Details
  <2>6. PICK parts : parts = splitNotice(d.notice)
    OBVIOUS
  <2>7. parts \in {splitNotice(n) : n \in Minutes}
    BY <2>5, <2>6
  <2>8. form' \in EditForm
    BY <2>3, <2>4, <2>5, <2>6, <2>7 DEF EditForm
  <2>9. FieldsOK(form')
    BY <2>4 DEF FieldsOK
  <2>10. SavesItsBase(form', NoJob)
    BY JobKindsApart DEF SavesItsBase
  <2> QED
    BY <2>3, <2>8, <2>9, <2>10 DEF EditOK
<1>8. CASE denyEdit \/ failFormLoad
  <2>1. form' \in BareForm /\ job' = NoJob
    BY <1>5, <1>8 DEF denyEdit, failFormLoad
  <2> QED
    BY <2>1, FormFacts DEF EditOK
<1>9. CASE retryFormLoad
  <2>1. form' \in BareForm /\ job' = [kind |-> "load", stage |-> "sent", data |-> NoDetails]
    BY <1>5, <1>9 DEF retryFormLoad, Send, FirstJob
  <2>2. job' \in LoadJobs /\ job'.stage = "sent"
    BY <2>1 DEF LoadJobs
  <2> QED
    BY <2>1, <2>2 DEF EditOK
<1> QED
  BY <1>6, <1>7, <1>8, <1>9

LEMMA EditInputs ==
    ASSUME FormInv, screen = "edit",
           \/ \E value \in Texts : changeField("text", value)
           \/ \E o \in FormOrgs : toggleOrganization(o)
           \/ \E chosen \in BOOLEAN : chooseImage(chosen)
           \/ submitUpdate \/ handleDelete
    PROVE  EditOK(form', job')
<1>1. EditOK(form, job)
  BY Zenon DEF FormInv
<1>2. form.status = "loaded"
  BY Zenon DEF changeField, toggleOrganization, chooseImage, submitUpdate, handleDelete, Editable
<1>3. form \in EditForm
  BY <1>1, <1>2 DEF EditOK, BareForm
<1>4. /\ FieldsOK(form) /\ SavesItsBase(form, job) /\ job \in SaveJobs \cup ImageJobs \cup {NoJob}
      /\ job # NoJob => form.submitting
  BY <1>1, <1>3, EditKnown
<1>5. PICK yes \in BOOLEAN : yes = TRUE
  OBVIOUS
<1>6. PICK no \in BOOLEAN : no = FALSE
  OBVIOUS
<1>7. ASSUME form' \in EditForm, form'.notice = form.notice, form'.base = form.base,
             form'.touched \/ SameFields(form, form'), form.submitting => form'.submitting,
             job' = job
      PROVE  EditOK(form', job')
  <2>1. FieldsOK(form')
    BY <1>4, <1>7, FieldsCarry DEF FieldsOK
  <2>2. SavesItsBase(form', job)
    BY <1>4, <1>7 DEF SavesItsBase
  <2> QED
    BY <1>4, <1>7, <2>1, <2>2 DEF EditOK
<1>8. CASE \E value \in Texts : changeField("text", value)
  <2>1. PICK value \in Texts : changeField("text", value)
    BY <1>8
  <2>2. form' = [form EXCEPT !.text = value, !.touched = yes] /\ job' = job
    BY <1>5, <2>1 DEF changeField
  <2>3. /\ form' \in EditForm /\ form'.notice = form.notice /\ form'.base = form.base
        /\ form'.touched /\ (form.submitting => form'.submitting)
    BY <1>3, <1>5, <2>2 DEF EditForm
  <2> QED
    BY <1>7, <2>2, <2>3
<1>9. CASE \E o \in FormOrgs : toggleOrganization(o)
  <2>1. PICK o \in FormOrgs : toggleOrganization(o)
    BY <1>9
  <2>2. PICK S : S = IF o \in form.allowed THEN form.allowed \ {o} ELSE form.allowed \cup {o}
    OBVIOUS
  <2>3. form' = [form EXCEPT !.allowed = S, !.touched = yes] /\ job' = job
    BY <1>5, <2>1, <2>2 DEF toggleOrganization, changeAllowedOrganization
  <2>4. S \in SUBSET FormOrgs
    BY <1>3, <2>2 DEF EditForm
  <2>5. /\ form' \in EditForm /\ form'.notice = form.notice /\ form'.base = form.base
        /\ form'.touched /\ (form.submitting => form'.submitting)
    BY <1>3, <1>5, <2>3, <2>4 DEF EditForm
  <2> QED
    BY <1>7, <2>3, <2>5
<1>10. CASE \E chosen \in BOOLEAN : chooseImage(chosen)
  <2>1. PICK chosen \in BOOLEAN : form' = [form EXCEPT !.image = chosen] /\ job' = job
    BY <1>10 DEF chooseImage
  <2>2. form' \in EditForm /\ SameFields(form, form')
    BY <1>3, <2>1, EditFormTurns
  <2>3. form.submitting => form'.submitting
    BY <1>3, <2>1 DEF EditForm
  <2> QED
    BY <1>7, <2>1, <2>2, <2>3 DEF SameFields
<1>11. ASSUME form' = Submitted
       PROVE  form' \in EditForm /\ SameFields(form, form') /\ FieldsOK(form') /\ form'.submitting
  <2>1. form' = [form EXCEPT !.submitting = yes, !.error = no]
    BY <1>5, <1>6, <1>11 DEF Submitted
  <2>2. form' \in EditForm /\ SameFields(form, form')
    BY <1>3, <2>1, EditFormTurns
  <2>3. form'.submitting
    BY <1>3, <1>5, <2>1, EditFormStarts
  <2> QED
    BY <1>4, <2>2, <2>3, FieldsCarry
<1>12. CASE submitUpdate
  <2>1. /\ form' = Submitted
        /\ job' = [kind |-> "save", stage |-> "sent",
                   data |-> [owner |-> FormOwner, text |-> form.text, allowed |-> form.allowed,
                             notice |-> totalCancellationNoticeMinutes(form.notice),
                             image |-> form.image, touched |-> form.touched]]
    BY <1>12, Zenon DEF submitUpdate, Send
  <2>2. /\ form.base.notice \in Minutes /\ form.text \in Texts /\ form.allowed \in SUBSET FormOrgs
        /\ form.image \in BOOLEAN /\ form.touched \in BOOLEAN
    BY <1>3 DEF EditForm, Details
  <2>3. totalCancellationNoticeMinutes(form.notice) = form.base.notice
    BY <1>4, <2>2, FormFacts, NoticeAddsUp DEF FieldsOK
  <2>4. job' = [kind |-> "save", stage |-> "sent",
                data |-> [owner |-> FormOwner, text |-> form.text, allowed |-> form.allowed,
                          notice |-> form.base.notice, image |-> form.image,
                          touched |-> form.touched]]
    BY <2>1, <2>3
  <2>5. job' \in SaveJobs
    BY <2>2, <2>4, FormFacts DEF SaveJobs, Saved
  <2>6. SavesItsBase(form, job')
    BY <1>4, <2>4 DEF SavesItsBase, FieldsOK
  <2> QED
    BY <1>4, <1>11, <2>1, <2>5, <2>6, FieldsCarry DEF EditOK
<1>13. CASE handleDelete
  <2>1. form' = Submitted /\ job' = [kind |-> "delete", stage |-> "sent", data |-> NoDetails]
    BY <1>13, Zenon DEF handleDelete, Send
  <2>2. job' \in ImageJobs
    BY <2>1 DEF ImageJobs
  <2>3. SavesItsBase(form', job')
    BY <2>2, JobKindsApart DEF SavesItsBase
  <2> QED
    BY <1>11, <2>1, <2>2, <2>3 DEF EditOK
<1> QED
  BY <1>8, <1>9, <1>10, <1>12, <1>13

LEMMA EditAnswers ==
    ASSUME FormInv, screen = "edit",
           \/ commitUpdate \/ commitRemoval \/ uploadImage \/ clearAfterChange \/ answerChanges
           \/ answerRemoval \/ refuseChange \/ refuseImage \/ failChanges \/ dieBeforeClear
    PROVE  EditOK(form', job')
<1>1. EditOK(form, job) /\ JobsFit(screen, form, job)
  BY JobsAlwaysFit, Zenon DEF FormInv
<1>2. job.kind \in Changes
  BY DEF commitUpdate, commitRemoval, uploadImage, clearAfterChange, answerChanges, answerRemoval,
     refuseChange, refuseImage, failChanges, dieBeforeClear, On, Changes
<1>3. form \in EditForm /\ job # NoJob
  BY <1>1, <1>2, FormFacts DEF JobsFit, Changes
<1>4. FieldsOK(form) /\ job \in SaveJobs \cup ImageJobs /\ form.submitting
  BY <1>1, <1>3, EditKnown
<1>5. PICK yes \in BOOLEAN : yes = TRUE
  OBVIOUS
<1>6. PICK no \in BOOLEAN : no = FALSE
  OBVIOUS
<1>7. CASE commitUpdate \/ commitRemoval \/ uploadImage \/ clearAfterChange
  <2>1. form' = form
    BY <1>7, Zenon DEF commitUpdate, commitRemoval, uploadImage, clearAfterChange
  <2>2. PICK s \in {"sent", "committed", "done"} : job' = [job EXCEPT !.stage = s]
    BY <1>7, Zenon DEF commitUpdate, commitRemoval, uploadImage, clearAfterChange
  <2> QED
    BY <1>1, <1>3, <2>1, <2>2, EditMoves
<1>8. CASE form' = Failed /\ job' = NoJob
  <2>1. form' = [form EXCEPT !.submitting = no, !.error = yes]
    BY <1>5, <1>6, <1>8 DEF Failed
  <2>2. form' \in EditForm /\ SameFields(form, form')
    BY <1>3, <2>1, EditFormTurns
  <2> QED
    BY <1>4, <1>8, <2>2, EditIdle
<1>9. CASE answerRemoval
  <2>1. form' = [form EXCEPT !.status = "left"] /\ job' = NoJob
    BY <1>9, Zenon DEF answerRemoval
  <2>2. form' \in EditForm /\ SameFields(form, form')
    BY <1>3, <1>5, <2>1, EditFormTurns
  <2> QED
    BY <1>4, <2>1, <2>2, EditIdle
<1>10. CASE answerChanges
  <2>1. CASE job.kind # "image" /\ job.data.image
    <3>1. /\ form' = form /\ job.kind \in {"save", "create", "image"}
          /\ job' = [kind |-> "image", stage |-> "sent", data |-> [owner |-> job.data.owner]]
      BY <1>10, <2>1, Zenon DEF answerChanges, Send
    <3>5. job \in SaveJobs
      BY <1>1, <2>1, <3>1 DEF JobsFit
    <3>4. job.data.owner \in FormOrgs
      BY <3>5 DEF SaveJobs, Saved
    <3>2. job' \in ImageJobs
      BY <3>1, <3>4 DEF ImageJobs
    <3>3. SavesItsBase(form', job')
      BY <3>2, JobKindsApart DEF SavesItsBase
    <3> QED
      BY <1>3, <1>4, <3>1, <3>2, <3>3 DEF EditOK
  <2>2. CASE ~(job.kind # "image" /\ job.data.image)
    <3>1. job' = NoJob /\ form' = [form EXCEPT !.submitting = no, !.done = yes]
      BY <1>5, <1>6, <1>10, <2>2 DEF answerChanges
    <3>2. form' \in EditForm /\ SameFields(form, form')
      BY <1>3, <3>1, EditFormTurns
    <3> QED
      BY <1>4, <3>1, <3>2, EditIdle
  <2> QED
    BY <2>1, <2>2
<1>11. CASE refuseImage
  <2>1. /\ form' = [[form EXCEPT !.submitting = no, !.error = yes] EXCEPT !.refused = form.refused + 1]
        /\ job' = NoJob
    BY <1>3, <1>5, <1>6, <1>11 DEF refuseImage, Failed, EditForm
  <2>2. form' \in EditForm /\ SameFields(form, form')
    BY <1>3, <2>1, EditFormTurns
  <2> QED
    BY <1>4, <2>1, <2>2, EditIdle
<1> QED
  BY <1>7, <1>8, <1>9, <1>10, <1>11, Zenon DEF refuseChange, failChanges, dieBeforeClear

LEMMA EditStep == ASSUME FormInv, FormNext, screen = "edit" PROVE EditOK(form', job')
BY EditActions, EditQuietly, EditLoads, EditInputs, EditAnswers, ZenonT(60) DEF EditNext


(* The creation form *)

CreateNext ==
    \/ storeDetails \/ expireDetails \/ otherClear \/ failFormLoad \/ retryFormLoad
    \/ \E o \in FormOrgs : toggleOrganization(o) \/ changeOwner(o) \/ changeAdmin(o)
    \/ uploadImage \/ clearAfterChange \/ answerChanges \/ refuseImage \/ failChanges
    \/ dieBeforeClear \/ \E chosen \in BOOLEAN : chooseImage(chosen)
    \/ loadResourceCreationAccess \/ submitResource \/ createResource
    \/ refuseCreation \/ createAnotherResource

LEMMA CreateActions == ASSUME FormInv, FormNext, screen = "create" PROVE CreateNext
<1>1. JobsFit(screen, form, job)
  BY JobsAlwaysFit
<1>2. job.kind \notin {"load", "save", "delete", "reviews", "rate", "slot"}
  BY <1>1 DEF JobsFit
<1>3. /\ ~findOne /\ ~applyDetails /\ ~denyEdit /\ ~commitUpdate /\ ~commitRemoval
      /\ ~answerRemoval /\ ~refuseChange
      /\ ~getRatings /\ ~applyRatings /\ ~upsertRating /\ ~handleRatingSubmitted
      /\ ~permitSlot /\ ~createResourceSlot /\ ~refuseSlot /\ ~answerSlot
  BY <1>2 DEF findOne, applyDetails, denyEdit, commitUpdate, commitRemoval, answerRemoval,
     refuseChange, getRatings, applyRatings,
     upsertRating, handleRatingSubmitted, permitSlot, createResourceSlot, refuseSlot, answerSlot, On
<1>4. /\ ~submitUpdate /\ ~handleDelete /\ ~submitSlot /\ ~tickForm
      /\ ~ \E value \in Texts : otherUpdate("text", value) \/ changeField("text", value)
      /\ ~ \E value \in FormNotices : otherUpdate("notice", value)
      /\ ~ \E value \in {"ACTIVE", "INACTIVE"} : markUnavailable(value)
      /\ ~ \E rating \in {1, 2} : handleSubmit(rating) \/ rateElsewhere(rating)
      /\ ~ \E open \in BOOLEAN : changeOpen(open)
      /\ ~ \E r \in Ranges : setRange(r)
  BY DEF submitUpdate, handleDelete, submitSlot, tickForm, otherUpdate, changeField,
     markUnavailable, handleSubmit, rateElsewhere, changeOpen, setRange
<1> QED
  BY <1>3, <1>4, ZenonT(60) DEF FormNext, CreateNext

OffersOK(f) == f.owners = {o \in FormOrgs : canActivate(f.admins, o)}
SameOffer(f, g) == g.owners = f.owners /\ g.admins = f.admins

LEMMA CreateKnown ==
    ASSUME NEW f \in CreateForm, NEW j, NEW m, NEW n, CreateOK(f, j, m, n)
    PROVE  /\ OffersOK(f) /\ m \in Nat /\ m <= n + f.refused + (IF MadeOne(f, j) THEN 1 ELSE 0)
           /\ f.refused \in Nat /\ (j # NoJob => f.submitting /\ ~f.done)
           /\ j \in CreateJobs \cup ImageJobs \cup {NoJob}
<1>1. f \notin BareForm /\ f.refused \in Nat
  BY DEF CreateForm, BareForm
<1> QED
  BY <1>1 DEF CreateOK, OffersOK

\* What is typed while a request is under way changes nothing of that.
LEMMA CreateCarries ==
    ASSUME NEW f \in CreateForm, NEW g \in CreateForm, NEW j, NEW m, NEW n, CreateOK(f, j, m, n),
           SameOffer(f, g), g.refused = f.refused, f.submitting => g.submitting,
           g.done <=> f.done
    PROVE  CreateOK(g, j, m, n)
<1>1. f \notin BareForm
  BY DEF CreateForm, BareForm
<1>2. MadeOne(f, j) <=> MadeOne(g, j)
  BY DEF MadeOne
<1>3. m <= n + g.refused + (IF MadeOne(g, j) THEN 1 ELSE 0)
  BY <1>1, <1>2 DEF CreateOK
<1>4. g.owners = {o \in FormOrgs : canActivate(g.admins, o)}
  BY <1>1, Zenon DEF CreateOK, SameOffer
<1> QED
  BY <1>1, <1>3, <1>4 DEF CreateOK

LEMMA CreateIdle ==
    ASSUME NEW f, NEW g \in CreateForm, OffersOK(f), SameOffer(f, g), NEW m \in Nat, NEW n \in Nat,
           m <= n + g.refused \/ (g.done /\ m <= n + g.refused + 1)
    PROVE  CreateOK(g, NoJob, m, n)
<1>1. g.owners = {o \in FormOrgs : canActivate(g.admins, o)}
  BY Zenon DEF OffersOK, SameOffer
<1>2. m <= n + g.refused + (IF MadeOne(g, NoJob) THEN 1 ELSE 0)
  <2>1. g.done => MadeOne(g, NoJob)
    BY DEF MadeOne
  <2>2. g.refused \in Nat
    BY DEF CreateForm
  <2> QED
    BY <2>1, <2>2
<1> QED
  BY <1>1, <1>2 DEF CreateOK

LEMMA CreateBusy ==
    ASSUME NEW f, NEW g \in CreateForm, OffersOK(f), SameOffer(f, g), g.submitting, ~g.done,
           NEW m \in Nat, NEW n \in Nat,
           NEW j, j \in CreateJobs \/ (j \in ImageJobs /\ j.kind = "image"),
           NEW k \in Nat, k = n + g.refused,
           m <= k \/ (j.stage # "sent" /\ m <= k + 1) \/ (j.kind = "image" /\ m <= k + 1)
    PROVE  CreateOK(g, j, m, n)
<1>1. g.owners = {o \in FormOrgs : canActivate(g.admins, o)}
  BY Zenon DEF OffersOK, SameOffer
<1>2. m <= n + g.refused + (IF MadeOne(g, j) THEN 1 ELSE 0)
  <2>1. j.kind = "image" => MadeOne(g, j)
    BY DEF MadeOne
  <2>2. j.stage # "sent" => MadeOne(g, j)
    BY JobKindsApart DEF MadeOne
  <2> QED
    BY <2>1, <2>2
<1> QED
  BY <1>1, <1>2 DEF CreateOK

LEMMA CreateQuietly ==
    ASSUME FormInv, screen = "create",
           storeDetails \/ expireDetails \/ otherClear \/ \E o \in FormOrgs : changeAdmin(o)
    PROVE  CreateOK(form', job', made', formFaults')
<1>1. form' = form /\ job' = job /\ made' = made /\ formFaults' = formFaults
  BY Zenon DEF storeDetails, expireDetails, otherClear, changeAdmin, elsewhere
<1> QED
  BY <1>1 DEF FormInv

LEMMA CreateLoads ==
    ASSUME FormInv, screen = "create",
           loadResourceCreationAccess \/ failFormLoad \/ retryFormLoad
    PROVE  CreateOK(form', job', made', formFaults')
<1>1. /\ CreateOK(form, job, made, formFaults) /\ JobsFit(screen, form, job)
      /\ adminOf \in SUBSET FormOrgs /\ formFaults \in Nat
  BY JobsAlwaysFit, Zenon DEF FormInv, RowsOK
<1>2. form \in BareForm
  <2>1. CASE loadResourceCreationAccess
    BY <1>1, <2>1 DEF loadResourceCreationAccess, JobsFit, On
  <2>2. CASE failFormLoad
    BY <1>1, <2>2 DEF failFormLoad, JobsFit
  <2>3. CASE retryFormLoad
    <3>1. form.status = "error"
      BY <2>3 DEF retryFormLoad
    <3> QED
      BY <1>1, <3>1 DEF CreateOK, CreateForm
  <2> QED
    BY <2>1, <2>2, <2>3
<1>3. made = 0 /\ made' = made
  <2>1. form \notin CreateForm
    BY <1>2 DEF CreateForm, BareForm
  <2>2. made = 0
    BY <1>1, <2>1 DEF CreateOK
  <2> QED
    BY <2>2, Zenon DEF loadResourceCreationAccess, failFormLoad, retryFormLoad, elsewhere
<1>4. \A s \in {"loading", "error", "denied"} : [form EXCEPT !.status = s] \in BareForm
  BY <1>2 DEF BareForm
<1>5. CASE failFormLoad
  <2>1. form' \in BareForm /\ job' = NoJob
    BY <1>4, <1>5 DEF failFormLoad
  <2> QED
    BY <1>3, <2>1 DEF CreateOK
<1>6. CASE retryFormLoad
  <2>1. form' \in BareForm /\ job' = [kind |-> "access", stage |-> "sent", data |-> NoDetails]
    BY <1>4, <1>6 DEF retryFormLoad, Send, FirstJob
  <2>2. job' \in AccessJobs
    BY <2>1 DEF AccessJobs
  <2> QED
    BY <1>3, <2>1, <2>2 DEF CreateOK
<1>7. CASE loadResourceCreationAccess
  <2>1. PICK offered : offered = {o \in FormOrgs : isOrganizationManaged(adminOf, o)}
    OBVIOUS
  <2>2. PICK chosen : chosen = IF offered = {} THEN 0
                               ELSE IF adminOf # {} THEN First(adminOf) ELSE First(offered)
    OBVIOUS
  <2>3. PICK S : S = IF chosen = 0 THEN {} ELSE {chosen}
    OBVIOUS
  <2>4. PICK no \in BOOLEAN : no = FALSE
    OBVIOUS
  <2>5. /\ form' = [status |-> "loaded", submitting |-> no, error |-> no,
                    done |-> no, owners |-> offered, owner |-> chosen,
                    allowed |-> S, image |-> no, refused |-> 0, admins |-> adminOf]
        /\ job' = NoJob /\ formFaults' = formFaults
    BY <1>7, <2>1, <2>2, <2>3, <2>4 DEF loadResourceCreationAccess
  <2>6. offered \in SUBSET FormOrgs
    BY <2>1
  <2>7. chosen \in FormOrgs \cup {0} /\ S \in SUBSET (FormOrgs \cup {0})
    BY <1>1, <2>2, <2>3, <2>6, FirstIsOne
  <2>8. form' \in CreateForm
    BY <1>1, <2>4, <2>5, <2>6, <2>7 DEF CreateForm
  <2>9. offered = {o \in FormOrgs : canActivate(adminOf, o)}
    BY <1>1, <2>1, GuardsAgree
  <2>10. OffersOK(form') /\ SameOffer(form', form') /\ form'.refused = 0
    BY <2>5, <2>9 DEF OffersOK, SameOffer
  <2> QED
    BY <1>1, <1>3, <2>5, <2>8, <2>10, CreateIdle
<1> QED
  BY <1>5, <1>6, <1>7


LEMMA CreateInputs ==
    ASSUME FormInv, screen = "create",
           \/ \E o \in FormOrgs : toggleOrganization(o) \/ changeOwner(o)
           \/ \E chosen \in BOOLEAN : chooseImage(chosen)
           \/ submitResource \/ createAnotherResource
    PROVE  CreateOK(form', job', made', formFaults')
<1>1. CreateOK(form, job, made, formFaults) /\ formFaults \in Nat
  BY Zenon DEF FormInv, RowsOK
<1>2. form.status = "loaded" /\ formFaults' = formFaults
  BY Zenon DEF toggleOrganization, changeOwner, chooseImage, submitResource, MaySubmit,
     createAnotherResource, Editable
<1>3. form \in CreateForm
  BY <1>1, <1>2 DEF CreateOK, BareForm
<1>4. OffersOK(form) /\ made \in Nat /\ form.refused \in Nat
  BY <1>1, <1>3, CreateKnown
<1>5. PICK yes \in BOOLEAN : yes = TRUE
  OBVIOUS
<1>6. PICK no \in BOOLEAN : no = FALSE
  OBVIOUS
<1>8. CASE \E o \in FormOrgs : toggleOrganization(o)
  <2>1. PICK o \in FormOrgs : toggleOrganization(o)
    BY <1>8
  <2>2. PICK S : S = IF o \in form.allowed THEN form.allowed \ {o} ELSE form.allowed \cup {o}
    OBVIOUS
  <2>3. form' = [form EXCEPT !.allowed = S] /\ job' = job /\ made' = made
    BY <2>1, <2>2 DEF toggleOrganization, changeAllowedOrganization, elsewhere
  <2>4. S \in SUBSET (FormOrgs \cup {0})
    BY <1>3, <2>2 DEF CreateForm
  <2>5. form' \in CreateForm /\ SameOffer(form, form') /\ form'.refused = form.refused
    BY <1>3, <2>3, <2>4 DEF CreateForm, SameOffer
  <2>6. (form.submitting => form'.submitting) /\ (form'.done <=> form.done)
    BY <1>3, <2>3 DEF CreateForm
  <2> QED
    BY <1>1, <1>2, <1>3, <2>3, <2>5, <2>6, CreateCarries
<1>9. CASE \E chosen \in BOOLEAN : chooseImage(chosen)
  <2>1. PICK chosen \in BOOLEAN : form' = [form EXCEPT !.image = chosen] /\ job' = job /\ made' = made
    BY <1>9 DEF chooseImage, elsewhere
  <2>2. form' \in CreateForm /\ SameOffer(form, form') /\ form'.refused = form.refused
    BY <1>3, <2>1 DEF CreateForm, SameOffer
  <2>3. (form.submitting => form'.submitting) /\ (form'.done <=> form.done)
    BY <1>3, <2>1 DEF CreateForm
  <2> QED
    BY <1>1, <1>2, <1>3, <2>1, <2>2, <2>3, CreateCarries
<1>10. CASE \E o \in FormOrgs : changeOwner(o)
  <2>1. PICK o \in FormOrgs : changeOwner(o)
    BY <1>10
  <2>2. /\ form' = [form EXCEPT !.owner = o, !.allowed = {o}, !.error = no]
        /\ job' = job /\ made' = made
    BY <1>6, <2>1 DEF changeOwner, elsewhere
  <2>3. form' \in CreateForm /\ SameOffer(form, form') /\ form'.refused = form.refused
    BY <1>3, <2>2 DEF CreateForm, SameOffer
  <2>4. (form.submitting => form'.submitting) /\ (form'.done <=> form.done)
    BY <1>3, <2>2 DEF CreateForm
  <2> QED
    BY <1>1, <1>2, <1>3, <2>2, <2>3, <2>4, CreateCarries
<1>11. CASE createAnotherResource
  <2>1. PICK S : S = {form.owner}
    OBVIOUS
  <2>2. /\ form' = [form EXCEPT !.done = no, !.error = no, !.image = no, !.allowed = S,
                                !.refused = 0]
        /\ job' = job /\ made' = 0 /\ form.done
    BY <1>6, <1>11, <2>1 DEF createAnotherResource
  <2>3. S \in SUBSET (FormOrgs \cup {0})
    BY <1>3, <2>1 DEF CreateForm
  <2>4. form' \in CreateForm /\ SameOffer(form, form') /\ form'.refused \in Nat
    BY <1>3, <2>2, <2>3 DEF CreateForm, SameOffer
  <2>5. job' = NoJob
    BY <1>1, <1>3, <2>2, CreateKnown
  <2>6. made' \in Nat /\ formFaults' \in Nat /\ made' <= formFaults' + form'.refused
    BY <1>1, <1>2, <2>2, <2>4
  <2> QED
    BY <1>4, <2>4, <2>5, <2>6, CreateIdle, Zenon
<1>12. CASE submitResource
  <2>1. /\ form' = [form EXCEPT !.submitting = yes, !.error = no] /\ made' = made
        /\ job' = [kind |-> "create", stage |-> "sent",
                   data |-> [owner |-> form.owner, allowed |-> form.allowed,
                             image |-> form.image]]
        /\ form.owner # 0 /\ ~form.done /\ ~form.submitting
    BY <1>5, <1>6, <1>12 DEF submitResource, MaySubmit, Editable, Submitted, Send, elsewhere
  <2>2. /\ form' \in CreateForm /\ SameOffer(form, form') /\ form'.done = form.done
        /\ form'.refused = form.refused
    BY <1>3, <2>1 DEF CreateForm, SameOffer
  <2>3. form'.submitting
    BY <1>3, <1>5, <2>1 DEF CreateForm
  <2>4. /\ form.owner \in FormOrgs /\ form.allowed \in SUBSET (FormOrgs \cup {0})
        /\ form.image \in BOOLEAN
    BY <1>3, <2>1 DEF CreateForm
  <2>5. job' \in CreateJobs
    BY <2>1, <2>4 DEF CreateJobs
  <2>6. made <= formFaults + form.refused
    <3>1. job = NoJob /\ ~MadeOne(form, job)
      BY <1>1, <1>3, <2>1, CreateKnown, FormFacts DEF MadeOne
    <3> QED
      BY <1>1, <1>3, <1>4, <3>1, CreateKnown
  <2>7. PICK k \in Nat : k = formFaults + form'.refused
    BY <1>1, <1>4, <2>2
  <2>8. made <= k
    BY <2>2, <2>6, <2>7
  <2> QED
    BY <1>1, <1>2, <1>4, <2>1, <2>2, <2>3, <2>5, <2>7, <2>8, CreateBusy
<1> QED
  BY <1>8, <1>9, <1>10, <1>11, <1>12

LEMMA CreateAnswers ==
    ASSUME FormInv, screen = "create",
           \/ createResource \/ refuseCreation \/ uploadImage \/ clearAfterChange
           \/ answerChanges \/ refuseImage \/ failChanges \/ dieBeforeClear
    PROVE  CreateOK(form', job', made', formFaults')
<1>1. /\ CreateOK(form, job, made, formFaults) /\ formFaults \in Nat
      /\ JobsFit(screen, form, job)
  BY JobsAlwaysFit, Zenon DEF FormInv, RowsOK
<1>2. job.kind \in Changes
  BY DEF createResource, refuseCreation, uploadImage, clearAfterChange, answerChanges, refuseImage,
     failChanges, dieBeforeClear, On, Changes
<1>3. form \in CreateForm /\ job # NoJob /\ job.kind \in {"create", "image"}
  BY <1>1, <1>2, FormFacts DEF JobsFit, Changes
<1>4. /\ OffersOK(form) /\ made \in Nat /\ form.submitting /\ ~form.done /\ form.refused \in Nat
      /\ made <= formFaults + form.refused + (IF MadeOne(form, job) THEN 1 ELSE 0)
      /\ job \in CreateJobs \/ (job \in ImageJobs /\ job.kind = "image")
  BY <1>1, <1>3, CreateKnown, JobKindsApart
<1>5. PICK yes \in BOOLEAN : yes = TRUE
  OBVIOUS
<1>6. PICK no \in BOOLEAN : no = FALSE
  OBVIOUS
<1>15. PICK k \in Nat : k = formFaults + form.refused
  BY <1>1, <1>4
<1>7. made <= k + 1 /\ SameOffer(form, form)
  BY <1>1, <1>4, <1>15 DEF SameOffer
<1>8. job.kind = "create" /\ job.stage = "sent" => made <= k
  <2>1. job.kind = "create" /\ job.stage = "sent" => ~MadeOne(form, job)
    BY <1>4 DEF MadeOne
  <2> QED
    BY <1>1, <1>4, <1>15, <2>1
<1>9. CASE createResource
  <2>1. /\ form' = form /\ made' = made + 1 /\ formFaults' = formFaults
        /\ job' = [job EXCEPT !.stage = "committed"] /\ job.kind = "create" /\ job.stage = "sent"
    BY <1>9, Zenon DEF createResource, On
  <2>2. job' \in CreateJobs /\ job'.stage = "committed"
    BY <1>4, <2>1, JobStages, JobKindsApart
  <2>3. made' \in Nat /\ made' <= k + 1
    BY <1>1, <1>4, <1>8, <2>1
  <2> QED
    BY <1>1, <1>3, <1>4, <1>7, <1>15, <2>1, <2>2, <2>3, CreateBusy
<1>10. CASE uploadImage \/ clearAfterChange
  <2>1. form' = form /\ made' = made /\ formFaults' = formFaults
    BY <1>10, Zenon DEF uploadImage, clearAfterChange, elsewhere
  <2>2. PICK s \in {"committed", "done"} : job' = [job EXCEPT !.stage = s]
    BY <1>10, Zenon DEF uploadImage, clearAfterChange
  <2>3. \/ job' \in CreateJobs /\ job'.stage # "sent"
        \/ job' \in ImageJobs /\ job'.kind = "image"
    BY <1>4, <2>2, JobStages
  <2> QED
    BY <1>1, <1>3, <1>4, <1>7, <1>15, <2>1, <2>3, CreateBusy
<1>11. ASSUME form' = Failed
       PROVE  form' \in CreateForm /\ SameOffer(form, form') /\ form'.refused = form.refused
  <2>1. form' = [form EXCEPT !.submitting = no, !.error = yes]
    BY <1>5, <1>6, <1>11 DEF Failed
  <2> QED
    BY <1>3, <2>1 DEF CreateForm, SameOffer
<1>12. CASE refuseCreation
  <2>1. /\ form' = Failed /\ made' = made /\ formFaults' = formFaults /\ job' = NoJob
        /\ job.kind = "create" /\ job.stage = "sent"
    BY <1>12, Zenon DEF refuseCreation, On, elsewhere
  <2> QED
    BY <1>1, <1>4, <1>8, <1>11, <1>15, <2>1, CreateIdle
<1>13. CASE failChanges \/ dieBeforeClear
  <2>1. form' = Failed /\ made' = made /\ formFaults' = formFaults + 1 /\ job' = NoJob
    BY <1>13, Zenon DEF failChanges, dieBeforeClear, FormFault, elsewhere
  <2>2. formFaults' \in Nat /\ made <= formFaults' + form'.refused
    BY <1>1, <1>4, <1>7, <1>11, <1>15, <2>1
  <2> QED
    BY <1>4, <1>11, <2>1, <2>2, CreateIdle
<1>14. CASE answerChanges
  <2>1. made' = made /\ formFaults' = formFaults
    BY <1>14, Zenon DEF answerChanges, elsewhere
  <2>2. CASE job.kind # "image" /\ job.data.image
    <3>1. /\ form' = form
          /\ job' = [kind |-> "image", stage |-> "sent", data |-> [owner |-> job.data.owner]]
      BY <1>14, <2>2, Zenon DEF answerChanges, Send
    <3>3. job.data.owner \in FormOrgs
      BY <1>3, <1>4, <2>2 DEF CreateJobs
    <3>2. job' \in ImageJobs /\ job'.kind = "image"
      BY <3>1, <3>3 DEF ImageJobs
    <3> QED
      BY <1>1, <1>3, <1>4, <1>7, <1>15, <2>1, <3>1, <3>2, CreateBusy
  <2>3. CASE ~(job.kind # "image" /\ job.data.image)
    <3>1. job' = NoJob /\ form' = [form EXCEPT !.submitting = no, !.done = yes]
      BY <1>5, <1>6, <1>14, <2>3 DEF answerChanges
    <3>2. form' \in CreateForm /\ SameOffer(form, form') /\ form'.refused = form.refused
      BY <1>3, <3>1 DEF CreateForm, SameOffer
    <3>3. form'.done
      BY <1>3, <1>5, <3>1 DEF CreateForm
    <3> QED
      BY <1>1, <1>4, <1>7, <1>15, <2>1, <3>1, <3>2, <3>3, CreateIdle
  <2> QED
    BY <2>2, <2>3
<1>16. CASE refuseImage
  <2>1. /\ form' = [[form EXCEPT !.submitting = no, !.error = yes] EXCEPT !.refused = form.refused + 1]
        /\ made' = made /\ formFaults' = formFaults /\ job' = NoJob
    BY <1>3, <1>5, <1>6, <1>16 DEF refuseImage, Failed, CreateForm, elsewhere
  <2>2. form.refused + 1 \in Nat
    BY <1>4
  <2>3. form' \in CreateForm /\ SameOffer(form, form') /\ form'.refused = form.refused + 1
    BY <1>3, <2>1, <2>2 DEF CreateForm, SameOffer
  <2>4. made <= formFaults + form'.refused
    BY <1>1, <1>4, <1>7, <1>15, <2>3
  <2> QED
    BY <1>1, <1>4, <2>1, <2>3, <2>4, CreateIdle
<1> QED
  BY <1>9, <1>10, <1>12, <1>13, <1>14, <1>16

LEMMA CreateStep ==
    ASSUME FormInv, FormNext, screen = "create"
    PROVE  CreateOK(form', job', made', formFaults')
BY CreateActions, CreateQuietly, CreateLoads, CreateInputs, CreateAnswers, ZenonT(60) DEF CreateNext


(* The reviews *)

ReviewNext ==
    \/ storeDetails \/ expireDetails \/ otherClear \/ failFormLoad \/ retryFormLoad \/ failChanges
    \/ getRatings \/ applyRatings \/ upsertRating \/ handleRatingSubmitted
    \/ \E rating \in {1, 2} : handleSubmit(rating) \/ rateElsewhere(rating)

LEMMA ReviewActions == ASSUME FormInv, FormNext, screen = "reviews" PROVE ReviewNext
<1>1. JobsFit(screen, form, job)
  BY JobsAlwaysFit
<1>2. job.kind \notin {"load", "access", "save", "delete", "create", "image", "slot"}
  BY <1>1 DEF JobsFit
<1>3. /\ ~findOne /\ ~applyDetails /\ ~denyEdit /\ ~commitUpdate /\ ~commitRemoval
      /\ ~uploadImage /\ ~clearAfterChange /\ ~answerChanges /\ ~answerRemoval /\ ~refuseChange
      /\ ~refuseImage /\ ~dieBeforeClear /\ ~loadResourceCreationAccess /\ ~createResource /\ ~refuseCreation
      /\ ~permitSlot /\ ~createResourceSlot /\ ~refuseSlot /\ ~answerSlot
  BY <1>2 DEF findOne, applyDetails, denyEdit, commitUpdate, commitRemoval, uploadImage,
     clearAfterChange, answerChanges, answerRemoval, refuseChange, dieBeforeClear,
     loadResourceCreationAccess, createResource, refuseCreation,
     permitSlot, createResourceSlot, refuseSlot, answerSlot, refuseImage, On
<1>4. /\ ~submitUpdate /\ ~handleDelete /\ ~submitSlot /\ ~tickForm
      /\ ~ \E chosen \in BOOLEAN : chooseImage(chosen)
      /\ ~submitResource /\ ~createAnotherResource
      /\ ~ \E value \in Texts : otherUpdate("text", value) \/ changeField("text", value)
      /\ ~ \E value \in FormNotices : otherUpdate("notice", value)
      /\ ~ \E value \in {"ACTIVE", "INACTIVE"} : markUnavailable(value)
      /\ ~ \E o \in FormOrgs : toggleOrganization(o) \/ changeOwner(o) \/ changeAdmin(o)
      /\ ~ \E open \in BOOLEAN : changeOpen(open)
      /\ ~ \E r \in Ranges : setRange(r)
  BY DEF submitUpdate, handleDelete, submitSlot, tickForm, chooseImage, submitResource, MaySubmit,
     createAnotherResource, otherUpdate, changeField, markUnavailable, toggleOrganization,
     changeOwner, changeAdmin, changeOpen, setRange
<1> QED
  BY <1>3, <1>4, ZenonT(60) DEF FormNext, ReviewNext

LEMMA ReviewStep ==
    ASSUME FormInv, FormNext, screen = "reviews" PROVE ReviewsOK(form', job', made')
<1>1. ReviewsOK(form, job, made) /\ ReviewNext
  BY ReviewActions, Zenon DEF FormInv
<1>2. form \in ReviewForm /\ made \in Ratings
  BY <1>1, Zenon DEF ReviewsOK
<1>3. PICK yes \in BOOLEAN : yes = TRUE
  OBVIOUS
<1>4. PICK no \in BOOLEAN : no = FALSE
  OBVIOUS
<1>5. CASE storeDetails \/ expireDetails \/ otherClear
  <2>1. form' = form /\ job' = job /\ made' = made
    BY <1>5, Zenon DEF storeDetails, expireDetails, otherClear, elsewhere
  <2> QED
    BY <1>1, <2>1
<1>6. CASE failFormLoad
  <2>1. form' = [form EXCEPT !.status = "error"] /\ job' = NoJob /\ made' = made
    BY <1>6, Zenon DEF failFormLoad, elsewhere
  <2>2. form' \in ReviewForm /\ form'.told = form.told /\ form'.elsewhere = form.elsewhere
        /\ form'.status = "error"
    BY <1>2, <2>1 DEF ReviewForm
  <2> QED
    BY <1>1, <2>1, <2>2, FormFacts DEF ReviewsOK
<1>7. CASE retryFormLoad
  <2>1. /\ form' = [form EXCEPT !.status = "loading"] /\ made' = made
        /\ job' = [kind |-> "reviews", stage |-> "sent", data |-> NoDetails]
    BY <1>7 DEF retryFormLoad, Send, FirstJob, elsewhere
  <2>2. form' \in ReviewForm /\ form'.told = form.told /\ form'.elsewhere = form.elsewhere
        /\ form'.status = "loading"
    BY <1>2, <2>1 DEF ReviewForm
  <2>3. job' \in AskJobs /\ job'.kind = "reviews" /\ job'.stage = "sent"
    BY <2>1 DEF AskJobs
  <2> QED
    BY <1>1, <2>1, <2>2, <2>3 DEF ReviewsOK
<1>8. CASE failChanges
  <2>1. form' = [form EXCEPT !.submitting = no, !.error = yes] /\ job' = NoJob /\ made' = made
    BY <1>3, <1>4, <1>8 DEF failChanges, Failed, elsewhere
  <2>2. form' \in ReviewForm /\ form'.told = form.told /\ form'.elsewhere = form.elsewhere
        /\ form'.status = form.status /\ form'.mine = form.mine
    BY <1>2, <2>1 DEF ReviewForm
  <2> QED
    BY <1>1, <2>1, <2>2, FormFacts DEF ReviewsOK
<1>9. CASE getRatings
  <2>1. /\ form' = form /\ made' = made /\ job.kind = "reviews" /\ job.stage = "sent"
        /\ job' = [job EXCEPT !.stage = "read", !.data = made]
    BY <1>9, Zenon DEF getRatings, On, elsewhere
  <2>2. job \in AskJobs
    BY <1>1, <2>1, FormFacts DEF ReviewsOK
  <2>3. job' \in ReviewJobs /\ job'.kind = "reviews" /\ job'.stage = "read" /\ job'.data = made
    BY <1>2, <2>1, <2>2 DEF AskJobs, ReviewJobs
  <2> QED
    BY <1>1, <2>1, <2>3 DEF ReviewsOK
<1>10. CASE applyRatings
  <2>1. /\ form' = [form EXCEPT !.status = "loaded", !.mine = job.data] /\ job' = NoJob
        /\ made' = made /\ job.kind = "reviews" /\ job.stage = "read"
    BY <1>10, Zenon DEF applyRatings, On, elsewhere
  <2>2. job \in ReviewJobs
    BY <1>1, <2>1, FormFacts DEF ReviewsOK
  <2>3. PICK d \in Ratings : d = job.data
    BY <2>2 DEF ReviewJobs
  <2>4. form' \in ReviewForm /\ form'.told = form.told /\ form'.elsewhere = form.elsewhere
        /\ form'.mine = d
    BY <1>2, <2>1, <2>3 DEF ReviewForm
  <2> QED
    BY <1>1, <2>1, <2>3, <2>4, FormFacts DEF ReviewsOK
<1>11. CASE \E rating \in {1, 2} : handleSubmit(rating)
  <2>1. PICK rating \in {1, 2} : handleSubmit(rating)
    BY <1>11
  <2>2. PICK zero \in Ratings : zero = 0
    BY DEF Ratings
  <2>3. /\ form' = [[form EXCEPT !.submitting = yes, !.error = no] EXCEPT !.told = zero]
        /\ made' = made
        /\ job' = [kind |-> "rate", stage |-> "sent", data |-> rating]
    BY <1>3, <1>4, <2>1, <2>2 DEF handleSubmit, Submitted, Send, elsewhere
  <2>4. form' \in ReviewForm /\ form'.told = 0 /\ form'.elsewhere = form.elsewhere
    BY <1>2, <2>2, <2>3 DEF ReviewForm
  <2>5. job' \in RateJobs /\ job'.kind = "rate" /\ job'.stage = "sent"
    BY <2>3 DEF RateJobs, Ratings
  <2> QED
    BY <1>1, <2>3, <2>4, <2>5 DEF ReviewsOK
<1>12. CASE upsertRating
  <2>1. /\ form' = form /\ made' = job.data /\ job.kind = "rate"
        /\ job' = [job EXCEPT !.stage = "done"]
    BY <1>12, Zenon DEF upsertRating, On
  <2>2. job \in RateJobs /\ form.told = 0
    BY <1>1, <2>1, FormFacts DEF ReviewsOK
  <2>3. job' \in RateJobs /\ job'.kind = "rate" /\ job'.data = job.data /\ job.data \in Ratings
    BY <2>1, <2>2 DEF RateJobs
  <2> QED
    BY <1>1, <2>1, <2>2, <2>3 DEF ReviewsOK
<1>13. CASE handleRatingSubmitted
  <2>1. /\ job.kind = "rate" /\ job.stage = "done" /\ made' = made
        /\ form' = [form EXCEPT !.submitting = no, !.status = "loading", !.told = job.data]
        /\ job' = [kind |-> "reviews", stage |-> "sent", data |-> NoDetails]
    BY <1>4, <1>13 DEF handleRatingSubmitted, On, Send, elsewhere
  <2>2. job \in RateJobs
    BY <1>1, <2>1, FormFacts DEF ReviewsOK
  <2>3. PICK d \in Ratings : d = job.data
    BY <2>2 DEF RateJobs
  <2>4. form' \in ReviewForm /\ form'.told = d /\ form'.elsewhere = form.elsewhere
        /\ form'.status = "loading"
    BY <1>2, <2>1, <2>3 DEF ReviewForm
  <2>5. job' \in AskJobs /\ job'.kind = "reviews" /\ job'.stage = "sent"
    BY <2>1 DEF AskJobs
  <2> QED
    BY <1>1, <2>1, <2>3, <2>4, <2>5 DEF ReviewsOK
<1>14. CASE \E rating \in {1, 2} : rateElsewhere(rating)
  <2>1. PICK rating \in {1, 2} : rateElsewhere(rating)
    BY <1>14
  <2>2. form' = [form EXCEPT !.elsewhere = yes] /\ made' = rating /\ job' = job
    BY <1>3, <2>1 DEF rateElsewhere
  <2>3. form' \in ReviewForm /\ form'.told = form.told /\ form'.elsewhere /\ made' \in Ratings
    BY <1>2, <1>3, <2>1, <2>2 DEF ReviewForm, Ratings
  <2> QED
    BY <1>1, <2>2, <2>3 DEF ReviewsOK
<1> QED
  BY <1>1, <1>5, <1>6, <1>7, <1>8, <1>9, <1>10, <1>11, <1>12, <1>13, <1>14, Zenon DEF ReviewNext


(* The dialog that publishes a slot *)

SlotNext ==
    \/ storeDetails \/ expireDetails \/ otherClear \/ failChanges
    \/ \E value \in {"ACTIVE", "INACTIVE"} : markUnavailable(value)
    \/ \E o \in FormOrgs : changeAdmin(o)
    \/ \E open \in BOOLEAN : changeOpen(open)
    \/ \E r \in Ranges : setRange(r)
    \/ submitSlot \/ permitSlot \/ createResourceSlot \/ refuseSlot \/ answerSlot \/ tickForm

LEMMA SlotActions == ASSUME FormInv, FormNext, screen = "slots" PROVE SlotNext
<1>1. JobsFit(screen, form, job)
  BY JobsAlwaysFit
<1>2. job.kind \notin {"load", "access", "save", "delete", "create", "image", "reviews", "rate"}
  BY <1>1 DEF JobsFit
<1>3. /\ ~findOne /\ ~applyDetails /\ ~denyEdit /\ ~commitUpdate /\ ~commitRemoval
      /\ ~uploadImage /\ ~clearAfterChange /\ ~answerChanges /\ ~answerRemoval /\ ~refuseChange
      /\ ~refuseImage /\ ~dieBeforeClear /\ ~loadResourceCreationAccess /\ ~createResource /\ ~refuseCreation
      /\ ~getRatings /\ ~applyRatings /\ ~upsertRating /\ ~handleRatingSubmitted /\ ~failFormLoad
  BY <1>2 DEF findOne, applyDetails, denyEdit, commitUpdate, commitRemoval, uploadImage,
     clearAfterChange, answerChanges, answerRemoval, refuseChange, dieBeforeClear,
     loadResourceCreationAccess, createResource, refuseCreation, getRatings, applyRatings,
     upsertRating, handleRatingSubmitted, failFormLoad, refuseImage, On
<1>4. ~retryFormLoad
  <2>1. form.status = "ready"
    BY DEF FormInv, SlotsOK, SlotForm
  <2> QED
    BY <2>1 DEF retryFormLoad
<1>5. /\ ~submitUpdate /\ ~handleDelete /\ ~submitResource /\ ~createAnotherResource
      /\ ~ \E chosen \in BOOLEAN : chooseImage(chosen)
      /\ ~ \E value \in Texts : otherUpdate("text", value) \/ changeField("text", value)
      /\ ~ \E value \in FormNotices : otherUpdate("notice", value)
      /\ ~ \E o \in FormOrgs : toggleOrganization(o) \/ changeOwner(o)
      /\ ~ \E rating \in {1, 2} : handleSubmit(rating) \/ rateElsewhere(rating)
  BY DEF submitUpdate, handleDelete, chooseImage, submitResource, MaySubmit,
     createAnotherResource, otherUpdate, changeField, toggleOrganization,
     changeOwner, handleSubmit, rateElsewhere
<1> QED
  BY <1>3, <1>4, <1>5, ZenonT(60) DEF FormNext, SlotNext

\* The range that is offered first begins after now.
LEMMA FirstRangeIsAhead ==
    ASSUME clock \in Nat
    PROVE  /\ createInitialRange \in TimeRanges /\ createInitialRange.startsAt > clock
           /\ createInitialRange.endsAt > createInitialRange.startsAt
<1>1. PICK h : h = HourLength
  OBVIOUS
<1>2. PICK q : q = clock \div h
  OBVIOUS
<1>3. h \in Nat \ {0}
  BY <1>1, ResourceFormsAssumption
<1>4. q \in Nat /\ clock < h * q + h
  BY <1>2, <1>3, DivBounds
<1>5. PICK starts : starts = (q + 1) * h
  OBVIOUS
<1>6. starts \in Nat /\ starts > clock /\ starts + h \in Nat /\ starts + h > starts
  BY <1>3, <1>4, <1>5
<1>7. createInitialRange = [startsAt |-> starts, endsAt |-> starts + h]
  BY <1>1, <1>2, <1>5 DEF createInitialRange, TimeRange
<1> QED
  BY <1>6, <1>7 DEF TimeRanges

LEMMA SlotStep ==
    ASSUME FormInv, FormNext, screen = "slots" PROVE SlotsOK(form', job', slots', clock')
<1>1. SlotsOK(form, job, slots, clock) /\ SlotNext
  BY SlotActions, Zenon DEF FormInv
<1>2. form \in SlotForm /\ clock \in Nat /\ form.at \in Nat /\ form.at <= clock
  BY <1>1 DEF SlotsOK, SlotForm
<1>3. NoRange \in TimeRanges
  BY DEF NoRange, TimeRange, TimeRanges
<1>4. PICK yes \in BOOLEAN : yes = TRUE
  OBVIOUS
<1>5. PICK no \in BOOLEAN : no = FALSE
  OBVIOUS
<1>6. NoJob \notin SlotJobs
  BY DEF NoJob, SlotJobs
<1>7. CASE \/ storeDetails \/ expireDetails \/ otherClear
           \/ \E value \in {"ACTIVE", "INACTIVE"} : markUnavailable(value)
           \/ \E o \in FormOrgs : changeAdmin(o)
  <2>1. form' = form /\ job' = job /\ slots' = slots /\ clock' = clock
    BY <1>7, Zenon DEF storeDetails, expireDetails, otherClear, markUnavailable, changeAdmin, elsewhere
  <2> QED
    BY <1>1, <2>1
<1>8. CASE failChanges \/ refuseSlot
  <2>1. /\ form' = [form EXCEPT !.submitting = no, !.error = yes] /\ job' = NoJob
        /\ slots' = slots /\ clock' = clock
    BY <1>4, <1>5, <1>8 DEF failChanges, refuseSlot, Failed, elsewhere
  <2>2. /\ form' \in SlotForm /\ form'.open = form.open /\ form'.at = form.at
        /\ form'.touched = form.touched /\ form'.range = form.range
    BY <1>2, <2>1 DEF SlotForm
  <2>3. form'.created = form.created
    BY <1>2, <2>1 DEF SlotForm
  <2> QED
    BY <1>1, <1>6, <2>1, <2>2, <2>3 DEF SlotsOK
<1>9. CASE \E open \in BOOLEAN : changeOpen(open)
  <2>1. PICK open \in BOOLEAN : changeOpen(open)
    BY <1>9
  <2>2. job' = job /\ slots' = slots /\ clock' = clock
    BY <2>1, Zenon DEF changeOpen, elsewhere
  <2>3. CASE open
    <3>1. PICK first \in TimeRanges : first = createInitialRange
      BY <1>2, FirstRangeIsAhead
    <3>2. PICK none \in TimeRanges : none = NoRange
      BY <1>3
    <3>3. PICK now \in Nat : now = clock
      BY <1>2
    <3>4. form' = [form EXCEPT !.open = yes, !.range = first, !.error = no,
                               !.created = none, !.at = now, !.touched = no]
      BY <1>4, <1>5, <2>1, <2>3, <3>1, <3>2, <3>3 DEF changeOpen
    <3>5. form' \in SlotForm /\ form'.created = none /\ form'.range = first /\ form'.at = now
      BY <1>2, <3>4 DEF SlotForm
    <3>6. first.startsAt > clock /\ first.endsAt > first.startsAt
      BY <1>2, <3>1, FirstRangeIsAhead
    <3> QED
      BY <1>1, <1>2, <2>2, <3>2, <3>3, <3>5, <3>6 DEF SlotsOK
  <2>4. CASE ~open
    <3>1. form' = [form EXCEPT !.open = no]
      BY <1>5, <2>1, <2>4 DEF changeOpen
    <3>2. form' \in SlotForm /\ form'.created = form.created /\ form'.at = form.at /\ ~form'.open
      BY <1>2, <1>5, <3>1 DEF SlotForm
    <3> QED
      BY <1>1, <2>2, <3>2 DEF SlotsOK
  <2> QED
    BY <2>3, <2>4
<1>10. CASE \E r \in Ranges : setRange(r)
  <2>1. PICK r \in Ranges : setRange(r)
    BY <1>10
  <2>2. r \in TimeRanges
    <3>1. MaxClock \in Nat /\ HourLength \in Nat
      BY ResourceFormsAssumption
    <3> QED
      BY <3>1 DEF Ranges, TimeRange, TimeRanges
  <2>3. form' = [form EXCEPT !.range = r, !.error = no, !.touched = yes]
        /\ job' = job /\ slots' = slots /\ clock' = clock
    BY <1>4, <1>5, <2>1 DEF setRange, elsewhere
  <2>4. form' \in SlotForm /\ form'.created = form.created /\ form'.at = form.at /\ form'.touched
    BY <1>2, <1>4, <2>2, <2>3 DEF SlotForm
  <2> QED
    BY <1>1, <2>3, <2>4 DEF SlotsOK
<1>11. CASE submitSlot
  <2>1. slots' = slots /\ clock' = clock /\ form.created = NoRange
    BY <1>11, Zenon DEF submitSlot, elsewhere
  <2>2. \/ form' = [form EXCEPT !.error = yes] /\ job' = job
        \/ /\ form' = [form EXCEPT !.submitting = yes, !.error = no]
           /\ job' = [kind |-> "slot", stage |-> "sent", data |-> form.range]
    BY <1>4, <1>5, <1>11 DEF submitSlot, Submitted, Send
  <2>3. /\ form' \in SlotForm /\ form'.open = form.open /\ form'.at = form.at
        /\ form'.touched = form.touched /\ form'.range = form.range /\ form'.created = NoRange
    BY <1>2, <1>3, <2>1, <2>2 DEF SlotForm
  <2>4. job' = job \/ (job' \in SlotJobs /\ job'.stage = "sent")
    BY <1>2, <2>2 DEF SlotForm, SlotJobs
  <2> QED
    BY <1>1, <2>1, <2>3, <2>4 DEF SlotsOK
<1>12. CASE createResourceSlot
  <2>1. /\ form' = form /\ clock' = clock /\ job.kind = "slot" /\ Apart(job.data)
        /\ job' = [job EXCEPT !.stage = "done"]
        /\ slots' = slots \cup {[n |-> Cardinality(slots) + 1, range |-> job.data]}
    BY <1>12, Zenon DEF createResourceSlot, On
  <2>2. PICK d : d = job.data
    OBVIOUS
  <2>3. PICK s : s = [n |-> Cardinality(slots) + 1, range |-> d]
    OBVIOUS
  <2>4. job \in SlotJobs
    BY <1>1, <2>1, FormFacts DEF SlotsOK
  <2>5. d \in TimeRanges /\ job' \in SlotJobs /\ job'.data = d
    BY <2>1, <2>2, <2>4 DEF SlotJobs
  <2>6. slots' = slots \cup {s} /\ s.range = d
    BY <2>1, <2>2, <2>3
  <2>7. \A t \in slots : Before(t.range, d) \/ Before(d, t.range)
    BY <2>1, <2>2 DEF Apart, Before
  <2>8. \A u, t \in slots' : u # t => Before(u.range, t.range) \/ Before(t.range, u.range)
    <3>1. \A u, t \in slots : u # t => Before(u.range, t.range) \/ Before(t.range, u.range)
      BY <1>1 DEF SlotsOK
    <3> HIDE DEF Before
    <3> QED
      BY <2>6, <2>7, <3>1
  <2>9. /\ \A t \in slots' : t.range \in TimeRanges
        /\ form.created # NoRange => \E t \in slots' : t.range = form.created
        /\ \E t \in slots' : t.range = d
    BY <1>1, <2>5, <2>6 DEF SlotsOK
  <2> QED
    BY <1>1, <2>1, <2>5, <2>8, <2>9 DEF SlotsOK
<1>13. CASE answerSlot
  <2>1. /\ job.kind = "slot" /\ job.stage = "done" /\ slots' = slots /\ clock' = clock
        /\ form' = [form EXCEPT !.submitting = no, !.created = job.data] /\ job' = NoJob
    BY <1>5, <1>13 DEF answerSlot, On, elsewhere
  <2>2. job \in SlotJobs
    BY <1>1, <2>1, FormFacts DEF SlotsOK
  <2>3. PICK d \in TimeRanges : d = job.data
    BY <2>2 DEF SlotJobs
  <2>4. /\ form' \in SlotForm /\ form'.open = form.open /\ form'.at = form.at
        /\ form'.touched = form.touched /\ form'.range = form.range
    BY <1>2, <2>1, <2>3 DEF SlotForm
  <2>5. form'.created = d
    BY <1>2, <2>1, <2>3 DEF SlotForm
  <2>6. \E s \in slots : s.range = d
    BY <1>1, <2>1, <2>2, <2>3 DEF SlotsOK
  <2> QED
    BY <1>1, <1>6, <2>1, <2>4, <2>5, <2>6 DEF SlotsOK
<1>14. CASE tickForm
  <2>1. form' = form /\ job' = job /\ slots' = slots /\ clock' = clock + 1
    BY <1>14, Zenon DEF tickForm
  <2>2. clock' \in Nat /\ form.at <= clock' /\ form.at # clock'
    BY <1>2, <2>1
  <2> QED
    BY <1>1, <2>1, <2>2 DEF SlotsOK
<1>15. CASE permitSlot
  <2>1. /\ form' = form /\ slots' = slots /\ clock' = clock /\ job.kind = "slot"
        /\ job' = [job EXCEPT !.stage = "permitted"]
    BY <1>15, Zenon DEF permitSlot, On, elsewhere
  <2>2. job \in SlotJobs
    BY <1>1, <2>1, FormFacts DEF SlotsOK
  <2>3. job' \in SlotJobs /\ job'.stage = "permitted"
    BY <2>1, <2>2 DEF SlotJobs
  <2> QED
    BY <1>1, <2>1, <2>3 DEF SlotsOK
<1> QED
  BY <1>1, <1>7, <1>8, <1>9, <1>10, <1>11, <1>12, <1>13, <1>14, <1>15, Zenon DEF SlotNext


(* The forms together *)

LEMMA FormStartsTrue == FormInit => FormInv
<1> SUFFICES ASSUME FormInit PROVE FormInv
  OBVIOUS
<1>1. PICK n \in Minutes : resource = [text |-> "a", notice |-> n, allowed |-> {FormOwner},
                                       status |-> "ACTIVE", image |-> "old"]
  BY DEF FormInit, Minutes
<1>2. resource \in Details /\ FormOwner \in resource.allowed
  BY <1>1, FormFacts DEF Details, Texts
<1>3. RowsOK
  BY <1>2, FormFacts DEF FormInit, RowsOK
<1>4. DetailsOK
  BY DEF FormInit, DetailsOK
<1>5. PICK no \in BOOLEAN : no = FALSE
  OBVIOUS
<1>6. ASSUME screen = "edit" PROVE EditOK(form, job)
  <2>1. form = [status |-> "loading"] /\ job = [kind |-> "load", stage |-> "sent", data |-> NoDetails]
    BY <1>6 DEF FormInit, FirstJob
  <2>2. form \in BareForm /\ job \in LoadJobs /\ job.stage # "read"
    BY <2>1 DEF BareForm, LoadJobs
  <2> QED
    BY <2>2 DEF EditOK
<1>7. ASSUME screen = "create" PROVE CreateOK(form, job, made, formFaults)
  <2>1. form = [status |-> "loading"] /\ job = [kind |-> "access", stage |-> "sent", data |-> NoDetails]
    BY <1>7 DEF FormInit, FirstJob
  <2>2. form \in BareForm /\ job \in AccessJobs
    BY <2>1 DEF BareForm, AccessJobs
  <2> QED
    BY <2>2 DEF CreateOK, FormInit
<1>8. ASSUME screen = "reviews" PROVE ReviewsOK(form, job, made)
  <2>1. PICK zero \in Ratings : zero = 0
    BY DEF Ratings
  <2>2. /\ form = [status |-> "loading", submitting |-> no, error |-> no, mine |-> zero,
                   told |-> zero, elsewhere |-> no]
        /\ job = [kind |-> "reviews", stage |-> "sent", data |-> NoDetails] /\ made = zero
    BY <1>5, <1>8, <2>1 DEF FormInit, FirstJob
  <2>3. form \in ReviewForm /\ form.told = 0 /\ job \in AskJobs
    BY <2>1, <2>2 DEF ReviewForm, AskJobs
  <2> QED
    BY <2>1, <2>2, <2>3 DEF ReviewsOK
<1>9. ASSUME screen = "slots" PROVE SlotsOK(form, job, slots, clock)
  <2>1. PICK none \in TimeRanges : none = NoRange
    BY DEF NoRange, TimeRange, TimeRanges
  <2>2. /\ form = [open |-> no, range |-> none, submitting |-> no, error |-> no,
                   created |-> none, status |-> "ready", at |-> 0, touched |-> no]
        /\ job = NoJob /\ slots = {} /\ clock = 0
    BY <1>5, <1>9, <2>1 DEF FormInit
  <2>3. /\ form \in SlotForm /\ ~form.open /\ form.at = 0 /\ form.created = NoRange
        /\ job \notin SlotJobs
    BY <1>5, <2>1, <2>2 DEF SlotForm, NoJob, SlotJobs
  <2> QED
    BY <2>2, <2>3 DEF SlotsOK
<1> QED
  BY <1>3, <1>4, <1>6, <1>7, <1>8, <1>9 DEF FormInv, FormInit, Screens

LEMMA FormInvariance == FormSpec => []FormInv
<1>1. FormInv /\ [FormNext]_formVars => FormInv'
  <2> SUFFICES ASSUME FormInv, [FormNext]_formVars PROVE FormInv'
    OBVIOUS
  <2>1. CASE FormNext
    <3>1. RowsOK' /\ DetailsOK'
      BY <2>1, RowsStep
    <3>2. screen' = screen
      BY <2>1, ZenonT(60) DEF FormNext, findOne, storeDetails, expireDetails, otherClear, otherUpdate,
         markUnavailable, applyDetails, denyEdit, failFormLoad, retryFormLoad, changeField,
         toggleOrganization, changeOwner, changeAdmin, submitUpdate, commitUpdate, handleDelete,
         commitRemoval, uploadImage, clearAfterChange, answerChanges, answerRemoval, refuseChange,
         refuseImage, failChanges, dieBeforeClear, loadResourceCreationAccess, chooseImage, submitResource,
         createResource, refuseCreation, createAnotherResource, getRatings, applyRatings,
         upsertRating, handleRatingSubmitted, handleSubmit, rateElsewhere, changeOpen, setRange,
         submitSlot, permitSlot, createResourceSlot, refuseSlot, answerSlot, tickForm
    <3> QED
      BY <2>1, <3>1, <3>2, EditStep, CreateStep, ReviewStep, SlotStep, Zenon DEF FormInv
  <2>2. CASE UNCHANGED formVars
    <3>1. UNCHANGED <<screen, resource, stored, storing, blame, others, adminOf, form, job, made,
                      slots, clock, formSteps, formFaults>>
      BY <2>2 DEF formVars, resourceRows
    <3>2. RowsOK' /\ DetailsOK'
      BY <3>1 DEF FormInv, RowsOK, DetailsOK
    <3> QED
      BY <3>1, <3>2 DEF FormInv
  <2> QED
    BY <2>1, <2>2
<1> QED
  BY <1>1, FormStartsTrue, PTL DEF FormSpec

LEMMA FormsRun == DashboardSpec => FormSpec
<1>1. DashboardInit => FormInit
  BY DEF DashboardInit
<1>2. [DashboardNext]_dashboardVars => [FormNext]_formVars
  BY DEF DashboardNext, dashboardVars
<1> QED
  BY <1>1, <1>2, PTL DEF DashboardSpec, FormSpec

\* For any tree of organizations, users and faults, the creation form makes one
\* resource and one more for each request that failed and each image that the service
\* refused, under owners that its guards accept; cached details differ from the row
\* only for a cause; a rating and a slot that the page confirms are there.
THEOREM FormsStayTruthful == DashboardSpec => []FormsAreTruthful
<1>1. FormInv => FormsAreTruthful
  <2> SUFFICES ASSUME FormInv PROVE FormsAreTruthful
    OBVIOUS
  <2>1. OneResourcePerForm
    <3> SUFFICES ASSUME screen = "create", form.status = "loaded"
                 PROVE  made <= 1 + formFaults + form.refused
      BY DEF OneResourcePerForm
    <3>1. CreateOK(form, job, made, formFaults) /\ formFaults \in Nat
      BY DEF FormInv, RowsOK
    <3>2. form \in CreateForm
      BY <3>1 DEF CreateOK, BareForm
    <3> QED
      BY <3>1, <3>2, CreateKnown
  <2>2. OfferedOwnersAreAccepted
    <3> SUFFICES ASSUME screen = "create", form.status = "loaded" PROVE OffersOK(form)
      BY Zenon DEF OfferedOwnersAreAccepted, OffersOK
    <3>1. CreateOK(form, job, made, formFaults)
      BY DEF FormInv
    <3>2. form \in CreateForm
      BY <3>1 DEF CreateOK, BareForm
    <3> QED
      BY <3>1, <3>2, CreateKnown
  <2>3. DetailsHaveACause
    <3> SUFFICES ASSUME stored # NoDetails, stored # resource, others = "idle",
                        job.stage # "committed", blame \cap {"race", "died"} = {}
                 PROVE  "mark" \in blame /\ [stored EXCEPT !.status = resource.status] = resource
      BY DEF DetailsHaveACause
    <3>1. "mark" \in blame /\ SameButStatus(stored, resource)
      BY DEF FormInv, DetailsOK
    <3>2. stored \in Details /\ resource \in Details
      BY DEF FormInv, RowsOK
    <3> QED
      BY <3>1, <3>2 DEF Details, SameButStatus
  <2>4. OwnReviewIsShown
    BY DEF FormInv, ReviewsOK, OwnReviewIsShown
  <2>5. SlotDialogIsTruthful
    <3> SUFFICES ASSUME screen = "slots", SlotsOK(form, job, slots, clock)
                 PROVE  SlotDialogIsTruthful
      BY DEF FormInv, SlotDialogIsTruthful
    <3>1. /\ form.created # NoRange => \E s \in slots : s.range = form.created
          /\ \A s, t \in slots : s # t => s.range.endsAt <= t.range.startsAt
                                       \/ t.range.endsAt <= s.range.startsAt
      BY DEF SlotsOK, Before
    <3>2. form.open /\ form.at = clock /\ ~form.touched => ~slotRangeError(form.range)
      <4>1. form.range.startsAt \in Nat /\ form.range.endsAt \in Nat /\ clock \in Nat
        BY DEF SlotsOK, SlotForm, TimeRanges
      <4> QED
        BY <4>1 DEF SlotsOK, slotRangeError
    <3> QED
      BY <3>1, <3>2 DEF SlotDialogIsTruthful
  <2> QED
    BY <2>1, <2>2, <2>3, <2>4, <2>5 DEF FormsAreTruthful
<1> QED
  BY <1>1, FormsRun, FormInvariance, PTL

\* For any notices and organizations, who opens the edit form and saves it as it is
\* changes nothing, if nobody else has, whatever is typed while it is saved: the weeks,
\* days, hours and minutes that the form shows add up to the notice that they came
\* from, and the owner was allowed before.
THEOREM UntouchedSavesKeep == DashboardSpec => UntouchedSaveChangesNothing
<1>1. FormInv => [commitUpdate /\ ~job.data.touched /\ form.base = resource
                   => resource' = resource]_formVars
  <2> SUFFICES ASSUME FormInv, commitUpdate, ~job.data.touched, form.base = resource
               PROVE  resource' = resource
    OBVIOUS
  <2>1. JobsFit(screen, form, job) /\ job.kind = "save"
    BY JobsAlwaysFit DEF commitUpdate, On
  <2>2. screen = "edit" /\ form \in EditForm /\ job \in SaveJobs
    BY <2>1 DEF JobsFit
  <2>3. EditOK(form, job)
    BY <2>2 DEF FormInv
  <2>4. FieldsOK(form) /\ SavesItsBase(form, job)
    BY <2>2, <2>3, EditKnown
  <2>5. /\ job.data.text = resource.text /\ job.data.notice = resource.notice
        /\ job.data.allowed = resource.allowed
    BY <2>2, <2>4 DEF FieldsOK, SavesItsBase
  <2>6. resource \in Details /\ FormOwner \in resource.allowed
    BY DEF FormInv, RowsOK
  <2>7. PICK S : S = {FormOwner} \cup job.data.allowed
    OBVIOUS
  <2>8. S = resource.allowed
    BY <2>5, <2>6, <2>7
  <2>9. resource' = [resource EXCEPT !.text = resource.text, !.notice = resource.notice,
                                     !.allowed = resource.allowed]
    BY <2>5, <2>7, <2>8 DEF commitUpdate
  <2> QED
    BY <2>6, <2>9 DEF Details
<1> QED
  BY <1>1, FormsRun, FormInvariance, PTL DEF UntouchedSaveChangesNothing

-----------------------------------------------------------------------------
(* The semester allocation                                                 *)

USE AllocationAssumption

\* None of the first n allocations credited, in the semester of a, a member of
\* an organization that a selects.
Unseen(a, n) ==
    \A i \in 1..n :
        log[i].semester = a.semester => Sources(log[i]) \cap a.targets = {}

\* A request that passed its check has a snapshot of the log, in which it found
\* no allocation of its own organizations.
RequestOK(p) ==
    req[p].pc = "insert" =>
        /\ req[p].snapshot <= Len(log)
        /\ Unseen(req[p].alloc, req[p].snapshot)

AllocationInv ==
    /\ AllocationTypeOK
    /\ AllocationsAreSerial
    /\ \A p \in Requests : RequestOK(p)

Collected == [pc : {"members"}, alloc : Allocation]
Inserting == [pc : {"insert"}, alloc : Allocation, snapshot : Nat]

\* A request's pc tells its fields.
LEMMA RequestFields ==
    ASSUME NEW r \in Request
    PROVE  /\ r.pc = "members" => r \in Collected
           /\ r.pc = "insert" => r \in Inserting
  BY DEF Request, Idle, Collected, Inserting

\* What a request has read is an allocation that credits someone.
LEMMA ReadIsAllocation ==
    ASSUME AllocationTypeOK, NEW t \in TargetLists, NEW s \in Semesters, HasRecipients(t),
           NEW f \in UniqueMemberships(t)
    PROVE  [targets |-> t, semester |-> s, credit |-> f] \in Allocation
<1> DEFINE M == Members(t)
<1>1. M \in (SUBSET Users) \ {{}}
  BY DEF HasRecipients, Members, Descendants, AllocationTypeOK
<1>2. Descendants(t) \subseteq Orgs
  BY DEF Descendants
<1>3. f \in [M -> Descendants(t)]
  BY DEF UniqueMemberships
<1> HIDE DEF M
<1>4. f \in [M -> Orgs]
  BY <1>2, <1>3
<1>5. f \in UNION {[S -> Orgs] : S \in (SUBSET Users) \ {{}}}
  BY <1>1, <1>4
<1>6. t \in (SUBSET Orgs) \ {{}}
  OBVIOUS
<1> QED
  BY <1>5, <1>6 DEF Allocation

\* The log is kept, and one request goes on.
LEMMA RequestStep ==
    ASSUME AllocationInv, UNCHANGED log, approved' \in [Orgs -> SUBSET Users],
           req' \in [Requests -> Request],
           \A p \in Requests : req'[p] = req[p] \/ RequestOK(p)'
    PROVE  AllocationInv'
<1>1. AllocationTypeOK'
  BY DEF AllocationInv, AllocationTypeOK
<1>2. AllocationsAreSerial'
  BY DEF AllocationInv, AllocationsAreSerial
<1>3. \A p \in Requests : RequestOK(p)'
  BY DEF AllocationInv, RequestOK, Unseen
<1> QED
  BY <1>1, <1>2, <1>3 DEF AllocationInv

LEMMA ReadAllocationInv ==
    ASSUME AllocationInv, NEW p \in Requests, NEW t \in TargetLists, NEW s \in Semesters,
           ReadMembers(p, t, s)
    PROVE  AllocationInv'
<1>1. PICK a \in Allocation : req' = [req EXCEPT ![p] = [pc |-> "members", alloc |-> a]]
  BY ReadIsAllocation DEF ReadMembers, AllocationInv
<1>2. [pc |-> "members", alloc |-> a] \in Request
  BY DEF Request
<1>3. req' \in [Requests -> Request]
  BY <1>1, <1>2 DEF AllocationInv, AllocationTypeOK
<1>4. req'[p].pc = "members" /\ \A x \in Requests : x # p => req'[x] = req[x]
  BY <1>1 DEF AllocationInv, AllocationTypeOK
<1>5. RequestOK(p)'
  BY <1>4 DEF RequestOK
<1>6. UNCHANGED <<approved, log>>
  BY DEF ReadMembers
<1>7. approved' \in [Orgs -> SUBSET Users]
  BY <1>6 DEF AllocationInv, AllocationTypeOK
<1> QED
  BY <1>3, <1>4, <1>5, <1>6, <1>7, RequestStep

\* A request ends.
LEMMA IdleRequest ==
    ASSUME AllocationInv, NEW p \in Requests, req' = [req EXCEPT ![p] = Idle]
    PROVE  /\ req' \in [Requests -> Request]
           /\ RequestOK(p)'
           /\ \A x \in Requests : x # p => req'[x] = req[x]
<1>1. Idle \in Request /\ Idle.pc = "idle"
  BY DEF Request, Idle
<1>2. req \in [Requests -> Request]
  BY DEF AllocationInv, AllocationTypeOK
<1>3. req'[p] = Idle
  BY <1>2
<1>4. RequestOK(p)'
  BY <1>1, <1>3 DEF RequestOK
<1> QED
  BY <1>1, <1>2, <1>4

LEMMA CheckAllocationInv ==
    ASSUME AllocationInv, NEW p \in Requests, CheckExisting(p)
    PROVE  AllocationInv'
<1>1. UNCHANGED <<approved, log>> /\ approved' \in [Orgs -> SUBSET Users]
  BY DEF CheckExisting, AllocationInv, AllocationTypeOK
<1>2. req[p] \in Collected
  BY RequestFields DEF CheckExisting, AllocationInv, AllocationTypeOK
<1>3. PICK a \in Allocation : a = req[p].alloc
  BY <1>2 DEF Collected
<1>4. CASE Existing(a)
  <2>1. req' = [req EXCEPT ![p] = Idle]
    BY <1>3, <1>4 DEF CheckExisting
  <2> QED
    BY <1>1, <2>1, IdleRequest, RequestStep
<1>5. CASE ~Existing(a)
  <2>1. Len(log) \in Nat
    BY DEF AllocationInv, AllocationTypeOK
  <2>2. PICK q : q = [pc |-> "insert", alloc |-> a, snapshot |-> Len(log)]
    OBVIOUS
  <2>3. q \in Request
    BY <2>1, <2>2 DEF Request
  <2>4. req' = [req EXCEPT ![p] = q]
    BY <1>3, <1>5, <2>2 DEF CheckExisting
  <2>5. /\ req' \in [Requests -> Request]
        /\ req'[p] = q
        /\ \A x \in Requests : x # p => req'[x] = req[x]
    BY <2>3, <2>4 DEF AllocationInv, AllocationTypeOK
  <2>6. Unseen(a, Len(log))
    BY <1>5 DEF Existing, Unseen
  <2>7. RequestOK(p)'
    <3>1. req'[p].alloc = a /\ req'[p].snapshot = Len(log)
      BY <2>2, <2>5
    <3>2. Unseen(a, Len(log))'
      BY <1>1, <2>6 DEF Unseen
    <3> QED
      BY <1>1, <2>1, <3>1, <3>2 DEF RequestOK, Unseen
  <2> QED
    BY <1>1, <2>5, <2>7, RequestStep
<1> QED
  BY <1>4, <1>5

\* A serialization failure, or no conflict: the pairs of the new allocation with
\* the earlier ones are those of the snapshot and those that ran side by side.
LEMMA CommitAllocationInv ==
    ASSUME AllocationInv, NEW p \in Requests, CommitAllocation(p)
    PROVE  AllocationInv'
<1>1. req[p] \in Inserting
  BY RequestFields DEF CommitAllocation, AllocationInv, AllocationTypeOK
<1>2. PICK a \in Allocation, n \in Nat : a = req[p].alloc /\ n = req[p].snapshot
  BY <1>1 DEF Inserting
<1>3. PICK L \in Seq(Allocation) : L = log
  BY DEF AllocationInv, AllocationTypeOK
<1>4. log' = Append(L, a) /\ Len(L) \in Nat /\ UNCHANGED approved
  BY <1>2, <1>3 DEF CommitAllocation
<1>5. log' \in Seq(Allocation) /\ Len(log') = Len(L) + 1
  BY <1>3, <1>4
<1>6. /\ \A i \in 1..Len(L) : log'[i] = L[i]
      /\ log'[Len(L) + 1] = a
  BY <1>3, <1>4
<1>7. req' = [req EXCEPT ![p] = Idle]
  BY DEF CommitAllocation
<1>8. AllocationTypeOK'
  BY <1>4, <1>5, <1>7, IdleRequest DEF AllocationInv, AllocationTypeOK
<1>9. \A x \in Requests : RequestOK(x)'
  <2>1. ASSUME NEW x \in Requests, x # p, req[x].pc = "insert"
        PROVE  RequestOK(x)'
    <3>1. req'[x] = req[x]
      BY <1>7, <2>1, IdleRequest
    <3>2. PICK b \in Allocation, m \in Nat : b = req[x].alloc /\ m = req[x].snapshot
      BY <2>1, RequestFields DEF AllocationInv, AllocationTypeOK, Inserting
    <3>3. m <= Len(L) /\ Unseen(b, m)
      BY <1>3, <2>1, <3>2 DEF AllocationInv, RequestOK
    <3>4. \A i \in 1..m : i \in 1..Len(L)
      BY <1>4, <3>3
    <3>5. \A i \in 1..m : log'[i].semester = b.semester =>
            Sources(log'[i]) \cap b.targets = {}
      BY <1>3, <1>6, <3>3, <3>4 DEF Unseen
    <3>6. m <= Len(log')
      BY <1>4, <1>5, <3>3
    <3> QED
      BY <3>1, <3>2, <3>5, <3>6 DEF RequestOK, Unseen
  <2>2. ASSUME NEW x \in Requests, x # p, req[x].pc # "insert"
        PROVE  RequestOK(x)'
    BY <1>7, <2>2, IdleRequest DEF RequestOK
  <2> QED
    BY <1>7, <2>1, <2>2, IdleRequest
<1>10. AllocationsAreSerial'
  <2> DEFINE Serial(b, c) ==
               b.semester = c.semester =>
                 Sources(b) \cap c.targets = {} \/ Sources(c) \cap b.targets = {}
  <2>1. ASSUME NEW i \in 1..Len(L)
        PROVE  Serial(L[i], a)
    <3>1. CASE i <= n
      <4>1. i \in 1..n
        BY <3>1
      <4>2. Unseen(a, n)
        BY <1>2 DEF AllocationInv, RequestOK, CommitAllocation
      <4> QED
        BY <1>3, <4>1, <4>2 DEF Unseen
    <3>2. CASE ~(i <= n)
      <4>1. i \in n + 1..Len(L)
        BY <1>4, <3>2
      <4>2. L[i] \in Concurrent(p)
        BY <1>2, <1>3, <4>1 DEF Concurrent
      <4> QED
        BY <1>2, <4>2 DEF CommitAllocation, Conflict
    <3> QED
      BY <3>1, <3>2
  <2>2. \A i, j \in 1..Len(L) : i < j => Serial(L[i], L[j])
    BY <1>3 DEF AllocationInv, AllocationsAreSerial
  <2> SUFFICES ASSUME NEW i \in 1..Len(log'), NEW j \in 1..Len(log'), i < j
               PROVE  Serial(log'[i], log'[j])
    BY DEF AllocationsAreSerial
  <2>3. i \in 1..Len(L) /\ (j \in 1..Len(L) \/ j = Len(L) + 1)
    BY <1>4, <1>5
  <2> HIDE DEF Serial
  <2> QED
    BY <1>6, <2>1, <2>2, <2>3
<1> QED
  BY <1>8, <1>9, <1>10 DEF AllocationInv

LEMMA AbortAllocationInv ==
    ASSUME AllocationInv, NEW p \in Requests, AbortAllocation(p)
    PROVE  AllocationInv'
<1>1. UNCHANGED <<approved, log>> /\ approved' \in [Orgs -> SUBSET Users]
  BY DEF AbortAllocation, AllocationInv, AllocationTypeOK
<1> QED
  BY <1>1, IdleRequest, RequestStep DEF AbortAllocation

LEMMA ChangeAllocationInv ==
    ASSUME AllocationInv, NEW o \in Orgs, NEW u \in Users, ChangeMembership(o, u)
    PROVE  AllocationInv'
<1>1. approved' \in [Orgs -> SUBSET Users]
  BY DEF ChangeMembership, AllocationInv, AllocationTypeOK
<1>2. UNCHANGED <<log, req>> /\ req' \in [Requests -> Request]
  BY DEF ChangeMembership, AllocationInv, AllocationTypeOK
<1> QED
  BY <1>1, <1>2, RequestStep

\* The inductive invariant of allocateSemesterPoints: beside the types and the
\* property itself, what a request between its check and its commit has seen.
THEOREM AllocationInvariance == AllocationSpec => []AllocationInv
<1>1. AllocationInit => AllocationInv
  <2> SUFFICES ASSUME AllocationInit PROVE AllocationInv
    OBVIOUS
  <2>1. AllocationTypeOK
    BY DEF AllocationInit, AllocationTypeOK, Request
  <2>2. AllocationsAreSerial
    BY DEF AllocationInit, AllocationsAreSerial
  <2>3. \A p \in Requests : RequestOK(p)
    BY DEF AllocationInit, RequestOK, Idle
  <2> QED
    BY <2>1, <2>2, <2>3 DEF AllocationInv
<1>2. AllocationInv /\ [AllocationNext]_allocationVars => AllocationInv'
  <2> SUFFICES ASSUME AllocationInv, [AllocationNext]_allocationVars PROVE AllocationInv'
    OBVIOUS
  <2>1. CASE AllocationNext
    BY <2>1, ReadAllocationInv, CheckAllocationInv, CommitAllocationInv, AbortAllocationInv,
       ChangeAllocationInv DEF AllocationNext
  <2>2. CASE UNCHANGED allocationVars
    BY <2>2 DEF AllocationInv, AllocationTypeOK, AllocationsAreSerial, RequestOK, Unseen,
                allocationVars
  <2> QED
    BY <2>1, <2>2
<1> QED
  BY <1>1, <1>2, PTL DEF AllocationSpec

\* However many requests of a semester interleave, with members coming and going,
\* two that commit never both credited members of an organization that the other
\* one selected, and each credits someone.
THEOREM AllocationsStaySound == AllocationSpec => []AllocationsAreSound
<1>1. AllocationInv => AllocationsAreSound
  BY DEF AllocationInv, AllocationsAreSound
<1> QED
  BY <1>1, AllocationInvariance, PTL
=============================================================================
