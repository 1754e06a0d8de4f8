------------------------- MODULE MembershipsProofs --------------------------
(***************************************************************************)
(* Proofs about Memberships for any organizations, users and requests.     *)
(***************************************************************************)
EXTENDS Memberships, FiniteSetTheorems, TLAPS

USE MembershipsAssumption

NoRow == [status |-> "NONE", role |-> "MEMBER", gen |-> 0]

\* The row that updateMembershipRole or revokeChildAdministrator read was
\* approved, and an approved row stays so until it is removed; a row made
\* after that has another generation.
RoleOK(p) ==
    req[p].op = "role" =>
        LET r == member[req[p].org][req[p].user]
        IN  /\ req[p].gen <= r.gen
            /\ r.gen = req[p].gen => r.status \in {"APPROVED", "NONE"}

IInv ==
    /\ TablesOK
    /\ AdminsAreApproved
    /\ JoinBonusOnce
    /\ \A o \in Orgs : org[o].status = "NONE" => \A u \in Users : member[o][u] = NoRow
    /\ \A p \in Requests : RoleOK(p)

\* What any step may do to a row: the generation grows when a row is made, and
\* while it stays an approval and a removal stand.
RowMove(old, new) ==
    /\ new \in Row
    /\ new.role = "ADMIN" => new.status = "APPROVED"
    /\ old.gen <= new.gen
    /\ old.gen = new.gen /\ old.status = "APPROVED" =>
          new.status \in {"APPROVED", "NONE"}
    /\ old.gen = new.gen /\ old.status = "NONE" => new.status = "NONE"

-----------------------------------------------------------------------------
(* Requests *)

RoleRequest ==
    [op : {"role"}, org : Orgs, user : Users, gen : 0..MaxGen,
     role : {"MEMBER", "ADMIN"}]
PlainRequest == [op : {"APPROVED", "REJECTED", "remove"}, org : Orgs, user : Users]
AppointRequest == [op : {"appoint"}, org : Orgs, user : Users, gen : 0..MaxGen]

\* A request's op tells its fields.
LEMMA RequestFields ==
    ASSUME NEW r \in Request
    PROVE  /\ r.op = "role" => r \in RoleRequest
           /\ r.op \in {"APPROVED", "REJECTED", "remove"} => r \in PlainRequest
           /\ r.op = "appoint" => r \in AppointRequest
  BY DEF Request, Idle, RoleRequest, PlainRequest, AppointRequest

-----------------------------------------------------------------------------
(* Frames *)

LEMMA RowMoves ==
    ASSUME NEW old \in Row, NEW new \in Row, RowMove(old, new), NEW g \in 0..MaxGen,
           g <= old.gen, old.gen = g => old.status \in {"APPROVED", "NONE"}
    PROVE  g <= new.gen /\ (new.gen = g => new.status \in {"APPROVED", "NONE"})
<1>1. old.gen \in Nat /\ new.gen \in Nat /\ g \in Nat
  BY DEF Row
<1>2. new.gen = g => old.gen = g
  BY <1>1 DEF RowMove
<1> QED
  BY <1>1, <1>2 DEF RowMove

\* Rows that move keep what a waiting role request relies on.
LEMMA RoleStays ==
    ASSUME TablesOK, NEW p \in Requests, RoleOK(p), req'[p] = req[p],
           \A o \in Orgs, u \in Users : RowMove(member[o][u], member'[o][u])
    PROVE  RoleOK(p)'
<1> SUFFICES ASSUME req[p].op = "role"
             PROVE  LET r == member'[req[p].org][req[p].user]
                    IN  /\ req[p].gen <= r.gen
                        /\ r.gen = req[p].gen => r.status \in {"APPROVED", "NONE"}
  BY DEF RoleOK
<1>1. req[p] \in RoleRequest
  BY RequestFields DEF TablesOK
<1>2. PICK o \in Orgs, u \in Users, g \in 0..MaxGen :
        o = req[p].org /\ u = req[p].user /\ g = req[p].gen
  BY <1>1 DEF RoleRequest
<1>3. PICK old \in Row : old = member[o][u]
  BY DEF TablesOK
<1>4. PICK new \in Row : new = member'[o][u] /\ RowMove(old, new)
  BY <1>3 DEF RowMove
<1>5. g <= old.gen /\ (old.gen = g => old.status \in {"APPROVED", "NONE"})
  BY <1>2, <1>3 DEF RoleOK
<1>6. g <= new.gen /\ (new.gen = g => new.status \in {"APPROVED", "NONE"})
  BY <1>4, <1>5, RowMoves
<1> QED
  BY <1>2, <1>4, <1>6

LEMMA WiderType ==
    ASSUME NEW f \in [Orgs -> [Users -> 0..1]]
    PROVE  f \in [Orgs -> [Users -> Nat]]
<1>1. [Users -> 0..1] \subseteq [Users -> Nat]
  OBVIOUS
<1> QED
  BY <1>1

\* A step whose rows move and whose requests end or stay as they are, except
\* for those that are shown to be right.
LEMMA StepKeeps ==
    ASSUME IInv,
           org' \in [Orgs -> OrgRow],
           member' \in [Orgs -> [Users -> Row]],
           allowlist' \in [Orgs -> [Users -> {"none", "unused", "used"}]],
           domain' \in [Orgs -> [Users -> {"none", "manual", "auto"}]],
           bonus' \in [Orgs -> [Users -> 0..1]],
           req' \in [Requests -> Request],
           \A o \in Orgs, u \in Users : RowMove(member[o][u], member'[o][u]),
           \A o \in Orgs : org'[o].status = "NONE" =>
              \A u \in Users : member'[o][u] = NoRow,
           \A p \in Requests : req'[p] = req[p] \/ RoleOK(p)'
    PROVE  IInv'
<1>1. TablesOK'
  <2>1. bonus' \in [Orgs -> [Users -> Nat]]
    BY WiderType
  <2> QED
    BY <2>1 DEF TablesOK
<1>2. AdminsAreApproved'
  BY DEF AdminsAreApproved, RowMove
<1>3. JoinBonusOnce'
  <2> SUFFICES ASSUME NEW o \in Orgs, NEW u \in Users PROVE bonus'[o][u] <= 1
    BY DEF JoinBonusOnce
  <2>1. bonus'[o][u] \in 0..1
    OBVIOUS
  <2> QED
    BY <2>1
<1>4. \A p \in Requests : RoleOK(p)'
  BY RoleStays DEF IInv
<1> QED
  BY <1>1, <1>2, <1>3, <1>4 DEF IInv

\* A row that stays moves.
LEMMA StillMove ==
    ASSUME IInv, NEW o \in Orgs, NEW u \in Users
    PROVE  RowMove(member[o][u], member[o][u])
<1>1. member[o][u] \in Row
  BY DEF IInv, TablesOK
<1>2. member[o][u].role = "ADMIN" => member[o][u].status = "APPROVED"
  BY DEF IInv, AdminsAreApproved
<1> QED
  BY <1>1, <1>2 DEF RowMove, Row

LEMMA BonusType ==
    ASSUME IInv
    PROVE  bonus \in [Orgs -> [Users -> 0..1]]
<1>1. \A o \in Orgs : bonus[o] \in [Users -> 0..1]
  <2> TAKE o \in Orgs
  <2>1. bonus[o] \in [Users -> Nat] /\ \A u \in Users : bonus[o][u] <= 1
    BY DEF IInv, TablesOK, JoinBonusOnce
  <2> QED
    BY <2>1
<1> QED
  BY <1>1 DEF IInv, TablesOK

\* The trigger's award keeps the number of bonuses of a row at most 1.
LEMMA AwardOnce ==
    ASSUME IInv, NEW o \in Orgs, NEW u \in Users
    PROVE  bonus[o][u] + Award(o, u) \in 0..1
  BY BonusType DEF Award

\* One row is written, with the trigger, and requests end.
LEMMA SetRow ==
    ASSUME IInv, NEW o \in Orgs, NEW u \in Users, NEW r \in Row,
           RowMove(member[o][u], r), SetMember(o, u, r),
           org[o].status = "NONE" => r = NoRow,
           UNCHANGED <<org, allowlist, domain>>,
           req' \in [Requests -> Request],
           \A p \in Requests : req'[p] = req[p] \/ RoleOK(p)'
    PROVE  IInv'
<1>1. member' = [member EXCEPT ![o] = [member[o] EXCEPT ![u] = r]]
  BY DEF SetMember
<1>2. member \in [Orgs -> [Users -> Row]]
  BY DEF IInv, TablesOK
<1>3. member' \in [Orgs -> [Users -> Row]]
  BY <1>1, <1>2
<1>4. \A x \in Orgs, y \in Users :
        member'[x][y] = IF x = o /\ y = u THEN r ELSE member[x][y]
  BY <1>1, <1>2
<1>5. \A x \in Orgs, y \in Users : RowMove(member[x][y], member'[x][y])
  BY <1>4, StillMove
<1>6. bonus' \in [Orgs -> [Users -> 0..1]]
  <2>1. CASE bonus' = bonus
    BY <2>1, BonusType
  <2>2. CASE bonus' = [bonus EXCEPT ![o][u] = @ + Award(o, u)]
    <3>1. PICK n \in 0..1 : n = bonus[o][u] + Award(o, u)
      BY AwardOnce
    <3>2. bonus' = [bonus EXCEPT ![o] = [bonus[o] EXCEPT ![u] = n]]
      BY <2>2, <3>1
    <3> QED
      BY <3>2, BonusType
  <2> QED
    BY <2>1, <2>2 DEF SetMember
<1>7. \A x \in Orgs : org'[x].status = "NONE" =>
        \A y \in Users : member'[x][y] = NoRow
  BY <1>4 DEF IInv
<1>8. /\ org' \in [Orgs -> OrgRow]
      /\ allowlist' \in [Orgs -> [Users -> {"none", "unused", "used"}]]
      /\ domain' \in [Orgs -> [Users -> {"none", "manual", "auto"}]]
  BY DEF IInv, TablesOK
<1> QED
  BY <1>3, <1>5, <1>6, <1>7, <1>8, StepKeeps

\* No row is written.
LEMMA SameRows ==
    ASSUME IInv, UNCHANGED <<member, bonus>>,
           org' \in [Orgs -> OrgRow],
           \A o \in Orgs : org'[o].status = "NONE" => org[o].status = "NONE",
           allowlist' \in [Orgs -> [Users -> {"none", "unused", "used"}]],
           domain' \in [Orgs -> [Users -> {"none", "manual", "auto"}]],
           req' \in [Requests -> Request],
           \A p \in Requests : req'[p] = req[p] \/ RoleOK(p)'
    PROVE  IInv'
<1>1. member' \in [Orgs -> [Users -> Row]]
  BY DEF IInv, TablesOK
<1>2. \A x \in Orgs, y \in Users : RowMove(member[x][y], member'[x][y])
  BY StillMove
<1>3. bonus' \in [Orgs -> [Users -> 0..1]]
  BY BonusType
<1>4. \A x \in Orgs : org'[x].status = "NONE" =>
        \A y \in Users : member'[x][y] = NoRow
  BY DEF IInv
<1> QED
  BY <1>1, <1>2, <1>3, <1>4, StepKeeps

\* A request becomes another one, or ends.
LEMMA BecomeKeeps ==
    ASSUME IInv, NEW p \in Requests, NEW q \in Request, Become(p, q)
    PROVE  /\ req' \in [Requests -> Request]
           /\ req'[p] = q
           /\ \A x \in Requests : x # p => req'[x] = req[x]
  BY DEF IInv, TablesOK, Become

LEMMA EndKeeps ==
    ASSUME IInv, NEW p \in Requests, End(p)
    PROVE  /\ req' \in [Requests -> Request]
           /\ \A x \in Requests : req'[x] = req[x] \/ RoleOK(x)'
<1>1. Idle \in Request
  BY DEF Request
<1>2. /\ req' \in [Requests -> Request]
      /\ req'[p] = Idle
      /\ \A x \in Requests : x # p => req'[x] = req[x]
  BY <1>1, BecomeKeeps DEF End
<1>3. RoleOK(p)'
  BY <1>2 DEF RoleOK, Idle
<1> QED
  BY <1>2, <1>3

-----------------------------------------------------------------------------
(* Requests of administrators *)

\* A request that is not about a role is accepted.
LEMMA BeginPlain ==
    ASSUME IInv, NEW p \in Requests, NEW q \in PlainRequest \cup AppointRequest,
           Become(p, q), UNCHANGED <<org, member, allowlist, domain, bonus>>
    PROVE  IInv'
<1>1. q \in Request /\ q.op # "role"
  BY DEF Request, PlainRequest, AppointRequest
<1>2. /\ req' \in [Requests -> Request]
      /\ req'[p] = q
      /\ \A x \in Requests : x # p => req'[x] = req[x]
  BY <1>1, BecomeKeeps
<1>3. RoleOK(p)'
  BY <1>1, <1>2 DEF RoleOK
<1>4. /\ org' \in [Orgs -> OrgRow]
      /\ allowlist' \in [Orgs -> [Users -> {"none", "unused", "used"}]]
      /\ domain' \in [Orgs -> [Users -> {"none", "manual", "auto"}]]
  BY DEF IInv, TablesOK
<1> QED
  BY <1>2, <1>3, <1>4, SameRows

\* A request about a role has read an approved row.
LEMMA BeginRoleRequest ==
    ASSUME IInv, NEW p \in Requests, NEW o \in Orgs, NEW u \in Users,
           NEW role \in {"MEMBER", "ADMIN"}, member[o][u].status = "APPROVED",
           Become(p, [op |-> "role", org |-> o, user |-> u, role |-> role,
                      gen |-> member[o][u].gen]),
           UNCHANGED <<org, member, allowlist, domain, bonus>>
    PROVE  IInv'
<1>1. member[o][u].gen \in 0..MaxGen
  BY DEF IInv, TablesOK, Row
<1>2. PICK g \in 0..MaxGen : g = member[o][u].gen
  BY <1>1
<1>3. PICK q : q = [op |-> "role", org |-> o, user |-> u, role |-> role, gen |-> g]
  OBVIOUS
<1>4. q \in Request
  BY <1>3 DEF Request
<1>5. Become(p, q)
  BY <1>2, <1>3
<1>6. /\ req' \in [Requests -> Request]
      /\ req'[p] = q
      /\ \A x \in Requests : x # p => req'[x] = req[x]
  BY <1>4, <1>5, BecomeKeeps
<1>7. RoleOK(p)'
  <2>1. /\ req'[p].org = o
        /\ req'[p].user = u
        /\ req'[p].gen = g
    BY <1>3, <1>6
  <2> QED
    BY <1>2, <2>1 DEF RoleOK
<1>8. /\ org' \in [Orgs -> OrgRow]
      /\ allowlist' \in [Orgs -> [Users -> {"none", "unused", "used"}]]
      /\ domain' \in [Orgs -> [Users -> {"none", "manual", "auto"}]]
  BY DEF IInv, TablesOK
<1> QED
  BY <1>6, <1>7, <1>8, SameRows

LEMMA BeginIInv ==
    ASSUME IInv, NEW p \in Requests, NEW a \in Users, NEW u \in Users,
           NEW o \in Orgs, Begin(p, a, o, u)
    PROVE  IInv'
<1>1. ASSUME NEW d \in {"APPROVED", "REJECTED"}, BeginReview(p, a, o, u, d)
      PROVE  IInv'
  <2>1. [op |-> d, org |-> o, user |-> u] \in PlainRequest
    BY DEF PlainRequest
  <2> QED
    BY <1>1, <2>1, BeginPlain DEF BeginReview
<1>2. ASSUME NEW role \in {"MEMBER", "ADMIN", "OWNER"}, BeginRole(p, a, o, u, role)
      PROVE  IInv'
  BY <1>2, BeginRoleRequest DEF BeginRole, ValidRole
<1>3. CASE BeginRevoke(p, a, o, u)
  <2>1. member[o][u].status = "APPROVED"
    BY <1>3 DEF BeginRevoke, Administrators
  <2> QED
    BY <1>3, <2>1, BeginRoleRequest DEF BeginRevoke
<1>4. CASE BeginRemove(p, a, o, u)
  <2>1. [op |-> "remove", org |-> o, user |-> u] \in PlainRequest
    BY DEF PlainRequest
  <2> QED
    BY <1>4, <2>1, BeginPlain DEF BeginRemove
<1>5. CASE BeginAppoint(p, a, o, u)
  <2>1. member[o][u].gen \in 0..MaxGen
    BY DEF IInv, TablesOK, Row
  <2>2. [op |-> "appoint", org |-> o, user |-> u, gen |-> member[o][u].gen]
          \in AppointRequest
    BY <2>1 DEF AppointRequest
  <2> QED
    BY <1>5, <2>2, BeginPlain DEF BeginAppoint
<1> QED
  BY <1>1, <1>2, <1>3, <1>4, <1>5 DEF Begin

\* What a commit that finds its row changed, or gone, does.
LEMMA NothingWritten ==
    ASSUME IInv, NEW p \in Requests, End(p),
           UNCHANGED <<org, member, allowlist, domain, bonus>>
    PROVE  IInv'
<1>1. /\ org' \in [Orgs -> OrgRow]
      /\ allowlist' \in [Orgs -> [Users -> {"none", "unused", "used"}]]
      /\ domain' \in [Orgs -> [Users -> {"none", "manual", "auto"}]]
  BY DEF IInv, TablesOK
<1> QED
  BY <1>1, EndKeeps, SameRows

\* A row that exists belongs to an organization that was created.
LEMMA CreatedFirst ==
    ASSUME IInv, NEW o \in Orgs, NEW u \in Users, member[o][u].status # "NONE"
    PROVE  org[o].status # "NONE"
  BY DEF IInv, NoRow

\* A removal or an appointment writes the status and the role of a row.
LEMMA TwoFields ==
    ASSUME NEW old \in Row, NEW s, NEW r
    PROVE  [old EXCEPT !.status = s, !.role = r] =
              [status |-> s, role |-> r, gen |-> old.gen]
<1>1. PICK one : one = [old EXCEPT !.status = s]
  OBVIOUS
<1>2. one = [status |-> s, role |-> old.role, gen |-> old.gen]
  BY <1>1 DEF Row
<1>3. [one EXCEPT !.role = r] = [status |-> s, role |-> r, gen |-> old.gen]
  BY <1>2
<1> QED
  BY <1>1, <1>3, Zenon

LEMMA CommitReviewIInv ==
    ASSUME IInv, NEW p \in Requests, CommitReview(p)
    PROVE  IInv'
<1>1. req[p] \in PlainRequest
  BY RequestFields DEF IInv, TablesOK, CommitReview
<1>2. PICK o \in Orgs, u \in Users, d \in {"APPROVED", "REJECTED"} :
        o = req[p].org /\ u = req[p].user /\ d = req[p].op
  BY <1>1 DEF PlainRequest, CommitReview
<1>3. End(p) /\ UNCHANGED <<org, allowlist, domain>>
  BY DEF CommitReview
<1>4. CASE member[o][u].status \in Reviewable(d)
  <2>1. PICK old \in Row : old = member[o][u]
    BY DEF IInv, TablesOK
  <2>2. PICK new : new = [old EXCEPT !.status = d]
    OBVIOUS
  <2>3. SetMember(o, u, new)
    BY <1>2, <1>4, <2>1, <2>2 DEF CommitReview
  <2>4. old.status \in {"PENDING", "REJECTED"} /\ old.role # "ADMIN"
    BY <1>4, <2>1 DEF Reviewable, IInv, AdminsAreApproved
  <2>5. new \in Row /\ RowMove(old, new)
    BY <2>2, <2>4 DEF Row, RowMove
  <2>6. org[o].status # "NONE"
    BY <2>1, <2>4, CreatedFirst
  <2> QED
    BY <1>3, <2>1, <2>3, <2>5, <2>6, EndKeeps, SetRow
<1>5. CASE member[o][u].status \notin Reviewable(d)
  <2>1. UNCHANGED <<member, bonus>>
    BY <1>2, <1>5 DEF CommitReview
  <2> QED
    BY <1>3, <2>1, NothingWritten
<1> QED
  BY <1>4, <1>5

LEMMA CommitRoleIInv ==
    ASSUME IInv, NEW p \in Requests, CommitRole(p)
    PROVE  IInv'
<1>1. req[p] \in RoleRequest
  BY RequestFields DEF IInv, TablesOK, CommitRole
<1>2. PICK o \in Orgs, u \in Users, role \in {"MEMBER", "ADMIN"} :
        o = req[p].org /\ u = req[p].user /\ role = req[p].role
  BY <1>1 DEF RoleRequest
<1>3. End(p) /\ UNCHANGED <<org, allowlist, domain>>
  BY DEF CommitRole
<1>4. CASE Exists(o, u) /\ AuditAccepted(o, u, req[p].gen)
  <2>1. PICK old \in Row : old = member[o][u]
    BY DEF IInv, TablesOK
  <2>2. PICK new : new = [old EXCEPT !.role = role]
    OBVIOUS
  <2>3. SetMember(o, u, new)
    BY <1>2, <1>4, <2>1, <2>2 DEF CommitRole
  <2>4. old.status = "APPROVED"
    BY <1>2, <1>4, <2>1 DEF IInv, RoleOK, CommitRole, Exists, AuditAccepted
  <2>5. new \in Row /\ RowMove(old, new)
    BY <2>2, <2>4 DEF Row, RowMove
  <2>6. org[o].status # "NONE"
    BY <2>1, <2>4, CreatedFirst
  <2> QED
    BY <1>3, <2>1, <2>3, <2>5, <2>6, EndKeeps, SetRow
<1>5. CASE ~ (Exists(o, u) /\ AuditAccepted(o, u, req[p].gen))
  <2>1. UNCHANGED <<member, bonus>>
    BY <1>2, <1>5 DEF CommitRole
  <2> QED
    BY <1>3, <2>1, NothingWritten
<1> QED
  BY <1>4, <1>5

LEMMA CommitRemoveIInv ==
    ASSUME IInv, NEW p \in Requests, CommitRemove(p)
    PROVE  IInv'
<1>1. req[p] \in PlainRequest
  BY RequestFields DEF IInv, TablesOK, CommitRemove
<1>2. PICK o \in Orgs, u \in Users : o = req[p].org /\ u = req[p].user
  BY <1>1 DEF PlainRequest
<1>3. End(p) /\ UNCHANGED <<org, allowlist, domain>>
  BY DEF CommitRemove
<1>4. PICK old \in Row : old = member[o][u]
  BY DEF IInv, TablesOK
<1>5. PICK new : new = [status |-> "NONE", role |-> "MEMBER", gen |-> old.gen]
  OBVIOUS
<1>6. SetMember(o, u, new)
  <2>1. [member[o][u] EXCEPT !.status = "NONE", !.role = "MEMBER"] = new
    BY <1>4, <1>5, TwoFields, Zenon
  <2>2. SetMember(o, u, [member[o][u] EXCEPT !.status = "NONE", !.role = "MEMBER"])
    BY <1>2, Zenon DEF CommitRemove
  <2> QED
    BY <2>1, <2>2, Zenon
<1>7. new \in Row /\ RowMove(old, new)
  BY <1>5 DEF Row, RowMove
<1>8. org[o].status = "NONE" => new = NoRow
  <2> HAVE org[o].status = "NONE"
  <2>1. old = NoRow
    BY <1>4 DEF IInv
  <2> QED
    BY <1>5, <2>1 DEF NoRow
<1> QED
  BY <1>3, <1>4, <1>6, <1>7, <1>8, EndKeeps, SetRow

LEMMA CommitAppointIInv ==
    ASSUME IInv, NEW p \in Requests, CommitAppoint(p)
    PROVE  IInv'
<1>1. req[p] \in AppointRequest
  BY RequestFields DEF IInv, TablesOK, CommitAppoint
<1>2. PICK o \in Orgs, u \in Users : o = req[p].org /\ u = req[p].user
  BY <1>1 DEF AppointRequest
<1>3. End(p) /\ UNCHANGED <<org, allowlist, domain>>
  BY DEF CommitAppoint
<1>4. CASE Appointable(o, u, req[p].gen)
  <2>1. PICK old \in Row : old = member[o][u]
    BY DEF IInv, TablesOK
  <2>2. PICK new : new = [status |-> "APPROVED", role |-> "ADMIN", gen |-> old.gen]
    OBVIOUS
  <2>3. SetMember(o, u, new)
    <3>1. [member[o][u] EXCEPT !.status = "APPROVED", !.role = "ADMIN"] = new
      BY <2>1, <2>2, TwoFields, Zenon
    <3>2. SetMember(o, u, [member[o][u] EXCEPT !.status = "APPROVED", !.role = "ADMIN"])
      BY <1>2, <1>4, Zenon DEF CommitAppoint
    <3> QED
      BY <3>1, <3>2, Zenon
  <2>4. old.status \in {"PENDING", "APPROVED"}
    BY <1>4, <2>1 DEF Appointable
  <2>5. new \in Row /\ RowMove(old, new)
    BY <2>2, <2>4 DEF Row, RowMove
  <2>6. org[o].status # "NONE"
    BY <2>1, <2>4, CreatedFirst
  <2> QED
    BY <1>3, <2>1, <2>3, <2>5, <2>6, EndKeeps, SetRow
<1>5. CASE ~ Appointable(o, u, req[p].gen)
  <2>1. UNCHANGED <<member, bonus>>
    BY <1>2, <1>5 DEF CommitAppoint
  <2> QED
    BY <1>3, <2>1, NothingWritten
<1> QED
  BY <1>4, <1>5

-----------------------------------------------------------------------------
(* Organizations, rules and requests of users *)

LEMMA CreateIInv ==
    ASSUME IInv, NEW a \in Users, NEW u \in Users, NEW o \in Orgs,
           CreateChildOrganization(a, o, u)
    PROVE  IInv'
<1>1. org[o].status = "NONE" /\ member[o][u] = NoRow
  BY DEF CreateChildOrganization, IInv
<1>2. PICK r : r = [status |-> "APPROVED", role |-> "ADMIN", gen |-> 1]
  OBVIOUS
<1>3. member' = [member EXCEPT ![o] = [member[o] EXCEPT ![u] = r]]
  BY <1>1, <1>2 DEF CreateChildOrganization, NewRow, NoRow
<1>4. r \in Row /\ RowMove(NoRow, r)
  BY <1>2 DEF Row, RowMove, NoRow
<1>5. member \in [Orgs -> [Users -> Row]] /\ org \in [Orgs -> OrgRow]
  BY DEF IInv, TablesOK
<1>6. member' \in [Orgs -> [Users -> Row]]
  BY <1>3, <1>4, <1>5
<1>7. \A x \in Orgs, y \in Users :
        member'[x][y] = IF x = o /\ y = u THEN r ELSE member[x][y]
  BY <1>3, <1>5
<1>8. \A x \in Orgs, y \in Users : RowMove(member[x][y], member'[x][y])
  BY <1>1, <1>4, <1>7, StillMove
<1>9. PICK s : s = [status |-> "ACTIVE", joinBonus |-> 0]
  OBVIOUS
<1>10. org' = [org EXCEPT ![o] = s]
  BY <1>9 DEF CreateChildOrganization
<1>11. s \in OrgRow /\ s.status # "NONE"
  BY <1>9 DEF OrgRow
<1>12. org' \in [Orgs -> OrgRow]
  BY <1>5, <1>10, <1>11
<1>13. \A x \in Orgs : org'[x].status = "NONE" =>
         \A y \in Users : member'[x][y] = NoRow
  BY <1>5, <1>7, <1>10, <1>11 DEF IInv
<1>14. UNCHANGED <<allowlist, domain, bonus, req>>
  BY DEF CreateChildOrganization
<1>15. /\ allowlist' \in [Orgs -> [Users -> {"none", "unused", "used"}]]
       /\ domain' \in [Orgs -> [Users -> {"none", "manual", "auto"}]]
       /\ req' \in [Requests -> Request]
       /\ bonus' \in [Orgs -> [Users -> 0..1]]
  BY <1>14, BonusType DEF IInv, TablesOK
<1>16. \A p \in Requests : req'[p] = req[p]
  BY <1>14
<1> QED
  BY <1>6, <1>8, <1>12, <1>13, <1>15, <1>16, StepKeeps

LEMMA UpdateIInv ==
    ASSUME IInv, NEW o \in Orgs, NEW s \in OrgStatuses, NEW n \in Bonuses,
           UpdateOrganization(o, s, n)
    PROVE  IInv'
<1>1. PICK r : r = [status |-> s, joinBonus |-> n]
  OBVIOUS
<1>2. r \in OrgRow /\ r.status # "NONE"
  BY <1>1 DEF OrgRow
<1>3. org' = [org EXCEPT ![o] = r] /\ UNCHANGED <<member, allowlist, domain, bonus, req>>
  BY <1>1 DEF UpdateOrganization
<1>4. /\ org' \in [Orgs -> OrgRow]
      /\ \A x \in Orgs : org'[x].status = "NONE" => org[x].status = "NONE"
  BY <1>2, <1>3 DEF IInv, TablesOK
<1>5. /\ allowlist' \in [Orgs -> [Users -> {"none", "unused", "used"}]]
      /\ domain' \in [Orgs -> [Users -> {"none", "manual", "auto"}]]
      /\ req' \in [Requests -> Request]
  BY <1>3 DEF IInv, TablesOK
<1> QED
  BY <1>3, <1>4, <1>5, SameRows

LEMMA RulesIInv ==
    ASSUME IInv, NEW o \in Orgs, NEW u \in Invited, Rules(u, o)
    PROVE  IInv'
<1>1. u \in Users
  OBVIOUS
<1>2. /\ org \in [Orgs -> OrgRow]
      /\ allowlist \in [Orgs -> [Users -> {"none", "unused", "used"}]]
      /\ domain \in [Orgs -> [Users -> {"none", "manual", "auto"}]]
      /\ req \in [Requests -> Request]
  BY DEF IInv, TablesOK
<1>3. UNCHANGED <<org, member, bonus, req>>
  BY DEF Rules, AddToAllowlist, RemoveFromAllowlist, AddEmailDomain, ChangeEmailDomain
<1>4. /\ allowlist' \in [Orgs -> [Users -> {"none", "unused", "used"}]]
      /\ domain' \in [Orgs -> [Users -> {"none", "manual", "auto"}]]
  <2>1. CASE AddToAllowlist(o, u) \/ RemoveFromAllowlist(o, u)
    <3>1. PICK e \in {"none", "unused", "used"} :
            allowlist' = [allowlist EXCEPT ![o] = [allowlist[o] EXCEPT ![u] = e]]
      BY <2>1 DEF AddToAllowlist, RemoveFromAllowlist
    <3>2. domain' = domain
      BY <2>1 DEF AddToAllowlist, RemoveFromAllowlist
    <3> QED
      BY <1>1, <1>2, <3>1, <3>2
  <2>2. ASSUME NEW mode \in {"none", "manual", "auto"},
               AddEmailDomain(o, u, mode) \/ ChangeEmailDomain(o, u, mode)
        PROVE  /\ allowlist' \in [Orgs -> [Users -> {"none", "unused", "used"}]]
               /\ domain' \in [Orgs -> [Users -> {"none", "manual", "auto"}]]
    <3>1. domain' = [domain EXCEPT ![o] = [domain[o] EXCEPT ![u] = mode]]
      BY <2>2 DEF AddEmailDomain, ChangeEmailDomain
    <3>2. allowlist' = allowlist
      BY <2>2 DEF AddEmailDomain, ChangeEmailDomain
    <3> QED
      BY <1>1, <1>2, <3>1, <3>2
  <2> QED
    BY <2>1, <2>2 DEF Rules
<1> QED
  BY <1>2, <1>3, <1>4, SameRows

\* The row that requestMembership makes.
LEMMA MadeRow ==
    ASSUME IInv, NEW o \in Orgs, NEW u \in Users, ~Exists(o, u),
           member[o][u].gen < MaxGen, NEW s \in {"PENDING", "APPROVED"}
    PROVE  /\ NewRow(o, u, s, "MEMBER") \in Row
           /\ RowMove(member[o][u], NewRow(o, u, s, "MEMBER"))
<1>1. PICK g \in Nat : g = member[o][u].gen
  BY DEF IInv, TablesOK, Row
<1>2. PICK new : new = [status |-> s, role |-> "MEMBER", gen |-> g + 1]
  OBVIOUS
<1>3. new \in Row
  BY <1>1, <1>2 DEF Row
<1>4. RowMove(member[o][u], new)
  BY <1>1, <1>2, <1>3 DEF RowMove
<1> QED
  BY <1>1, <1>2, <1>3, <1>4 DEF NewRow

LEMMA RequestIInv ==
    ASSUME IInv, NEW u \in Users, NEW o \in Orgs, RequestMembership(u, o)
    PROVE  IInv'
<1> DEFINE matched ==
             {r \in Orgs : domain[r][u] = "auto" \/ allowlist[r][u] = "unused"}
           rules == {r \in matched : o \in ActivePath(r)}
           approve == UNION {ActivePath(r) : r \in rules}
           new == {a \in approve : ~Exists(a, u)}
<1>1. UNCHANGED <<org, domain, req>>
  BY DEF RequestMembership
<1>2. /\ org' \in [Orgs -> OrgRow]
      /\ domain' \in [Orgs -> [Users -> {"none", "manual", "auto"}]]
      /\ req' \in [Requests -> Request]
      /\ \A p \in Requests : req'[p] = req[p]
  BY <1>1 DEF IInv, TablesOK
<1>3. CASE rules # {}
  <2>1. /\ member' = [a \in Orgs |-> IF a \in approve
             THEN [member[a] EXCEPT ![u] = Joined(a, u)] ELSE member[a]]
        /\ bonus' = [a \in Orgs |-> IF a \in new
             THEN [bonus[a] EXCEPT ![u] = @ + Award(a, u)]
             ELSE bonus[a]]
        /\ allowlist' = [r \in Orgs |->
             IF r \in rules /\ allowlist[r][u] = "unused"
             THEN [allowlist[r] EXCEPT ![u] = "used"] ELSE allowlist[r]]
    BY <1>3, Zenon DEF RequestMembership
  <2>2. ASSUME NEW a \in Orgs, a \in new
        PROVE  /\ NewRow(a, u, "APPROVED", "MEMBER") \in Row
               /\ RowMove(member[a][u], NewRow(a, u, "APPROVED", "MEMBER"))
               /\ org[a].status # "NONE"
    <3>1. ~Exists(a, u) /\ member[a][u].gen < MaxGen
      BY <2>2, Zenon DEF RequestMembership
    <3>2. IsActive(a)
      BY <2>2 DEF ActivePath
    <3> QED
      BY <3>1, <3>2, MadeRow DEF IsActive
  <2>0. \A a \in Orgs : a \in new <=> a \in approve /\ ~Exists(a, u)
    OBVIOUS
  <2> HIDE DEF new, rules, approve
  <2>3. PICK made \in [new \cap Orgs -> Row] :
          /\ \A a \in new \cap Orgs : RowMove(member[a][u], made[a])
          /\ \A a \in new \cap Orgs : made[a] = NewRow(a, u, "APPROVED", "MEMBER")
    <3> DEFINE f == [a \in new \cap Orgs |-> NewRow(a, u, "APPROVED", "MEMBER")]
    <3>1. f \in [new \cap Orgs -> Row]
      BY <2>2
    <3>2. \A a \in new \cap Orgs : f[a] = NewRow(a, u, "APPROVED", "MEMBER")
      OBVIOUS
    <3> HIDE DEF f
    <3> QED
      BY <2>2, <3>1, <3>2
  <2>4. member \in [Orgs -> [Users -> Row]]
    BY DEF IInv, TablesOK
  <2>5. member' = [a \in Orgs |-> IF a \in new
          THEN [member[a] EXCEPT ![u] = made[a]] ELSE member[a]]
    <3>1. \A a \in Orgs : a \in approve /\ a \notin new =>
             [member[a] EXCEPT ![u] = Joined(a, u)] = member[a]
      BY <2>0, <2>4 DEF Joined
    <3>2. \A a \in Orgs : a \in new => Joined(a, u) = made[a]
      BY <2>0, <2>3 DEF Joined
    <3>3. \A a \in Orgs :
             (IF a \in approve THEN [member[a] EXCEPT ![u] = Joined(a, u)]
              ELSE member[a])
             = (IF a \in new THEN [member[a] EXCEPT ![u] = made[a]] ELSE member[a])
      BY <2>0, <3>1, <3>2
    <3> QED
      BY <2>1, <3>3
  <2>6. member' \in [Orgs -> [Users -> Row]]
    BY <2>3, <2>4, <2>5
  <2>7. \A a \in Orgs, y \in Users : member'[a][y] =
          IF a \in new /\ y = u THEN made[a] ELSE member[a][y]
    BY <2>4, <2>5
  <2>8. \A a \in Orgs, y \in Users : RowMove(member[a][y], member'[a][y])
    BY <2>3, <2>7, StillMove
  <2>9. \A a \in Orgs : org'[a].status = "NONE" =>
          \A y \in Users : member'[a][y] = NoRow
    BY <1>1, <2>2, <2>7 DEF IInv
  <2>10. bonus' \in [Orgs -> [Users -> 0..1]]
    <3> SUFFICES ASSUME NEW a \in Orgs
                 PROVE  bonus'[a] \in [Users -> 0..1]
      BY <2>1
    <3>1. bonus[a] \in [Users -> 0..1]
      BY BonusType
    <3>2. PICK n \in 0..1 : n = bonus[a][u] + Award(a, u)
      BY AwardOnce
    <3>3. bonus'[a] = bonus[a] \/ bonus'[a] = [bonus[a] EXCEPT ![u] = n]
      BY <2>1, <3>2
    <3> QED
      BY <3>1, <3>3
  <2>11. allowlist' \in [Orgs -> [Users -> {"none", "unused", "used"}]]
    <3> SUFFICES ASSUME NEW a \in Orgs
                 PROVE  allowlist'[a] \in [Users -> {"none", "unused", "used"}]
      BY <2>1
    <3>1. allowlist[a] \in [Users -> {"none", "unused", "used"}]
      BY DEF IInv, TablesOK
    <3>2. \/ allowlist'[a] = allowlist[a]
          \/ allowlist'[a] = [allowlist[a] EXCEPT ![u] = "used"]
      BY <2>1
    <3> QED
      BY <3>1, <3>2
  <2> QED
    BY <1>2, <2>6, <2>8, <2>9, <2>10, <2>11, StepKeeps
<1>4. CASE rules = {}
  <2>1. /\ SetMember(o, u, NewRow(o, u, "PENDING", "MEMBER"))
        /\ UNCHANGED allowlist
    BY <1>4, Zenon DEF RequestMembership
  <2>2. IsActive(o) /\ ~Exists(o, u) /\ member[o][u].gen < MaxGen
    BY Zenon DEF RequestMembership
  <2>3. PICK r \in Row :
          r = NewRow(o, u, "PENDING", "MEMBER") /\ RowMove(member[o][u], r)
    BY <2>2, MadeRow
  <2>4. org[o].status # "NONE"
    BY <2>2 DEF IsActive
  <2> QED
    BY <1>1, <1>2, <2>1, <2>3, <2>4, SetRow
<1> QED
  BY <1>3, <1>4

-----------------------------------------------------------------------------
(* Invariance *)

LEMMA InitIInv == Init => IInv
<1> SUFFICES ASSUME Init PROVE IInv
  OBVIOUS
<1> DEFINE founder == [status |-> "APPROVED", role |-> "ADMIN", gen |-> 1]
<1>1. founder \in Row /\ NoRow \in Row
  BY DEF Row, NoRow
<1>2. member = [o \in Orgs |-> [u \in Users |->
        IF u \in Founders[o] THEN founder ELSE NoRow]]
  BY DEF Init, NoRow
<1>3. founder.role = "ADMIN" /\ founder.status = "APPROVED" /\ NoRow.role = "MEMBER"
  BY DEF NoRow
<1> HIDE DEF founder
<1>4. member \in [Orgs -> [Users -> Row]]
  BY <1>1, <1>2
<1>5. \A o \in Orgs, u \in Users :
        member[o][u] = IF u \in Founders[o] THEN founder ELSE NoRow
  BY <1>2
<1>6. AdminsAreApproved
  BY <1>3, <1>5 DEF AdminsAreApproved
<1>7. \A o \in Orgs : org[o].status = "NONE" => \A u \in Users : member[o][u] = NoRow
  BY <1>5 DEF Init
<1>8. org \in [Orgs -> OrgRow]
  BY DEF Init, OrgRow
<1>9. req \in [Requests -> Request] /\ \A p \in Requests : RoleOK(p)
  BY DEF Init, Request, RoleOK, Idle
<1>10. bonus \in [Orgs -> [Users -> Nat]] /\ JoinBonusOnce
  BY DEF Init, JoinBonusOnce
<1>11. /\ allowlist \in [Orgs -> [Users -> {"none", "unused", "used"}]]
       /\ domain \in [Orgs -> [Users -> {"none", "manual", "auto"}]]
  BY DEF Init
<1> QED
  BY <1>4, <1>6, <1>7, <1>8, <1>9, <1>10, <1>11 DEF IInv, TablesOK

LEMMA NextIInv == IInv /\ [Next]_vars => IInv'
<1> SUFFICES ASSUME IInv, [Next]_vars PROVE IInv'
  OBVIOUS
<1>1. ASSUME NEW p \in Requests, NEW a \in Users, NEW u \in Users, NEW o \in Orgs,
             Begin(p, a, o, u)
      PROVE  IInv'
  BY <1>1, BeginIInv
<1>2. ASSUME NEW p \in Requests, Commit(p)
      PROVE  IInv'
  BY <1>2, CommitReviewIInv, CommitRoleIInv, CommitRemoveIInv, CommitAppointIInv
     DEF Commit
<1>3. ASSUME NEW a \in Users, NEW u \in Users, NEW o \in Orgs,
             CreateChildOrganization(a, o, u)
      PROVE  IInv'
  BY <1>3, CreateIInv
<1>4. ASSUME NEW u \in Users, NEW o \in Orgs, RequestMembership(u, o)
      PROVE  IInv'
  BY <1>4, RequestIInv
<1>5. ASSUME NEW u \in Invited, NEW o \in Orgs, Rules(u, o)
      PROVE  IInv'
  BY <1>5, RulesIInv
<1>6. ASSUME NEW o \in Orgs, NEW s \in OrgStatuses, NEW n \in Bonuses,
             UpdateOrganization(o, s, n)
      PROVE  IInv'
  BY <1>6, UpdateIInv
<1>7. CASE UNCHANGED vars
  BY <1>7 DEF IInv, TablesOK, AdminsAreApproved, JoinBonusOnce, RoleOK, vars
<1> QED
  BY <1>1, <1>2, <1>3, <1>4, <1>5, <1>6, <1>7 DEF Next, Operation

\* Every reachable state of the membership tables and the requests over them
\* satisfies the inductive invariant: rows of approved administrators, no rows
\* in an organization that was not created, and role requests whose row is
\* still approved unless it was removed.
THEOREM Invariance == Spec => []IInv
  BY InitIInv, NextIInv, PTL DEF Spec

\* However reviews, role changes, removals, appointments and requests race, the
\* tables keep their types, administrators are approved members, and a user is
\* paid at most one join bonus for each organization.
THEOREM MembershipsStaySound == Spec => []MembershipsAreSound
<1> DEFINE HistoryOK == overlapped \subseteq Orgs
<1>1. Init => HistoryOK
  BY DEF Init
<1>2. HistoryOK /\ [Next]_vars => HistoryOK'
  BY DEF Next, NoteOverlaps, vars
<1>3. IInv /\ HistoryOK => MembershipsAreSound
  BY DEF IInv, MembershipsAreSound, TypeOK
<1> QED
  BY <1>1, <1>2, <1>3, Invariance, PTL DEF Spec

-----------------------------------------------------------------------------
(* Decisions *)

\* Only the commit of an administrator's request changes a row that exists.
RowsStay ==
    \A o \in Orgs, u \in Users : Exists(o, u) => member'[o][u] = member[o][u]

LEMMA RowsStayBegin ==
    ASSUME NEW p \in Requests, NEW a \in Users, NEW u \in Users, NEW o \in Orgs,
           Begin(p, a, o, u)
    PROVE  UNCHANGED <<org, member, allowlist, domain, bonus>>
  BY DEF Begin, BeginReview, BeginRole, BeginRevoke, BeginRemove, BeginAppoint

LEMMA RowsStayRules ==
    ASSUME NEW u \in Users, NEW o \in Orgs, Rules(u, o)
    PROVE  UNCHANGED <<org, member, bonus, req>>
  BY DEF Rules, AddToAllowlist, RemoveFromAllowlist, AddEmailDomain, ChangeEmailDomain

LEMMA RowsStayCreate ==
    ASSUME IInv, NEW a \in Users, NEW u \in Users, NEW o \in Orgs,
           CreateChildOrganization(a, o, u)
    PROVE  RowsStay
<1>1. ~Exists(o, u)
  BY DEF CreateChildOrganization, IInv, NoRow, Exists
<1>2. PICK r :
        member' = [member EXCEPT ![o] = [member[o] EXCEPT ![u] = r]]
  BY DEF CreateChildOrganization
<1>3. member \in [Orgs -> [Users -> Row]]
  BY DEF IInv, TablesOK
<1>4. \A x \in Orgs, y \in Users :
        ~ (x = o /\ y = u) => member'[x][y] = member[x][y]
  BY <1>2, <1>3
<1> QED
  BY <1>1, <1>4 DEF RowsStay

LEMMA RowsStayRequest ==
    ASSUME IInv, NEW u \in Users, NEW o \in Orgs, RequestMembership(u, o)
    PROVE  RowsStay
<1> DEFINE matched ==
             {r \in Orgs : domain[r][u] = "auto" \/ allowlist[r][u] = "unused"}
           rules == {r \in matched : o \in ActivePath(r)}
           approve == UNION {ActivePath(r) : r \in rules}
           new == {a \in approve : ~Exists(a, u)}
<1>1. member \in [Orgs -> [Users -> Row]]
  BY DEF IInv, TablesOK
<1>2. CASE rules # {}
  <2>1. member' = [a \in Orgs |-> IF a \in approve
          THEN [member[a] EXCEPT ![u] = Joined(a, u)] ELSE member[a]]
    BY <1>2, Zenon DEF RequestMembership
  <2> HIDE DEF approve
  <2> QED
    BY <1>1, <2>1 DEF RowsStay, Joined
<1>3. CASE rules = {}
  <2>1. SetMember(o, u, NewRow(o, u, "PENDING", "MEMBER")) /\ ~Exists(o, u)
    BY <1>3, Zenon DEF RequestMembership
  <2>2. PICK r :
          member' = [member EXCEPT ![o] = [member[o] EXCEPT ![u] = r]]
    BY <2>1 DEF SetMember
  <2>3. \A x \in Orgs, y \in Users :
          ~ (x = o /\ y = u) => member'[x][y] = member[x][y]
    BY <1>1, <2>2
  <2> QED
    BY <2>1, <2>3 DEF RowsStay
<1> QED
  BY <1>2, <1>3

\* The commit of request p writes one row, or none.
LEMMA CommitWrites ==
    ASSUME IInv, NEW p \in Requests, Commit(p)
    PROVE  /\ req[p] \in PlainRequest \cup RoleRequest \cup AppointRequest
           /\ \A o \in Orgs, u \in Users :
                ~ (o = req[p].org /\ u = req[p].user) => member'[o][u] = member[o][u]
<1>1. req[p] \in PlainRequest \cup RoleRequest \cup AppointRequest
  BY RequestFields
     DEF Commit, CommitReview, CommitRole, CommitRemove, CommitAppoint, IInv, TablesOK
<1>2. \/ UNCHANGED member
      \/ \E r : SetMember(req[p].org, req[p].user, r)
  BY Zenon DEF Commit, CommitReview, CommitRole, CommitRemove, CommitAppoint
<1>3. PICK x \in Orgs, y \in Users : x = req[p].org /\ y = req[p].user
  BY <1>1 DEF PlainRequest, RoleRequest, AppointRequest
<1>4. \A o \in Orgs, u \in Users :
        ~ (o = x /\ u = y) => member'[o][u] = member[o][u]
  <2>1. CASE UNCHANGED member
    BY <2>1
  <2>2. ASSUME NEW r, SetMember(x, y, r)
        PROVE  \A o \in Orgs, u \in Users :
                 ~ (o = x /\ u = y) => member'[o][u] = member[o][u]
    <3>1. member' = [member EXCEPT ![x] = [member[x] EXCEPT ![y] = r]]
      BY <2>2 DEF SetMember
    <3>2. member \in [Orgs -> [Users -> Row]]
      BY DEF IInv, TablesOK
    <3> QED
      BY <3>1, <3>2
  <2> QED
    BY <1>2, <1>3, <2>1, <2>2
<1> QED
  BY <1>1, <1>3, <1>4

\* The row that a commit writes is r.
LEMMA WrittenRow ==
    ASSUME IInv, NEW o \in Orgs, NEW u \in Users, NEW r, SetMember(o, u, r)
    PROVE  member'[o][u] = r
<1>1. member' = [member EXCEPT ![o] = [member[o] EXCEPT ![u] = r]]
  BY DEF SetMember
<1>2. member \in [Orgs -> [Users -> Row]]
  BY DEF IInv, TablesOK
<1> QED
  BY <1>1, <1>2

\* What a commit with the fields of q does to its row.
Written(q, old, new) ==
    \/ new = old
    \/ /\ q.op \in {"APPROVED", "REJECTED"} /\ old.status \in Reviewable(q.op)
       /\ new.status = q.op /\ new.role = old.role
    \/ /\ q.op = "role" /\ old.status = "APPROVED"
       /\ new.status = "APPROVED" /\ new.role = q.role
    \/ q.op = "remove" /\ new.status = "NONE"
    \/ /\ q.op = "appoint" /\ old.status \in {"PENDING", "APPROVED"}
       /\ new.status = "APPROVED" /\ new.role = "ADMIN"

LEMMA CommitMoves ==
    ASSUME IInv, NEW p \in Requests, Commit(p), NEW o \in Orgs, NEW u \in Users,
           o = req[p].org, u = req[p].user
    PROVE  Written(req[p], member[o][u], member'[o][u])
<1>1. PICK old \in Row : old = member[o][u]
  BY DEF IInv, TablesOK
<1>2. CASE CommitReview(p)
  <2>1. \/ UNCHANGED member
        \/ /\ old.status \in Reviewable(req[p].op)
           /\ SetMember(o, u, [old EXCEPT !.status = req[p].op])
    BY <1>1, <1>2 DEF CommitReview
  <2>2. CASE SetMember(o, u, [old EXCEPT !.status = req[p].op])
    <3>1. member'[o][u] = [old EXCEPT !.status = req[p].op]
      BY <2>2, WrittenRow
    <3>2. member'[o][u].status = req[p].op /\ member'[o][u].role = old.role
      BY <3>1 DEF Row
    <3> QED
      BY <1>1, <1>2, <2>1, <3>2 DEF Written, CommitReview
  <2> QED
    BY <1>1, <2>1, <2>2 DEF Written
<1>3. CASE CommitRole(p)
  <2>1. \/ UNCHANGED member
        \/ /\ Exists(o, u) /\ AuditAccepted(o, u, req[p].gen)
           /\ SetMember(o, u, [old EXCEPT !.role = req[p].role])
    BY <1>1, <1>3 DEF CommitRole
  <2>2. CASE /\ Exists(o, u) /\ AuditAccepted(o, u, req[p].gen)
             /\ SetMember(o, u, [old EXCEPT !.role = req[p].role])
    <3>1. member'[o][u] = [old EXCEPT !.role = req[p].role]
      BY <2>2, WrittenRow
    <3>2. member'[o][u].status = old.status /\ member'[o][u].role = req[p].role
      BY <3>1 DEF Row
    <3>3. old.status = "APPROVED" /\ req[p].op = "role"
      BY <1>1, <1>3, <2>2 DEF IInv, RoleOK, CommitRole, Exists, AuditAccepted
    <3> QED
      BY <1>1, <3>2, <3>3 DEF Written
  <2> QED
    BY <1>1, <2>1, <2>2 DEF Written
<1>4. CASE CommitRemove(p)
  <2>1. SetMember(o, u, [member[o][u] EXCEPT !.status = "NONE", !.role = "MEMBER"])
    BY <1>4, Zenon DEF CommitRemove
  <2>2. SetMember(o, u, [status |-> "NONE", role |-> "MEMBER", gen |-> old.gen])
    <3>1. [old EXCEPT !.status = "NONE", !.role = "MEMBER"] =
            [status |-> "NONE", role |-> "MEMBER", gen |-> old.gen]
      BY TwoFields, Zenon
    <3>2. SetMember(o, u, [old EXCEPT !.status = "NONE", !.role = "MEMBER"])
      BY <1>1, <2>1, Zenon
    <3> QED
      BY <3>1, <3>2, Zenon
  <2>3. member'[o][u].status = "NONE"
    BY <2>2, WrittenRow
  <2> QED
    BY <1>4, <2>3 DEF CommitRemove, Written
<1>5. CASE CommitAppoint(p)
  <2>1. \/ UNCHANGED member
        \/ /\ Appointable(o, u, req[p].gen)
           /\ SetMember(o, u, [member[o][u] EXCEPT !.status = "APPROVED",
                                                   !.role = "ADMIN"])
    BY <1>5, Zenon DEF CommitAppoint
  <2>2. CASE /\ Appointable(o, u, req[p].gen)
             /\ SetMember(o, u, [member[o][u] EXCEPT !.status = "APPROVED",
                                                     !.role = "ADMIN"])
    <3>1. SetMember(o, u, [status |-> "APPROVED", role |-> "ADMIN", gen |-> old.gen])
      <4>1. [old EXCEPT !.status = "APPROVED", !.role = "ADMIN"] =
              [status |-> "APPROVED", role |-> "ADMIN", gen |-> old.gen]
        BY TwoFields, Zenon
      <4>2. SetMember(o, u, [old EXCEPT !.status = "APPROVED", !.role = "ADMIN"])
        BY <1>1, <2>2, Zenon
      <4> QED
        BY <4>1, <4>2, Zenon
    <3>2. member'[o][u].status = "APPROVED" /\ member'[o][u].role = "ADMIN"
      BY <3>1, WrittenRow
    <3> QED
      BY <1>5, <2>2, <3>2 DEF CommitAppoint, Appointable, Written
  <2> QED
    BY <2>1, <2>2 DEF Written
<1> QED
  BY <1>2, <1>3, <1>4, <1>5 DEF Commit

DecisionStands(o, u) ==
    LET old == member[o][u]
        new == member'[o][u]
    IN  /\ old.status = "APPROVED" => new.status \in {"APPROVED", "NONE"}
        /\ old.status = "REJECTED" /\ new.status = "APPROVED" =>
              \E p \in Requests : req[p] = [op |-> "APPROVED", org |-> o,
                                            user |-> u]

LEMMA StayStands ==
    ASSUME RowsStay, NEW o \in Orgs, NEW u \in Users
    PROVE  DecisionStands(o, u)
  BY DEF RowsStay, DecisionStands, Exists

LEMMA CommitStands ==
    ASSUME IInv, NEW p \in Requests, Commit(p), NEW o \in Orgs, NEW u \in Users
    PROVE  DecisionStands(o, u)
<1>1. CASE ~ (o = req[p].org /\ u = req[p].user)
  <2>1. member'[o][u] = member[o][u]
    BY <1>1, CommitWrites
  <2> QED
    BY <2>1 DEF DecisionStands
<1>2. CASE o = req[p].org /\ u = req[p].user
  <2>1. Written(req[p], member[o][u], member'[o][u])
    BY <1>2, CommitMoves
  <2>2. ASSUME req[p].op = "APPROVED"
        PROVE  req[p] = [op |-> "APPROVED", org |-> o, user |-> u]
    <3>1. req[p] \in PlainRequest
      BY <2>2, RequestFields DEF IInv, TablesOK
    <3> QED
      BY <1>2, <2>2, <3>1 DEF PlainRequest
  <2> QED
    BY <2>1, <2>2 DEF Written, DecisionStands, Reviewable
<1> QED
  BY <1>1, <1>2

\* Decisions about a membership stand, whatever requests wait: an approval ends
\* only with the row, and a rejection gives way only to a review that approves.
THEOREM DecisionsAreKept == Spec => DecisionsStand
<1>1. IInv /\ [Next]_vars =>
        [\A o \in Orgs, u \in Users : DecisionStands(o, u)]_vars
  <2> SUFFICES ASSUME IInv, Next, NEW o \in Orgs, NEW u \in Users
               PROVE  DecisionStands(o, u)
    OBVIOUS
  <2>1. ASSUME NEW p \in Requests, Commit(p)
        PROVE  DecisionStands(o, u)
    BY <2>1, CommitStands
  <2>2. CASE RowsStay
    BY <2>2, StayStands
  <2>3. ASSUME NEW p \in Requests, NEW a \in Users, NEW y \in Users, NEW x \in Orgs,
               Begin(p, a, x, y)
        PROVE  RowsStay
    BY <2>3, RowsStayBegin DEF RowsStay
  <2>4. ASSUME NEW y \in Invited, NEW x \in Orgs, Rules(y, x)
        PROVE  RowsStay
    BY <2>4, RowsStayRules DEF RowsStay
  <2>5. ASSUME NEW x \in Orgs, NEW s \in OrgStatuses, NEW n \in Bonuses,
               UpdateOrganization(x, s, n)
        PROVE  RowsStay
    BY <2>5 DEF RowsStay, UpdateOrganization
  <2> QED
    BY <2>1, <2>2, <2>3, <2>4, <2>5, RowsStayCreate, RowsStayRequest
       DEF Next, Operation
<1> QED
  BY <1>1, Invariance, PTL DEF Spec, DecisionsStand, DecisionStands

-----------------------------------------------------------------------------
(* The last administrator *)

\* A request that takes an administrator away has seen another one; that one is
\* still there unless another request, for another user, overlapped it.
Spare(p) ==
    Takes(p) =>
        \/ \E v \in Administrators(req[p].org) : v # req[p].user
        \/ req[p].org \in overlapped

KeepInv ==
    /\ IInv
    /\ OrganizationsKeepAdministrators
    /\ \A p \in Requests : Spare(p)
    /\ \A o \in Orgs : Overlapping(o) => o \in overlapped

\* assertNotLastAdministrator finds an administrator beside any user.
LEMMA AnotherAdministrator ==
    ASSUME NEW o \in Orgs, NEW u \in Users, NotLastAdministrator(o)
    PROVE  \E v \in Administrators(o) : v # u
<1> DEFINE S == Administrators(o)
<1> SUFFICES ASSUME \A v \in S : v = u PROVE FALSE
  OBVIOUS
<1>1. S = {} \/ S = {u}
  OBVIOUS
<1>2. Cardinality(S) > 1
  BY DEF NotLastAdministrator
<1> HIDE DEF S
<1>3. CASE S = {}
  BY <1>2, <1>3, FS_EmptySet
<1>4. CASE S = {u}
  <2>1. Cardinality({u}) = 1
    BY FS_Singleton
  <2> QED
    BY <1>2, <1>4, <2>1
<1> QED
  BY <1>1, <1>3, <1>4

\* While rows stay, so do administrators.
LEMMA AdministratorsStay ==
    ASSUME RowsStay, NEW o \in Orgs
    PROVE  Administrators(o) \subseteq Administrators(o)'
  BY DEF RowsStay, Administrators, Exists

\* Only requests about a role or a removal take; they name an organization.
LEMMA TakersFields ==
    ASSUME IInv, NEW p \in Requests, Takes(p)
    PROVE  req[p].org \in Orgs /\ req[p].user \in Users
  BY RequestFields DEF IInv, TablesOK, Takes, PlainRequest, RoleRequest

\* Administrators that stay keep the invariant, for requests that stay.
LEMMA StaySpare ==
    ASSUME KeepInv, NoteOverlaps, RowsStay, NEW p \in Requests, req'[p] = req[p]
    PROVE  Spare(p)'
<1> SUFFICES ASSUME Takes(p)
             PROVE  \/ \E v \in Administrators(req[p].org)' : v # req[p].user
                    \/ req[p].org \in overlapped'
  BY DEF Spare, Takes
<1>1. req[p].org \in Orgs
  BY TakersFields DEF KeepInv
<1>2. CASE req[p].org \in overlapped
  BY <1>2 DEF NoteOverlaps
<1>3. CASE req[p].org \notin overlapped
  <2>1. PICK v \in Administrators(req[p].org) : v # req[p].user
    BY <1>3 DEF KeepInv, Spare
  <2> QED
    BY <1>1, <2>1, AdministratorsStay
<1> QED
  BY <1>2, <1>3

\* What overlaps after a step has been noted by it.
LEMMA OverlapsNoted ==
    ASSUME NoteOverlaps
    PROVE  \A o \in Orgs : Overlapping(o)' => o \in overlapped'
  BY DEF NoteOverlaps

\* Rows stay, and the organizations that exist have existed or have an
\* administrator.
LEMMA StayKeeps ==
    ASSUME KeepInv, IInv', NoteOverlaps, RowsStay, UNCHANGED req,
           \A o \in Orgs : org'[o].status # "NONE" =>
              org[o].status # "NONE" \/ Administrators(o)' # {}
    PROVE  KeepInv'
<1>1. OrganizationsKeepAdministrators'
  BY AdministratorsStay DEF KeepInv, OrganizationsKeepAdministrators, NoteOverlaps
<1>2. \A p \in Requests : Spare(p)'
  BY StaySpare
<1> QED
  BY <1>1, <1>2, OverlapsNoted DEF KeepInv

LEMMA BeginKeeps ==
    ASSUME KeepInv, IInv', NoteOverlaps,
           NEW p \in Requests, NEW a \in Users, NEW u \in Users, NEW o \in Orgs,
           Begin(p, a, o, u)
    PROVE  KeepInv'
<1>1. UNCHANGED <<org, member>> /\ RowsStay
  BY RowsStayBegin DEF RowsStay
<1>2. OrganizationsKeepAdministrators'
  BY <1>1 DEF KeepInv, OrganizationsKeepAdministrators, Administrators, NoteOverlaps
<1>3. \A x \in Orgs : Administrators(x)' = Administrators(x)
  BY <1>1 DEF Administrators
<1>4. p \in DOMAIN req
  BY DEF KeepInv, IInv, TablesOK
<1>5. Spare(p)'
  <2>1. ASSUME NEW d \in {"APPROVED", "REJECTED"}, BeginReview(p, a, o, u, d)
        PROVE  Spare(p)'
    <3>1. req'[p].op = d
      BY <1>4, <2>1 DEF BeginReview, Become
    <3> QED
      BY <2>1, <3>1 DEF Spare, Takes
  <2>2. ASSUME NEW role \in {"MEMBER", "ADMIN", "OWNER"}, BeginRole(p, a, o, u, role)
        PROVE  Spare(p)'
    <3>1. /\ req'[p].op = "role" /\ req'[p].role = role
          /\ req'[p].org = o /\ req'[p].user = u
      BY <1>4, <2>2 DEF BeginRole, Become
    <3>2. role = "MEMBER" => \E v \in Administrators(o) : v # u
      BY <2>2, AnotherAdministrator DEF BeginRole
    <3> QED
      BY <1>3, <3>1, <3>2 DEF Spare, Takes
  <2>3. CASE BeginRevoke(p, a, o, u)
    <3>1. req'[p].op = "role" /\ req'[p].org = o /\ req'[p].user = u
      BY <1>4, <2>3 DEF BeginRevoke, Become
    <3>2. \E v \in Administrators(o) : v # u
      BY <2>3, AnotherAdministrator DEF BeginRevoke
    <3> QED
      BY <1>3, <3>1, <3>2 DEF Spare
  <2>4. CASE BeginRemove(p, a, o, u)
    <3>1. req'[p].op = "remove" /\ req'[p].org = o /\ req'[p].user = u
      BY <1>4, <2>4 DEF BeginRemove, Become
    <3>2. \E v \in Administrators(o) : v # u
      BY <2>4, AnotherAdministrator DEF BeginRemove, DirectAdmin
    <3> QED
      BY <1>3, <3>1, <3>2 DEF Spare
  <2>5. CASE BeginAppoint(p, a, o, u)
    <3>1. req'[p].op = "appoint"
      BY <1>4, <2>5 DEF BeginAppoint, Become
    <3> QED
      BY <3>1 DEF Spare, Takes
  <2> QED
    BY <2>1, <2>2, <2>3, <2>4, <2>5 DEF Begin
<1>6. \A x \in Requests : x # p => req'[x] = req[x]
  <2>1. \E q : Become(p, q)
    BY Zenon DEF Begin, BeginReview, BeginRole, BeginRevoke, BeginRemove, BeginAppoint
  <2>2. req \in [Requests -> Request]
    BY DEF KeepInv, IInv, TablesOK
  <2> QED
    BY <2>1, <2>2 DEF Become
<1>7. \A x \in Requests : Spare(x)'
  BY <1>1, <1>5, <1>6, StaySpare
<1> QED
  BY <1>2, <1>7, OverlapsNoted DEF KeepInv

\* A commit costs nobody administrator rights but the user it takes them from.
LEMMA CommitSpares ==
    ASSUME IInv, NEW p \in Requests, Commit(p), NEW o \in Orgs,
           NEW v \in Administrators(o),
           ~ (Takes(p) /\ o = req[p].org /\ v = req[p].user)
    PROVE  v \in Administrators(o)'
<1>1. v \in Users /\ member[o][v].role = "ADMIN" /\ member[o][v].status = "APPROVED"
  BY DEF Administrators
<1>2. CASE ~ (o = req[p].org /\ v = req[p].user)
  <2>1. member'[o][v] = member[o][v]
    BY <1>1, <1>2, CommitWrites
  <2> QED
    BY <1>1, <2>1 DEF Administrators
<1>3. CASE o = req[p].org /\ v = req[p].user
  <2>1. Written(req[p], member[o][v], member'[o][v])
    BY <1>1, <1>3, CommitMoves
  <2>2. req[p].op # "remove" /\ (req[p].op = "role" => req[p].role = "ADMIN")
    BY <1>3, RequestFields DEF IInv, TablesOK, RoleRequest, Takes
  <2>3. member'[o][v].role = "ADMIN" /\ member'[o][v].status = "APPROVED"
    BY <1>1, <2>1, <2>2 DEF Written, Reviewable
  <2> QED
    BY <1>1, <2>3 DEF Administrators
<1> QED
  BY <1>2, <1>3

LEMMA CommitKeeps ==
    ASSUME KeepInv, IInv', NoteOverlaps, NEW p \in Requests, Commit(p)
    PROVE  KeepInv'
<1>1. IInv /\ overlapped \subseteq overlapped'
  BY DEF KeepInv, NoteOverlaps
<1>2. UNCHANGED org /\ End(p)
  BY DEF Commit, CommitReview, CommitRole, CommitRemove, CommitAppoint
<1>3. req'[p] = Idle /\ \A x \in Requests : x # p => req'[x] = req[x]
  BY <1>1, <1>2 DEF IInv, TablesOK, End, Become
<1>4. ASSUME NEW x \in Requests
      PROVE  Spare(x)'
  <2>1. CASE x = p
    BY <1>3, <2>1 DEF Spare, Takes, Idle
  <2>2. CASE x # p /\ Takes(x) /\ req[x].org \notin overlapped
    <3>1. PICK o \in Orgs : o = req[x].org
      BY <1>1, <2>2, TakersFields
    <3>2. PICK v \in Administrators(o) : v # req[x].user
      BY <2>2, <3>1 DEF KeepInv, Spare
    <3>3. Takes(p) /\ req[p].org = o => req[p].user = req[x].user
      BY <2>2, <3>1 DEF KeepInv, Overlapping
    <3>4. v \in Administrators(o)'
      BY <1>1, <3>2, <3>3, CommitSpares
    <3> QED
      BY <1>3, <2>2, <3>1, <3>2, <3>4 DEF Spare, Takes
  <2>3. CASE x # p /\ (~Takes(x) \/ req[x].org \in overlapped)
    BY <1>1, <1>3, <2>3 DEF Spare, Takes
  <2> QED
    BY <2>1, <2>2, <2>3
<1>5. ASSUME NEW o \in Orgs, org'[o].status # "NONE", o \notin overlapped'
      PROVE  Administrators(o)' # {}
  <2>1. Administrators(o) # {} /\ o \notin overlapped
    BY <1>1, <1>2, <1>5 DEF KeepInv, OrganizationsKeepAdministrators
  <2>2. \E v \in Administrators(o) :
           ~ (Takes(p) /\ o = req[p].org /\ v = req[p].user)
    BY <2>1 DEF KeepInv, Spare
  <2> QED
    BY <1>1, <2>2, CommitSpares
<1> QED
  BY <1>4, <1>5, OverlapsNoted DEF KeepInv, OrganizationsKeepAdministrators

\* "Cannot remove the last administrator" (assertNotLastAdministrator): however
\* many requests of administrators are under way, an organization that exists
\* has an administrator, unless two requests that each took another user
\* overlapped; nothing else, in any order, can take the last one.
THEOREM AdministratorsRemain == Spec => []OrganizationsKeepAdministrators
<1>1. Init => KeepInv
  <2> SUFFICES ASSUME Init PROVE KeepInv
    OBVIOUS
  <2>1. ASSUME NEW o \in Orgs, org[o].status # "NONE"
        PROVE  Administrators(o) # {}
    <3>1. PICK u \in Founders[o] : TRUE
      BY <2>1 DEF Init
    <3>2. u \in Users
      OBVIOUS
    <3>3. member[o][u] = [status |-> "APPROVED", role |-> "ADMIN", gen |-> 1]
      BY <3>2 DEF Init
    <3> QED
      BY <3>2, <3>3 DEF Administrators
  <2>2. \A p \in Requests : Spare(p)
    BY DEF Init, Spare, Takes, Idle
  <2>3. \A o \in Orgs : ~Overlapping(o)
    BY DEF Init, Overlapping, Takes, Idle
  <2> QED
    BY <2>1, <2>2, <2>3, InitIInv DEF KeepInv, OrganizationsKeepAdministrators
<1>2. KeepInv /\ Next => KeepInv'
  <2> SUFFICES ASSUME KeepInv, Next PROVE KeepInv'
    OBVIOUS
  <2>1. IInv /\ IInv'
    BY NextIInv DEF KeepInv
  <2>0. Next => NoteOverlaps
    BY DEF Next
  <2>2. ASSUME NEW p \in Requests, NEW a \in Users, NEW u \in Users, NEW o \in Orgs,
               Begin(p, a, o, u)
        PROVE  KeepInv'
    BY <2>0, <2>1, <2>2, BeginKeeps
  <2>3. ASSUME NEW p \in Requests, Commit(p)
        PROVE  KeepInv'
    BY <2>0, <2>1, <2>3, CommitKeeps
  <2>4. ASSUME NEW a \in Users, NEW u \in Users, NEW o \in Orgs,
               CreateChildOrganization(a, o, u)
        PROVE  KeepInv'
    <3>1. member'[o][u].role = "ADMIN" /\ member'[o][u].status = "APPROVED"
      BY <2>1, <2>4 DEF CreateChildOrganization, IInv, TablesOK, NewRow
    <3>2. Administrators(o)' # {}
      BY <3>1 DEF Administrators
    <3>3. \A x \in Orgs : x # o => org'[x] = org[x]
      BY <2>1, <2>4 DEF CreateChildOrganization, IInv, TablesOK
    <3>4. UNCHANGED req
      BY <2>4 DEF CreateChildOrganization
    <3> QED
      BY <2>0, <2>1, <2>4, <3>2, <3>3, <3>4, RowsStayCreate, StayKeeps
  <2>5. ASSUME NEW u \in Users, NEW o \in Orgs, RequestMembership(u, o)
        PROVE  KeepInv'
    <3>1. UNCHANGED <<org, req>>
      BY <2>5 DEF RequestMembership
    <3> QED
      BY <2>0, <2>1, <2>5, <3>1, RowsStayRequest, StayKeeps
  <2>6. ASSUME NEW u \in Invited, NEW o \in Orgs, Rules(u, o)
        PROVE  KeepInv'
    <3>1. UNCHANGED <<org, member, req>>
      BY <2>6, RowsStayRules
    <3> QED
      BY <2>0, <2>1, <3>1, StayKeeps DEF RowsStay
  <2>7. ASSUME NEW o \in Orgs, NEW s \in OrgStatuses, NEW n \in Bonuses,
               UpdateOrganization(o, s, n)
        PROVE  KeepInv'
    <3>1. UNCHANGED <<member, req>> /\ org[o].status # "NONE"
      BY <2>7 DEF UpdateOrganization, Managed, IsActive
    <3>2. \A x \in Orgs : x # o => org'[x] = org[x]
      BY <2>1, <2>7 DEF UpdateOrganization, IInv, TablesOK
    <3> QED
      BY <2>0, <2>1, <3>1, <3>2, StayKeeps DEF RowsStay
  <2> QED
    BY <2>2, <2>3, <2>4, <2>5, <2>6, <2>7 DEF Next, Operation
<1>3. KeepInv /\ UNCHANGED vars => KeepInv'
  <2> SUFFICES ASSUME KeepInv, UNCHANGED vars PROVE KeepInv'
    OBVIOUS
  <2>1. UNCHANGED <<org, member, req, overlapped>>
    BY DEF vars
  <2>2. IInv'
    BY NextIInv DEF KeepInv
  <2>3. OrganizationsKeepAdministrators'
    BY <2>1 DEF KeepInv, OrganizationsKeepAdministrators, Administrators
  <2>4. \A p \in Requests : Spare(p)'
    BY <2>1 DEF KeepInv, Spare, Takes, Administrators
  <2>5. \A o \in Orgs : Overlapping(o)' => o \in overlapped'
    BY <2>1 DEF KeepInv, Overlapping, Takes
  <2> QED
    BY <2>2, <2>3, <2>4, <2>5 DEF KeepInv
<1>4. KeepInv => OrganizationsKeepAdministrators
  BY DEF KeepInv
<1> QED
  BY <1>1, <1>2, <1>3, <1>4, PTL DEF Spec
=============================================================================
