---------------------------- MODULE Memberships -----------------------------
(***************************************************************************)
(* Organizations and their members: MembershipsService and the part of     *)
(* OrganizationsService (services/resource-service) that creates and       *)
(* updates organizations, with the join-bonus trigger.                     *)
(*                                                                         *)
(* A service method that checks an administrator's rights, reads a         *)
(* membership or counts administrators does so outside the transaction     *)
(* that writes: it is a Begin step and, later, a Commit step.              *)
(* Organizations are those of one university, and users are active and     *)
(* verified.                                                               *)
(***************************************************************************)
EXTENDS Integers, FiniteSets

CONSTANTS
    Users, Orgs, Requests,
    None,
    Parent,         \* [Orgs -> Orgs \cup {None}]
    Ancestors,      \* [Orgs -> SUBSET Orgs]: the path from each to the root
    Founders,       \* [Orgs -> SUBSET Users]: administrators at first; an
                    \* organization without any is not created yet
    Bonuses,        \* values of joinBonusPoints
    OrgStatuses,    \* bound: the statuses an update may give an organization
    Invited,        \* bound: the users whose address or email domain
                    \* administrators make rules for
    MaxGen          \* bound of the rows made for one user and organization

ASSUME MembershipsAssumption ==
    /\ Parent \in [Orgs -> Orgs \cup {None}]
    /\ Ancestors \in [Orgs -> SUBSET Orgs]
    /\ \A o \in Orgs : o \in Ancestors[o]
    /\ Founders \in [Orgs -> SUBSET Users]
    /\ Bonuses \subseteq Nat
    /\ OrgStatuses \subseteq {"ACTIVE", "SUSPENDED"}
    /\ Invited \subseteq Users
    /\ MaxGen \in Nat \ {0}
    /\ None \notin Orgs

VARIABLES
    org,        \* table organizations: status and joinBonusPoints
    member,     \* table organization_memberships
    allowlist,  \* entry of each user in organization_email_allowlist
    domain,     \* entry of each user's domain in organization_email_domains:
                \* "auto" if it lets its users join, "manual" if it does not
    bonus,      \* number of JOIN_BONUS entries in the ledger
    req,        \* what each request has checked and not yet written
    overlapped  \* history: the organizations from which two requests were
                \* taking two different users at one time

vars == <<org, member, allowlist, domain, bonus, req, overlapped>>

\* gen tells apart the rows that one user has had, one after the other.
Row == [status : {"NONE", "PENDING", "APPROVED", "REJECTED"},
        role : {"MEMBER", "ADMIN"}, gen : 0..MaxGen]
OrgRow == [status : {"NONE", "ACTIVE", "SUSPENDED"}, joinBonus : Nat]

Idle == [op |-> "idle"]
Request ==
    {Idle}
    \cup [op : {"APPROVED", "REJECTED", "remove"}, org : Orgs, user : Users]
    \cup [op : {"role"}, org : Orgs, user : Users, gen : 0..MaxGen,
          role : {"MEMBER", "ADMIN"}]
    \cup [op : {"appoint"}, org : Orgs, user : Users, gen : 0..MaxGen]

Exists(o, u) == member[o][u].status # "NONE"
IsActive(o) == org[o].status = "ACTIVE"
Administrators(o) ==
    {u \in Users : member[o][u].role = "ADMIN" /\ member[o][u].status = "APPROVED"}

\* assertDirectOrganizationAdmin
DirectAdmin(a, o) == IsActive(o) /\ a \in Administrators(o)

\* TenantGuard and AdminGuard: an administrator of an active organization or
\* of one above it.
Managed(o) ==
    IsActive(o) /\ \E a \in Ancestors[o] : Administrators(a) # {}

\* assertNotLastAdministrator
NotLastAdministratorOffByOne(o) == Cardinality(Administrators(o)) > 0
NotLastAdministrator(o) == Cardinality(Administrators(o)) > 1

\* The path walk of requestMembership: empty unless every organization on it,
\* up to the root, is active.
ActivePath(o) ==
    IF \A a \in Ancestors[o] : IsActive(a) THEN Ancestors[o] ELSE {}

Become(p, q) == req' = [req EXCEPT ![p] = q]
End(p) == Become(p, Idle)

\* The unique index on (user, organization) keeps the trigger from paying twice.
AwardAgain(o, u) == IF IsActive(o) /\ org[o].joinBonus > 0 THEN 1 ELSE 0
Award(o, u) ==
    IF IsActive(o) /\ org[o].joinBonus > 0 /\ bonus[o][u] = 0 THEN 1 ELSE 0

\* Row (o, u) becomes r; the trigger looks at a status that becomes APPROVED.
SetMember(o, u, r) ==
    /\ member' = [member EXCEPT ![o][u] = r]
    /\ bonus' = IF r.status = "APPROVED" /\ member[o][u].status # "APPROVED"
                THEN [bonus EXCEPT ![o][u] = @ + Award(o, u)]
                ELSE bonus

NewRow(o, u, status, role) ==
    [status |-> status, role |-> role, gen |-> member[o][u].gen + 1]

-----------------------------------------------------------------------------
(* requestMembership: one transaction *)

\* The upsert, with update: {}: a row that exists keeps its status.
JoinedAgain(o, u) ==
    IF Exists(o, u) THEN [member[o][u] EXCEPT !.status = "APPROVED"]
    ELSE NewRow(o, u, "APPROVED", "MEMBER")
Joined(o, u) ==
    IF Exists(o, u) THEN member[o][u] ELSE NewRow(o, u, "APPROVED", "MEMBER")

RequestMembership(u, o) ==
    LET matched ==
          {r \in Orgs : domain[r][u] = "auto" \/ allowlist[r][u] = "unused"}
        rules == {r \in matched : o \in ActivePath(r)}
        approve == UNION {ActivePath(r) : r \in rules}
        new == {a \in approve : ~Exists(a, u)}
    IN  /\ IsActive(o)
        /\ ~Exists(o, u)
        /\ \A a \in new \cup {o} : member[a][u].gen < MaxGen
        /\ IF rules # {}
           THEN /\ member' = [a \in Orgs |-> IF a \in approve
                     THEN [member[a] EXCEPT ![u] = Joined(a, u)] ELSE member[a]]
                /\ bonus' = [a \in Orgs |-> IF a \in new
                     THEN [bonus[a] EXCEPT ![u] = @ + Award(a, u)]
                     ELSE bonus[a]]
                /\ allowlist' = [r \in Orgs |->
                     IF r \in rules /\ allowlist[r][u] = "unused"
                     THEN [allowlist[r] EXCEPT ![u] = "used"] ELSE allowlist[r]]
           ELSE /\ SetMember(o, u, NewRow(o, u, "PENDING", "MEMBER"))
                /\ UNCHANGED allowlist
        /\ UNCHANGED <<org, domain, req>>

-----------------------------------------------------------------------------
(* updateMembershipStatus *)

BeginReview(p, a, o, u, decision) ==
    /\ req[p] = Idle
    /\ DirectAdmin(a, o)
    /\ Become(p, [op |-> decision, org |-> o, user |-> u])
    /\ UNCHANGED <<org, member, allowlist, domain, bonus>>

\* Statuses in the WHERE of the UPDATE.
ReviewableAlways(decision) == {"PENDING", "APPROVED", "REJECTED"}
Reviewable(decision) ==
    IF decision = "APPROVED" THEN {"PENDING", "REJECTED"} ELSE {"PENDING"}

CommitReview(p) ==
    /\ req[p].op \in {"APPROVED", "REJECTED"}
    /\ LET o == req[p].org
           u == req[p].user
       IN  IF member[o][u].status \in Reviewable(req[p].op)
           THEN SetMember(o, u, [member[o][u] EXCEPT !.status = req[p].op])
           ELSE UNCHANGED <<member, bonus>>
    /\ End(p)
    /\ UNCHANGED <<org, allowlist, domain>>

-----------------------------------------------------------------------------
(* updateMembershipRole and revokeChildAdministrator *)

AnyRole(role) == TRUE
ValidRole(role) == role \in {"MEMBER", "ADMIN"}

BeginRole(p, a, o, u, role) ==
    /\ req[p] = Idle
    /\ DirectAdmin(a, o)
    /\ ValidRole(role)
    /\ member[o][u].status = "APPROVED"
    /\ member[o][u].role # role
    /\ role = "MEMBER" => NotLastAdministrator(o)
    /\ Become(p, [op |-> "role", org |-> o, user |-> u, role |-> role,
                  gen |-> member[o][u].gen])
    /\ UNCHANGED <<org, member, allowlist, domain, bonus>>

BeginRevoke(p, a, o, u) ==
    /\ req[p] = Idle
    /\ Parent[o] # None
    /\ DirectAdmin(a, Parent[o])
    /\ u \in Administrators(o)
    /\ NotLastAdministrator(o)
    /\ Become(p, [op |-> "role", org |-> o, user |-> u, role |-> "MEMBER",
                  gen |-> member[o][u].gen])
    /\ UNCHANGED <<org, member, allowlist, domain, bonus>>

\* updateMembershipRole updates whatever row the user has now, but its audit
\* event refers to the row that was read, and so undoes the transaction if
\* that one is gone.
AuditAcceptedIfMember(o, u, gen) == TRUE
AuditAccepted(o, u, gen) == member[o][u].gen = gen

CommitRole(p) ==
    /\ req[p].op = "role"
    /\ LET o == req[p].org
           u == req[p].user
       IN  IF Exists(o, u) /\ AuditAccepted(o, u, req[p].gen)
           THEN SetMember(o, u, [member[o][u] EXCEPT !.role = req[p].role])
           ELSE UNCHANGED <<member, bonus>>
    /\ End(p)
    /\ UNCHANGED <<org, allowlist, domain>>

-----------------------------------------------------------------------------
(* removeMembership *)

BeginRemove(p, a, o, u) ==
    /\ req[p] = Idle
    /\ DirectAdmin(a, o)
    /\ Exists(o, u)
    /\ u \in Administrators(o) => NotLastAdministrator(o)
    /\ Become(p, [op |-> "remove", org |-> o, user |-> u])
    /\ UNCHANGED <<org, member, allowlist, domain, bonus>>

\* DELETE by user and organization.
CommitRemove(p) ==
    /\ req[p].op = "remove"
    /\ LET o == req[p].org
           u == req[p].user
       IN  SetMember(o, u, [member[o][u] EXCEPT !.status = "NONE",
                                                !.role = "MEMBER"])
    /\ End(p)
    /\ UNCHANGED <<org, allowlist, domain>>

-----------------------------------------------------------------------------
(* appointChildAdministrator *)

BeginAppoint(p, a, o, u) ==
    /\ req[p] = Idle
    /\ Parent[o] # None
    /\ DirectAdmin(a, Parent[o])
    /\ IsActive(o)
    /\ member[o][u].status \in {"PENDING", "APPROVED"}
    /\ u \notin Administrators(o)
    /\ Become(p, [op |-> "appoint", org |-> o, user |-> u,
                  gen |-> member[o][u].gen])
    /\ UNCHANGED <<org, member, allowlist, domain, bonus>>

AppointableById(o, u, gen) == Exists(o, u) /\ member[o][u].gen = gen
Appointable(o, u, gen) ==
    member[o][u].gen = gen /\ member[o][u].status \in {"PENDING", "APPROVED"}

CommitAppoint(p) ==
    /\ req[p].op = "appoint"
    /\ LET o == req[p].org
           u == req[p].user
       IN  IF Appointable(o, u, req[p].gen)
           THEN SetMember(o, u, [member[o][u] EXCEPT !.status = "APPROVED",
                                                     !.role = "ADMIN"])
           ELSE UNCHANGED <<member, bonus>>
    /\ End(p)
    /\ UNCHANGED <<org, allowlist, domain>>

-----------------------------------------------------------------------------
(* OrganizationsService *)

\* The new organization starts with joinBonusPoints 0, so its administrator
\* gets no bonus.
CreateChildOrganization(a, o, u) ==
    /\ org[o].status = "NONE"
    /\ Parent[o] # None
    /\ \A c \in Ancestors[Parent[o]] : IsActive(c)
    /\ \E c \in Ancestors[Parent[o]] : a \in Administrators(c)
    /\ \E c \in Orgs : member[c][u].status = "APPROVED"
    /\ org' = [org EXCEPT ![o] = [status |-> "ACTIVE", joinBonus |-> 0]]
    /\ member' = [member EXCEPT ![o][u] = NewRow(o, u, "APPROVED", "ADMIN")]
    /\ UNCHANGED <<allowlist, domain, bonus, req>>

UpdateOrganization(o, status, points) ==
    /\ Managed(o)
    /\ org' = [org EXCEPT ![o] = [status |-> status, joinBonus |-> points]]
    /\ UNCHANGED <<member, allowlist, domain, bonus, req>>

\* The unique index counts used entries too.
AddToAllowlist(o, u) ==
    /\ Managed(o)
    /\ allowlist[o][u] = "none"
    /\ allowlist' = [allowlist EXCEPT ![o][u] = "unused"]
    /\ UNCHANGED <<org, member, domain, bonus, req>>

RemoveFromAllowlist(o, u) ==
    /\ Managed(o)
    /\ allowlist[o][u] # "none"
    /\ allowlist' = [allowlist EXCEPT ![o][u] = "none"]
    /\ UNCHANGED <<org, member, domain, bonus, req>>

\* A domain belongs to one organization, a university or one below it.
AddEmailDomain(o, u, mode) ==
    /\ Managed(o)
    /\ \A c \in Orgs : domain[c][u] = "none"
    /\ domain' = [domain EXCEPT ![o][u] = mode]
    /\ UNCHANGED <<org, member, allowlist, bonus, req>>

\* updateEmailDomain, and removeEmailDomain if mode is "none".
ChangeEmailDomain(o, u, mode) ==
    /\ Managed(o)
    /\ domain[o][u] # "none"
    /\ domain' = [domain EXCEPT ![o][u] = mode]
    /\ UNCHANGED <<org, member, allowlist, bonus, req>>

-----------------------------------------------------------------------------
Init ==
    /\ org \in [Orgs -> [status : {"NONE", "ACTIVE"}, joinBonus : Bonuses]]
    /\ \A o \in Orgs : org[o].status = "NONE" <=> Founders[o] = {}
    /\ member = [o \in Orgs |-> [u \in Users |->
         IF u \in Founders[o]
         THEN [status |-> "APPROVED", role |-> "ADMIN", gen |-> 1]
         ELSE [status |-> "NONE", role |-> "MEMBER", gen |-> 0]]]
    /\ allowlist = [o \in Orgs |-> [u \in Users |-> "none"]]
    /\ domain = [o \in Orgs |-> [u \in Users |-> "none"]]
    /\ bonus = [o \in Orgs |-> [u \in Users |-> 0]]
    /\ req = [p \in Requests |-> Idle]
    /\ overlapped = {}

Begin(p, a, o, u) ==
    \/ \E d \in {"APPROVED", "REJECTED"} : BeginReview(p, a, o, u, d)
    \/ \E role \in {"MEMBER", "ADMIN", "OWNER"} : BeginRole(p, a, o, u, role)
    \/ BeginRevoke(p, a, o, u)
    \/ BeginRemove(p, a, o, u)
    \/ BeginAppoint(p, a, o, u)

Commit(p) ==
    CommitReview(p) \/ CommitRole(p) \/ CommitRemove(p) \/ CommitAppoint(p)

Rules(u, o) ==
    \/ AddToAllowlist(o, u)
    \/ RemoveFromAllowlist(o, u)
    \/ \E mode \in {"manual", "auto"} : AddEmailDomain(o, u, mode)
    \/ \E mode \in {"none", "manual", "auto"} : ChangeEmailDomain(o, u, mode)

\* Requests under way that may take an administrator away.
Takes(p) ==
    \/ req[p].op = "remove"
    \/ req[p].op = "role" /\ req[p].role = "MEMBER"

Overlapping(o) ==
    \E p, q \in Requests :
       /\ Takes(p) /\ req[p].org = o
       /\ Takes(q) /\ req[q].org = o
       /\ req[p].user # req[q].user

NoteOverlaps == overlapped' = overlapped \cup {o \in Orgs : Overlapping(o)'}

Operation ==
    \/ \E p \in Requests, a, u \in Users, o \in Orgs : Begin(p, a, o, u)
    \/ \E p \in Requests : Commit(p)
    \/ \E a, u \in Users, o \in Orgs : CreateChildOrganization(a, o, u)
    \/ \E u \in Users, o \in Orgs : RequestMembership(u, o)
    \/ \E u \in Invited, o \in Orgs : Rules(u, o)
    \/ \E o \in Orgs, s \in OrgStatuses, n \in Bonuses : UpdateOrganization(o, s, n)

Next == Operation /\ NoteOverlaps

Spec == Init /\ [][Next]_vars

-----------------------------------------------------------------------------
(* Properties *)

TablesOK ==
    /\ org \in [Orgs -> OrgRow]
    /\ member \in [Orgs -> [Users -> Row]]
    /\ allowlist \in [Orgs -> [Users -> {"none", "unused", "used"}]]
    /\ domain \in [Orgs -> [Users -> {"none", "manual", "auto"}]]
    /\ bonus \in [Orgs -> [Users -> Nat]]
    /\ req \in [Requests -> Request]

\* Tables and requests keep their types: in particular no role but MEMBER and
\* ADMIN gets past updateMembershipRole.
TypeOK == TablesOK /\ overlapped \subseteq Orgs

\* Administrator rights never stick to a membership that is not approved, even
\* if the membership was removed and requested again while updateMembershipRole
\* was between its read and its UPDATE by user and organization.
AdminsAreApproved ==
    \A o \in Orgs, u \in Users :
        member[o][u].role = "ADMIN" => member[o][u].status = "APPROVED"

\* However often a user leaves and joins again, by review, appointment or
\* auto-join, the ledger has at most one join bonus for each organization.
JoinBonusOnce == \A o \in Orgs, u \in Users : bonus[o][u] <= 1

\* Decisions stand: while a membership row exists, an approval is not undone,
\* and a rejection gives way only to an approval that an administrator asked
\* for: not to an appointment that read the row before it was rejected.
DecisionsStand ==
    [][\A o \in Orgs, u \in Users :
         LET old == member[o][u]
             new == member'[o][u]
         IN  /\ old.status = "APPROVED" => new.status \in {"APPROVED", "NONE"}
             /\ old.status = "REJECTED" /\ new.status = "APPROVED" =>
                   \E p \in Requests : req[p] = [op |-> "APPROVED", org |-> o,
                                                 user |-> u]]_vars

\* "Cannot remove the last administrator": however the requests of its
\* administrators, those of its parent and those of its members interleave, an
\* organization that exists keeps an administrator, unless two requests that
\* each take a different user overlapped: nothing but the count read before the
\* transaction (assertNotLastAdministrator) keeps the last one.
OrganizationsKeepAdministrators ==
    \A o \in Orgs :
       org[o].status # "NONE" => Administrators(o) # {} \/ o \in overlapped

\* What reviews, appointments, removals and requests that race leave of a
\* membership: roles of approved members only, and one bonus.
MembershipsAreSound == TypeOK /\ AdminsAreApproved /\ JoinBonusOnce

=============================================================================
