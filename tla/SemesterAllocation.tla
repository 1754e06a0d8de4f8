------------------------- MODULE SemesterAllocation -------------------------
(***************************************************************************)
(* OrganizationsService.allocateSemesterPoints (services/resource-service).*)
(*                                                                         *)
(* A request reads the approved members of the selected organizations and  *)
(* of all organizations below them, then opens a SERIALIZABLE transaction  *)
(* that looks for earlier entries of the semester and inserts one entry    *)
(* for each member. Requests are made for the university (the root).       *)
(***************************************************************************)
EXTENDS Naturals, Sequences

CONSTANTS
    Users, Orgs, Semesters, Requests,
    Ancestors,      \* [Orgs -> SUBSET Orgs]: the path from each to the root
    TargetLists,    \* bound: the values of targetOrganizationIds
    MaxAllocations  \* bound of the allocations that are made

ASSUME AllocationAssumption ==
    /\ Ancestors \in [Orgs -> SUBSET Orgs]
    /\ \A o \in Orgs : o \in Ancestors[o]
    /\ TargetLists \subseteq (SUBSET Orgs) \ {{}}
    /\ MaxAllocations \in Nat

VARIABLES
    approved,   \* approved members of each organization
    log,        \* committed allocations, in the order of their commits
    req         \* what each request has read

allocationVars == <<approved, log, req>>

\* credit gives the sourceOrganizationId of the entry of each credited user;
\* targets is not stored: it is kept to say what was asked for.
Allocation ==
    [targets : (SUBSET Orgs) \ {{}}, semester : Semesters,
     credit : UNION {[S -> Orgs] : S \in (SUBSET Users) \ {{}}}]

Idle == [pc |-> "idle"]
Request ==
    {Idle}
    \cup [pc : {"members"}, alloc : Allocation]
    \cup [pc : {"insert"}, alloc : Allocation, snapshot : Nat]

Sources(a) == {a.credit[u] : u \in DOMAIN a.credit}

Descendants(targets) == {o \in Orgs : Ancestors[o] \cap targets # {}}
Members(targets) == UNION {approved[o] : o \in Descendants(targets)}

\* uniqueMemberships: one membership of each user, whichever findMany returns
\* first; it has no ORDER BY.
UniqueMemberships(targets) ==
    {f \in [Members(targets) -> Descendants(targets)] :
        \A u \in Members(targets) : u \in approved[f[u]]}

-----------------------------------------------------------------------------
\* Without members the method returns before the transaction.
AnyRecipients(targets) == TRUE
HasRecipients(targets) == Members(targets) # {}

ReadMembers(p, targets, semester) ==
    /\ req[p] = Idle
    /\ Len(log) < MaxAllocations
    /\ HasRecipients(targets)
    /\ \E f \in UniqueMemberships(targets) :
         req' = [req EXCEPT ![p] = [pc |-> "members",
                   alloc |-> [targets |-> targets, semester |-> semester,
                              credit |-> f]]]
    /\ UNCHANGED <<approved, log>>

\* existingAllocation
Existing(a) ==
    \E i \in 1..Len(log) :
        log[i].semester = a.semester /\ Sources(log[i]) \cap a.targets # {}

\* The first query of the transaction fixes its snapshot.
CheckExisting(p) ==
    /\ req[p].pc = "members"
    /\ req' = [req EXCEPT ![p] =
                 IF Existing(req[p].alloc) THEN Idle
                 ELSE [pc |-> "insert", alloc |-> req[p].alloc,
                       snapshot |-> Len(log)]]
    /\ UNCHANGED <<approved, log>>

\* SERIALIZABLE: of two transactions that ran side by side and each wrote what
\* the other one looked for, the second is not committed.
Concurrent(p) == {log[i] : i \in req[p].snapshot + 1..Len(log)}
NoConflict(p) == FALSE
Conflict(p) ==
    \E b \in Concurrent(p) :
        LET a == req[p].alloc
        IN  /\ a.semester = b.semester
            /\ Sources(a) \cap b.targets # {}
            /\ Sources(b) \cap a.targets # {}

CommitAllocation(p) ==
    /\ req[p].pc = "insert"
    /\ ~Conflict(p)
    /\ Len(log) < MaxAllocations
    /\ log' = Append(log, req[p].alloc)
    /\ req' = [req EXCEPT ![p] = Idle]
    /\ UNCHANGED approved

\* Serialization failures are not retried here. PostgreSQL also reports some
\* for transactions that ran side by side without a conflict.
AbortAllocation(p) ==
    /\ req[p].pc = "insert"
    /\ Concurrent(p) # {}
    /\ req' = [req EXCEPT ![p] = Idle]
    /\ UNCHANGED <<approved, log>>

\* Users join and leave while requests run (see Memberships).
ChangeMembership(o, u) ==
    /\ approved' = [approved EXCEPT ![o] = IF u \in @ THEN @ \ {u} ELSE @ \cup {u}]
    /\ UNCHANGED <<log, req>>

AllocationInit ==
    /\ approved \in [Orgs -> SUBSET Users]
    /\ log = <<>>
    /\ req = [p \in Requests |-> Idle]

AllocationNext ==
    \/ \E p \in Requests :
         \/ \E t \in TargetLists, s \in Semesters : ReadMembers(p, t, s)
         \/ CheckExisting(p)
         \/ CommitAllocation(p)
         \/ AbortAllocation(p)
    \/ \E o \in Orgs, u \in Users : ChangeMembership(o, u)

AllocationSpec == AllocationInit /\ [][AllocationNext]_allocationVars

-----------------------------------------------------------------------------
(* Properties *)

\* Tables and requests keep their types: an allocation always credits someone.
AllocationTypeOK ==
    /\ approved \in [Orgs -> SUBSET Users]
    /\ log \in Seq(Allocation)
    /\ req \in [Requests -> Request]

\* However two requests of a semester interleave, each finds the entries of the
\* other or none of its entries matter to the other: they never both commit if
\* each credited members of an organization the other one selected.
AllocationsAreSerial ==
    \A i, j \in 1..Len(log) :
        i < j /\ log[i].semester = log[j].semester =>
            \/ Sources(log[i]) \cap log[j].targets = {}
            \/ Sources(log[j]) \cap log[i].targets = {}

\* Every allocation that commits credits someone, and is serial with the others.
AllocationsAreSound == AllocationTypeOK /\ AllocationsAreSerial

=============================================================================
