------------------------- MODULE OrganizationPages --------------------------
(***************************************************************************)
(* The pages of the web application that change memberships, the rules of  *)
(* an organization and the points of its members: the list of members with *)
(* its decisions and child administrators, the card that asks for a        *)
(* membership, the rules of the administration panel, the user's own list  *)
(* of memberships, and the dialog that allocates the points of a semester. *)
(*                                                                         *)
(* A page shows one or two lists, its Parts, which are loaded with one     *)
(* request each; one row of a list is enough to tell an old list from a    *)
(* new one, so a list is the value of that row.                            *)
(***************************************************************************)
EXTENDS Naturals, FiniteSets

CONSTANTS
    TreeOrgs,       \* organizations of a university, 1 is its root
    TreeParent,     \* [TreeOrgs -> parent, or 0]
    Desk,           \* slots for the requests that are under way
    MaxOrgSteps,    \* bound: [page -> what users do]
    MaxOrgFaults    \* bound: requests that fail or whose answer is lost

\* The lists of each page.
PartsOf == [members |-> {"members", "heads"}, rules |-> {"domains", "allowlist"},
            request |-> {"members"}, mine |-> {"members"}, allocate |-> {}]

ASSUME OrganizationPagesAssumption ==
    /\ TreeOrgs \subseteq Nat \ {0} /\ IsFiniteSet(TreeOrgs) /\ 1 \in TreeOrgs
    /\ TreeParent \in [TreeOrgs -> TreeOrgs \cup {0}]
    /\ \A o \in TreeOrgs : TreeParent[o] < o /\ (TreeParent[o] = 0 <=> o = 1)
    /\ Desk \subseteq Nat /\ IsFiniteSet(Desk)
    /\ MaxOrgSteps \in [DOMAIN PartsOf -> Nat] /\ MaxOrgFaults \in Nat

VARIABLES
    panel,      \* the page on the screen
    db,         \* the lists in the database
    shown,      \* the lists on the page
    listState,  \* "loading", "loaded", "error" or "gone"
    loads,      \* the loads of the page: the effect's, and reloadRules
    desk,       \* the changes under way
    strangers,  \* history: parts that changed unknown to the page since it loaded them
    card,       \* the state of the request card
    rowsMade,   \* membership rows that the applicant has
    box,        \* the allocation dialog
    tree,       \* the organizations that exist
    orgSteps, orgFaults

boxVars == <<box, tree>>
orgVars == <<panel, db, shown, listState, loads, desk, strangers, card, rowsMade, boxVars,
             orgSteps, orgFaults>>

Parts == {"members", "heads", "domains", "allowlist"}
Values == [members |-> {"NONE", "PENDING", "APPROVED", "REJECTED"},
           heads |-> {"NONE", "ADMIN"}, domains |-> {"NONE", "PLAIN", "AUTO"},
           allowlist |-> {"NONE", "LISTED", "USED"}]
Unread == "unread"
NoLoad == [stage |-> "none", got |-> [p \in Parts |-> Unread], since |-> {}]
NewLoad == [NoLoad EXCEPT !.stage = "sent"]
NoCall == [op |-> "none", part |-> "none", stage |-> "none", mounted |-> FALSE,
           lost |-> FALSE, row |-> "none"]
IsFree(c) == desk[c] = NoCall /\ \A d \in Desk : d < c => desk[d] # NoCall
OrgStep == orgSteps < MaxOrgSteps[panel] /\ orgSteps' = orgSteps + 1
OrgFault == orgFaults < MaxOrgFaults /\ orgFaults' = orgFaults + 1

-----------------------------------------------------------------------------
(* What the resource service does                                          *)

Op(part, button, allowed, gives) ==
    [part |-> part, button |-> button, allowed |-> allowed, gives |-> gives]

\* The part that an operation changes, the rows it is offered for, the rows it
\* accepts and the row it leaves.
approveMembership == Op("members", {"PENDING", "REJECTED"}, {"PENDING", "REJECTED"}, "APPROVED")
rejectMembership == Op("members", {"PENDING"}, {"PENDING"}, "REJECTED")
appointChildAdministrator == Op("heads", Values.heads, Values.heads, "ADMIN")
revokeChildAdministrator == Op("heads", {"ADMIN"}, {"ADMIN"}, "NONE")
addEmailDomain(auto) ==
    Op("domains", Values.domains, {"NONE"}, IF auto THEN "AUTO" ELSE "PLAIN")
updateEmailDomain(auto) ==
    Op("domains", IF auto THEN {"PLAIN"} ELSE {"AUTO"}, {"PLAIN", "AUTO"},
       IF auto THEN "AUTO" ELSE "PLAIN")
removeEmailDomain == Op("domains", {"PLAIN", "AUTO"}, {"PLAIN", "AUTO"}, "NONE")
addToAllowlist == Op("allowlist", Values.allowlist, {"NONE"}, "LISTED")
removeFromAllowlist == Op("allowlist", {"LISTED", "USED"}, {"LISTED", "USED"}, "NONE")

Ops == [approve |-> approveMembership, reject |-> rejectMembership,
        appoint |-> appointChildAdministrator, revoke |-> revokeChildAdministrator,
        addDomain |-> addEmailDomain(FALSE), addAuto |-> addEmailDomain(TRUE),
        setAuto |-> updateEmailDomain(TRUE), clearAuto |-> updateEmailDomain(FALSE),
        removeDomain |-> removeEmailDomain, addEmail |-> addToAllowlist,
        removeEmail |-> removeFromAllowlist]
DialogOf(op) == IF op \in {"approve", "reject"} THEN "decision" ELSE op

\* Changes that the page does not make: the applicant's request, a member who
\* is removed, and an address on the allowlist that is used.
removeMembership == Op("members", {}, {"PENDING", "APPROVED", "REJECTED"}, "NONE")
OtherOps == {Op("members", {}, {"NONE"}, "PENDING"), removeMembership,
             Op("allowlist", {}, {"LISTED"}, "USED")}
            \cup {Ops[op] : op \in DOMAIN Ops}

\* The loads that have read a part already do not see its change.
Missed(part) ==
    [l \in DOMAIN loads |-> IF loads[l].got[part] = Unread THEN loads[l]
                            ELSE [loads[l] EXCEPT !.since = @ \cup {part}]]
ChangeUnseen(part) ==
    /\ strangers' = strangers \cup {part}
    /\ loads' = Missed(part)

Settle(c, stage) ==
    desk' = [desk EXCEPT ![c] = IF desk[c].lost THEN NoCall ELSE [@ EXCEPT !.stage = stage]]

\* The change is committed.  The effect of the administration panel is not
\* cancelled by reloadRules, so its answer may be older than the change.
updateMembershipStatus(c) ==
    LET call == desk[c] IN
    /\ call.stage = "sent" /\ call.op \in DOMAIN Ops
    /\ db[call.part] \in Ops[call.op].allowed
    /\ db' = [db EXCEPT ![call.part] = Ops[call.op].gives]
    /\ Settle(c, "done")
    /\ IF call.lost THEN ChangeUnseen(call.part)
       ELSE /\ loads' = IF panel = "rules" THEN Missed(call.part) ELSE loads
            /\ UNCHANGED strangers
    /\ UNCHANGED <<panel, shown, listState, card, rowsMade, boxVars, orgSteps, orgFaults>>

\* The row is not in a state that the operation accepts; a child administrator
\* may also be the last one, or not be eligible.
refuseChangeOfRow(c) ==
    LET call == desk[c] IN
    /\ call.stage = "sent" /\ call.op \in DOMAIN Ops
    /\ db[call.part] \notin Ops[call.op].allowed \/ call.part = "heads"
    /\ Settle(c, "conflict")
    /\ UNCHANGED <<panel, db, shown, listState, loads, strangers, card, rowsMade, boxVars,
                   orgSteps, orgFaults>>

otherChange(op) ==
    /\ OrgStep /\ op.part \in PartsOf[panel]
    /\ db[op.part] \in op.allowed
    /\ db[op.part] = "NONE" /\ op.part = "members" => panel # "request"
    /\ db' = [db EXCEPT ![op.part] = op.gives]
    /\ rowsMade' = CASE op.part = "members" /\ op.gives = "NONE" -> 0
                     [] op.part = "members" /\ db["members"] = "NONE" -> 1
                     [] OTHER -> rowsMade
    /\ ChangeUnseen(op.part)
    /\ UNCHANGED <<panel, shown, listState, desk, card, boxVars, orgFaults>>

-----------------------------------------------------------------------------
(* The loads of a page                                                     *)

getPart(l, part) ==
    /\ loads[l].stage = "sent" /\ part \in PartsOf[panel]
    /\ loads[l].got[part] = Unread
    /\ loads' = [loads EXCEPT ![l].got[part] = db[part]]
    /\ UNCHANGED <<panel, db, shown, listState, desk, strangers, card, rowsMade, boxVars,
                   orgSteps, orgFaults>>

Show(l) ==
    /\ loads[l].stage = "sent"
    /\ \A p \in PartsOf[panel] : loads[l].got[p] # Unread
    /\ shown' = [p \in Parts |-> IF p \in PartsOf[panel] THEN loads[l].got[p] ELSE "NONE"]
    /\ strangers' = loads[l].since
    /\ loads' = [loads EXCEPT ![l] = NoLoad]

applyLists ==
    /\ Show("first") /\ listState' = "loaded"
    /\ UNCHANGED <<panel, db, desk, card, rowsMade, boxVars, orgSteps, orgFaults>>

failLists(status) ==
    /\ OrgFault /\ loads["first"].stage = "sent"
    /\ loads' = [loads EXCEPT !["first"] = NoLoad]
    /\ listState' = IF panel = "rules" THEN listState ELSE status
    /\ status = "gone" => panel = "members"
    /\ UNCHANGED <<panel, db, shown, desk, strangers, card, rowsMade, boxVars, orgSteps>>

\* retryRequest: the page shows its skeleton, its dialogs are gone, and the
\* effect aborts the load that is under way.
retryRequest ==
    /\ listState' = "loading"
    /\ loads' = [loads EXCEPT !["first"] = NewLoad]

retryLists ==
    /\ OrgStep /\ listState = "error"
    /\ retryRequest
    /\ UNCHANGED <<panel, db, shown, desk, strangers, card, rowsMade, boxVars, orgFaults>>

-----------------------------------------------------------------------------
(* The members page and the administration panel                           *)

\* One request per dialog, and one for the whole administration panel.
Disabled(op) ==
    \E c \in Desk : /\ desk[c].mounted /\ ~desk[c].lost
                    /\ panel = "rules" \/ DialogOf(desk[c].op) = DialogOf(op)

submitChange(c, op) ==
    /\ OrgStep /\ Ops[op].part \in PartsOf[panel] /\ panel \in {"members", "rules"}
    /\ listState = "loaded" /\ shown[Ops[op].part] \in Ops[op].button
    /\ ~Disabled(op) /\ IsFree(c)
    /\ desk' = [desk EXCEPT ![c] = [NoCall EXCEPT !.op = op, !.part = Ops[op].part,
                                                  !.stage = "sent", !.mounted = TRUE]]
    /\ UNCHANGED <<panel, db, shown, listState, loads, strangers, card, rowsMade, boxVars,
                   orgFaults>>

CloseDialogOnly(c) ==
    /\ desk' = [desk EXCEPT ![c] = NoCall]
    /\ UNCHANGED <<listState, loads>>
onChanged(c) ==
    /\ retryRequest
    /\ desk' = [d \in Desk |-> IF d = c THEN NoCall ELSE [desk[d] EXCEPT !.mounted = FALSE]]

\* A decision that was refused with 409 reloads the list as one that was made.
answerDecision(c) ==
    /\ panel = "members"
    /\ \/ desk[c].stage = "done"
       \/ desk[c].stage = "conflict" /\ desk[c].part = "members"
    /\ onChanged(c)
    /\ UNCHANGED <<panel, db, shown, strangers, card, rowsMade, boxVars, orgSteps, orgFaults>>

showRefusal(c) ==
    /\ desk[c].stage = "conflict"
    /\ panel = "rules" \/ desk[c].part = "heads"
    /\ desk' = [desk EXCEPT ![c] = NoCall]
    /\ UNCHANGED <<panel, db, shown, listState, loads, strangers, card, rowsMade, boxVars,
                   orgSteps, orgFaults>>

\* perform: the change is followed by a load of both lists.
SkipReload(c) == desk' = [desk EXCEPT ![c] = NoCall] /\ UNCHANGED loads
reloadRules(c) ==
    /\ desk' = [desk EXCEPT ![c].stage = "reloading"]
    /\ loads' = [loads EXCEPT !["reload"] = NewLoad]

perform(c) ==
    /\ panel = "rules" /\ desk[c].stage = "done"
    /\ reloadRules(c)
    /\ UNCHANGED <<panel, db, shown, listState, strangers, card, rowsMade, boxVars,
                   orgSteps, orgFaults>>

applyReload(c) ==
    /\ desk[c].stage = "reloading" /\ Show("reload")
    /\ desk' = [desk EXCEPT ![c] = NoCall]
    /\ UNCHANGED <<panel, db, listState, card, rowsMade, boxVars, orgSteps, orgFaults>>

\* The panel shows an error although the change is stored.
failReload(c) ==
    /\ OrgFault /\ desk[c].stage = "reloading"
    /\ desk' = [desk EXCEPT ![c] = NoCall]
    /\ strangers' = strangers \cup {desk[c].part}
    /\ loads' = [loads EXCEPT !["reload"] = NoLoad]
    /\ UNCHANGED <<panel, db, shown, listState, card, rowsMade, boxVars, orgSteps>>

\* The page gets an error; the service may still work on the request.
loseAnswer(c) ==
    LET call == desk[c] IN
    /\ OrgFault /\ call.stage \in {"sent", "looked", "done", "conflict", "failed"} /\ ~call.lost
    /\ desk' = [desk EXCEPT ![c] = IF call.stage \in {"sent", "looked"}
                                   THEN [@ EXCEPT !.lost = TRUE, !.mounted = FALSE] ELSE NoCall]
    /\ IF call.stage = "done" THEN ChangeUnseen(call.part) ELSE UNCHANGED <<strangers, loads>>
    /\ card' = IF call.op = "request" THEN "error" ELSE card
    /\ UNCHANGED <<panel, db, shown, listState, rowsMade, boxVars, orgSteps>>

-----------------------------------------------------------------------------
(* The request card                                                        *)

\* getRequestError: an answer of 409 is final, any other failure offers a retry.
submitRequest(c) ==
    /\ OrgStep /\ panel = "request" /\ listState = "loaded" /\ shown["members"] = "NONE"
    /\ card \in {"idle", "error"} /\ IsFree(c)
    /\ card' = "submitting"
    /\ desk' = [desk EXCEPT ![c] = [NoCall EXCEPT !.op = "request", !.part = "members",
                                                  !.stage = "sent", !.mounted = TRUE]]
    /\ UNCHANGED <<panel, db, shown, listState, loads, strangers, rowsMade, boxVars,
                   orgFaults>>

\* requestMembership looks for a row first ...
findExisting(c) ==
    /\ desk[c].op = "request" /\ desk[c].stage = "sent"
    /\ IF db["members"] = "NONE" THEN desk' = [desk EXCEPT ![c].stage = "looked"]
       ELSE Settle(c, "conflict")
    /\ UNCHANGED <<panel, db, shown, listState, loads, strangers, card, rowsMade, boxVars,
                   orgSteps, orgFaults>>

\* ... and inserts one if there was none; the index on (userId, organizationId)
\* refuses a second, which the service answers with 500.
AnyRow == TRUE
UniqueRow == db["members"] = "NONE"

requestMembership(c, status) ==
    /\ desk[c].op = "request" /\ desk[c].stage = "looked"
    /\ IF UniqueRow
       THEN /\ db' = [db EXCEPT !["members"] = status]
            /\ rowsMade' = rowsMade + 1
            /\ desk' = [desk EXCEPT ![c] = IF desk[c].lost THEN NoCall
                                           ELSE [@ EXCEPT !.stage = "done", !.row = status]]
            /\ IF desk[c].lost THEN ChangeUnseen("members") ELSE UNCHANGED <<strangers, loads>>
       ELSE Settle(c, "failed") /\ UNCHANGED <<db, rowsMade, strangers, loads>>
    /\ UNCHANGED <<panel, shown, listState, card, boxVars, orgSteps, orgFaults>>

\* onMembershipCreated puts the row of the answer on the page.
answerRequest(c) ==
    /\ desk[c].op = "request" /\ desk[c].stage \in {"done", "conflict", "failed"}
    /\ card' = CASE desk[c].stage = "done" -> "success"
                 [] desk[c].stage = "conflict" -> "exists"
                 [] OTHER -> "error"
    /\ shown' = IF desk[c].stage = "done" THEN [shown EXCEPT !["members"] = desk[c].row]
                ELSE shown
    /\ desk' = [desk EXCEPT ![c] = NoCall]
    /\ UNCHANGED <<panel, db, listState, loads, strangers, rowsMade, boxVars, orgSteps,
                   orgFaults>>

-----------------------------------------------------------------------------
(* The allocation dialog                                                   *)

ROOT == 1

\* The ancestors of an organization as far as the loaded list knows them.
Above(known) ==
    LET above[o \in TreeOrgs] ==
          IF o \notin known THEN {}
          ELSE {TreeParent[o]} \cup (IF TreeParent[o] \in TreeOrgs THEN above[TreeParent[o]]
                                     ELSE {})
    IN above

isDescendantOf(child, parent) == parent \in Above(box.listed)[child]

ParentCovers(o) == ROOT \in box.targets \/ TreeParent[o] \in box.targets
isCoveredByAncestor(o) ==
    ROOT \in box.targets \/ Above(box.listed \cup {o})[o] \cap box.targets # {}

Checked == {o \in box.listed : isCoveredByAncestor(o) \/ o \in box.targets}

\* Opening loads the organizations unless there are some already.
setOpen(open) ==
    /\ OrgStep /\ panel = "allocate" /\ box.open # open
    /\ box' = [box EXCEPT !.open = open,
                     !.loads = IF open /\ box.listed = {} THEN @ \cup {tree \ {ROOT}} ELSE @,
                     !.loading = @ \/ (open /\ box.listed = {})]
    /\ UNCHANGED <<panel, db, shown, listState, loads, desk, strangers, card, rowsMade, tree,
                   orgFaults>>

getRootOrganizationDescendants(orgs, ok) ==
    /\ orgs \in box.loads
    /\ IF ok THEN UNCHANGED orgFaults ELSE OrgFault
    /\ box' = [box EXCEPT !.loads = @ \ {orgs}, !.loading = FALSE,
                                !.listed = IF ok THEN orgs ELSE @]
    /\ UNCHANGED <<panel, db, shown, listState, loads, desk, strangers, card, rowsMade, tree,
                   orgSteps>>

Tick(targets) ==
    /\ OrgStep /\ box.open /\ ~box.loading
    /\ box' = [box EXCEPT !.targets = targets]
    /\ UNCHANGED <<panel, db, shown, listState, loads, desk, strangers, card, rowsMade, tree,
                   orgFaults>>

checkRoot ==
    Tick(IF ROOT \in box.targets THEN box.targets \ {ROOT} ELSE {ROOT})

checkOrganization(o) ==
    /\ o \in box.listed /\ ~isCoveredByAncestor(o)
    /\ Tick(IF o \in box.targets THEN box.targets \ {o}
              ELSE {t \in box.targets : ~isDescendantOf(t, o)} \cup {o})

handleAllocate ==
    /\ OrgStep /\ box.open /\ ~box.loading
    /\ box.targets # {} /\ box.sent = {}
    /\ box' = [box EXCEPT !.sent = box.targets, !.checked = Checked,
                                !.offered = box.listed]
    /\ UNCHANGED <<panel, db, shown, listState, loads, desk, strangers, card, rowsMade, tree,
                   orgFaults>>

\* allocateSemesterPoints: the targets and everything below them.
Allocated(targets) ==
    {o \in tree : o \in targets \/ Above(TreeOrgs)[o] \cap targets # {}}

allocateSemesterPoints(ok) ==
    /\ box.sent # {}
    /\ IF ok THEN UNCHANGED orgFaults ELSE OrgFault
    /\ box' = [box EXCEPT !.sent = {}, !.checked = {}, !.offered = {}, !.open = @ /\ ~ok]
    /\ UNCHANGED <<panel, db, shown, listState, loads, desk, strangers, card, rowsMade, tree,
                   orgSteps>>

\* Another administrator creates a child organization.
createOrganization(o) ==
    /\ OrgStep /\ panel = "allocate" /\ o \notin tree /\ TreeParent[o] \in tree
    /\ tree' = tree \cup {o}
    /\ UNCHANGED <<panel, db, shown, listState, loads, desk, strangers, card, rowsMade, box,
                   orgFaults>>

-----------------------------------------------------------------------------

NewDialogBox == [open |-> FALSE, loads |-> {}, loading |-> FALSE, listed |-> {},
                 targets |-> {ROOT}, sent |-> {}, checked |-> {}, offered |-> {}]

OrgInit ==
    /\ panel \in DOMAIN PartsOf
    /\ LET Rows(p) == IF p \in PartsOf[panel] THEN Values[p] ELSE {"NONE"}
       IN  db \in [members : Rows("members"), heads : Rows("heads"),
                   domains : Rows("domains"), allowlist : Rows("allowlist")]
    /\ shown = [p \in Parts |-> "NONE"]
    /\ listState = IF panel \in {"rules", "allocate"} THEN "loaded" ELSE "loading"
    /\ loads = [first |-> IF panel = "allocate" THEN NoLoad ELSE NewLoad, reload |-> NoLoad]
    /\ desk = [c \in Desk |-> NoCall]
    /\ strangers = Parts
    /\ card = "idle"
    /\ rowsMade = IF db["members"] = "NONE" THEN 0 ELSE 1
    /\ box = NewDialogBox
    /\ tree \in {t \in SUBSET TreeOrgs : 1 \in t /\ \A o \in t \ {1} : TreeParent[o] \in t}
    /\ panel # "allocate" => tree = {1}
    /\ orgSteps = 0 /\ orgFaults = 0

OrgNext ==
    \/ \E op \in OtherOps : otherChange(op)
    \/ \E l \in {"first", "reload"}, p \in Parts : getPart(l, p)
    \/ applyLists \/ retryLists
    \/ \E s \in {"error", "gone"} : failLists(s)
    \/ \E c \in Desk :
         \/ \E op \in DOMAIN Ops : submitChange(c, op)
         \/ updateMembershipStatus(c) \/ refuseChangeOfRow(c) \/ answerDecision(c)
         \/ showRefusal(c) \/ perform(c) \/ applyReload(c) \/ failReload(c) \/ loseAnswer(c)
         \/ submitRequest(c) \/ findExisting(c) \/ answerRequest(c)
         \/ \E s \in {"PENDING", "APPROVED"} : requestMembership(c, s)
    \/ \E open \in BOOLEAN : setOpen(open)
    \/ \E orgs \in SUBSET TreeOrgs, ok \in BOOLEAN : getRootOrganizationDescendants(orgs, ok)
    \/ checkRoot \/ handleAllocate
    \/ \E o \in TreeOrgs : checkOrganization(o) \/ createOrganization(o)
    \/ \E ok \in BOOLEAN : allocateSemesterPoints(ok)

OrgSpec == OrgInit /\ [][OrgNext]_orgVars

-----------------------------------------------------------------------------
(* Properties                                                              *)

\* An administrator's decision is on the page once the page was told of it: a
\* list that is on the screen differs from the database only in what someone
\* else changed after the list was read, in a change whose answer was lost or
\* is still to come, and, in the administration panel only, after the answer
\* of its first load came later than the reload of a change (onChanged of the
\* members page and perform of the administration panel).
OwnDecisionsAreShown ==
    listState = "loaded" =>
      \A p \in PartsOf[panel] :
        \/ shown[p] = db[p] \/ p \in strangers
        \/ \E c \in Desk : desk[c].part = p /\ desk[c].stage \in {"done", "reloading"}

\* However often the card is retried after a lost answer, with the lost
\* request still running and with administrators removing the membership, a
\* user has one membership of an organization (requestMembership and its
\* index); and the card says that there is one only if there is one, unless
\* it was removed since.
OneRowPerApplicant ==
    /\ rowsMade <= 1
    /\ card \in {"success", "exists"} => rowsMade = 1 \/ "members" \in strangers

\* The points go to the organizations that the dialog shows with a tick, and
\* to no other organization of its list, for every order of ticking the
\* boxes, with a list that was loaded before an organization was created
\* (isCoveredByAncestor and isDescendantOf against the closure that
\* allocateSemesterPoints computes).
TicksAreAllocated == Allocated(box.sent) \cap box.offered = box.checked

\* The pages show what they were told, and make one row of a request.
MembershipPagesAreTruthful == OwnDecisionsAreShown /\ OneRowPerApplicant

=============================================================================
