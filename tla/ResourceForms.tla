--------------------------- MODULE ResourceForms ----------------------------
(***************************************************************************)
(* The forms of the web application that change a resource, and what the   *)
(* resource service keeps of it in its cache: the edit form, which sends   *)
(* back every field that it loaded; the creation form, which creates the   *)
(* resource and its image with two requests; the reviews of a resource;    *)
(* and the dialog that publishes a slot.                                   *)
(*                                                                         *)
(* One of the four is on the screen.  A form has one request under way at  *)
(* a time, job, because its buttons are disabled until the answer comes;   *)
(* its fields are not, and the request keeps the values it was sent with.  *)
(***************************************************************************)
EXTENDS Naturals, FiniteSets

CONSTANTS
    FormOrgs,       \* organizations, 1 is the root and the others are below it
    ParentOf,       \* [FormOrgs -> parent, or 0]
    FormNotices,    \* cancellation notices in minutes
    HourLength,     \* ticks of the clock in an hour
    MaxClock,       \* bound
    MaxFormSteps,   \* bound: [Screens -> what users do]
    MaxFormFaults   \* bound: requests that fail or whose answer is lost

Screens == {"edit", "create", "reviews", "slots"}

ASSUME ResourceFormsAssumption ==
    /\ FormOrgs \subseteq Nat \ {0} /\ IsFiniteSet(FormOrgs) /\ 1 \in FormOrgs
    /\ ParentOf \in [FormOrgs -> FormOrgs \cup {0}]
    /\ \A o \in FormOrgs : ParentOf[o] < o
    /\ FormNotices \subseteq Nat /\ HourLength \in Nat \ {0}
    /\ MaxFormSteps \in [Screens -> Nat] /\ {MaxClock, MaxFormFaults} \subseteq Nat

VARIABLES
    screen,     \* one of Screens
    resource,   \* the resource of the edit form and of the slots, in the database
    stored,     \* its details in the cache, or NoDetails
    storing,    \* details that a miss has read and will store, or NoDetails
    blame,      \* history: why the stored details may be old
    others,     \* whether another administrator's change is not evicted yet
    adminOf,    \* the organizations that the user administers
    form,       \* the state of the form on the screen
    job,        \* the request under way
    made,       \* rows made with this form: resources, or the user's rating
    slots,      \* published slots: numbered ranges
    clock,
    formSteps, formFaults

resourceRows == <<resource, stored, storing, blame, others>>
formVars == <<screen, resourceRows, adminOf, form, job, made, slots, clock,
              formSteps, formFaults>>
elsewhere == <<adminOf, made, slots, clock>>

FormOwner == 1
NoDetails == [text |-> "none"]
NoJob == [kind |-> "none", stage |-> "none"]
FormStep == formSteps < MaxFormSteps[screen] /\ formSteps' = formSteps + 1
FormFault == formFaults < MaxFormFaults /\ formFaults' = formFaults + 1

Send(kind, data) == job' = [kind |-> kind, stage |-> "sent", data |-> data]
On(kind, stage) == job.kind = kind /\ job.stage = stage

-----------------------------------------------------------------------------
(* The cache of the resource service                                       *)

\* findOne behind its CacheInterceptor: a miss stores what it read, later.
findOne ==
    /\ On("load", "sent") /\ storing = NoDetails
    /\ job' = [job EXCEPT !.stage = "read",
                          !.data = IF stored # NoDetails THEN stored ELSE resource]
    /\ storing' = IF stored # NoDetails THEN NoDetails ELSE resource
    /\ UNCHANGED <<screen, resource, stored, blame, others, form, elsewhere, formSteps,
                   formFaults>>

storeDetails ==
    /\ storing # NoDetails
    /\ stored' = storing /\ storing' = NoDetails
    /\ blame' = IF storing # resource THEN {"race"} ELSE {}
    /\ UNCHANGED <<screen, resource, others, form, job, elsewhere, formSteps, formFaults>>

\* cacheManager.clear, after every change that goes through the controller.
KeepDetails == UNCHANGED <<stored, blame>>
clearDetails == stored' = NoDetails /\ blame' = {}

\* The time to live of the cache is over.
expireDetails ==
    /\ stored # NoDetails
    /\ clearDetails
    /\ UNCHANGED <<screen, resource, storing, others, form, job, elsewhere, formSteps,
                   formFaults>>

otherUpdate(field, value) ==
    /\ others = "idle" /\ FormStep /\ screen = "edit"
    /\ resource' = [resource EXCEPT ![field] = value]
    /\ others' = "committed"
    /\ UNCHANGED <<screen, stored, storing, blame, form, job, elsewhere, formFaults>>

otherClear ==
    /\ others = "committed"
    /\ clearDetails /\ others' = "idle"
    /\ UNCHANGED <<screen, resource, storing, form, job, elsewhere, formSteps, formFaults>>

\* applyResourceAction of a dispute changes the row from the booking service,
\* which cannot reach the cache of the resource service.
markUnavailable(value) ==
    /\ FormStep /\ screen \in {"edit", "slots"} /\ resource.status # value
    /\ resource' = [resource EXCEPT !.status = value]
    /\ blame' = IF stored # NoDetails THEN blame \cup {"mark"} ELSE blame
    /\ UNCHANGED <<screen, stored, storing, others, form, job, elsewhere, formFaults>>

-----------------------------------------------------------------------------
(* The edit form                                                           *)

\* TenantGuard climbs to the root until it finds an administrator.
canActivate(admins, o) ==
    LET Climb[p \in FormOrgs \cup {0}] ==
            p # 0 /\ (p \in admins \/ Climb[ParentOf[p]])
    IN  Climb[o]

WEEK == 60 * 24 * 7
DAY == 60 * 24
ForgetDays(total) ==
    [weeks |-> total \div WEEK, days |-> 0,
     hours |-> (total % DAY) \div 60, minutes |-> total % 60]
splitNotice(total) ==
    LET weeks == total \div WEEK
        withoutWeeks == total - weeks * WEEK
        days == withoutWeeks \div DAY
        withoutDays == withoutWeeks - days * DAY
        hours == withoutDays \div 60
    IN  [weeks |-> weeks, days |-> days, hours |-> hours,
         minutes |-> withoutDays - hours * 60]
totalCancellationNoticeMinutes(p) ==
    p.minutes + p.hours * 60 + p.days * DAY + p.weeks * WEEK

\* loadData: the fields of the form are those of the details that came.
applyDetails ==
    /\ On("load", "read")
    /\ LET d == job.data
       IN  form' = [status |-> "loaded", submitting |-> FALSE, error |-> FALSE,
                    done |-> FALSE, text |-> d.text, notice |-> splitNotice(d.notice),
                    allowed |-> d.allowed, image |-> FALSE, refused |-> 0, base |-> d,
                    touched |-> FALSE]
    /\ job' = NoJob
    /\ UNCHANGED <<screen, resourceRows, elsewhere, formSteps, formFaults>>

denyEdit ==
    /\ On("load", "sent") /\ FormOwner \notin adminOf
    /\ form' = [form EXCEPT !.status = "denied"] /\ job' = NoJob
    /\ UNCHANGED <<screen, resourceRows, elsewhere, formSteps, formFaults>>

FirstJob(s) == CASE s = "edit" -> "load" [] s = "create" -> "access"
                 [] s = "reviews" -> "reviews"

\* The loads of the forms fail and are asked again.
failFormLoad ==
    /\ job.kind \in {"load", "access", "reviews"} /\ FormFault
    /\ form' = [form EXCEPT !.status = "error"] /\ job' = NoJob
    /\ UNCHANGED <<screen, resourceRows, elsewhere, formSteps>>

retryFormLoad ==
    /\ form.status = "error" /\ FormStep
    /\ form' = [form EXCEPT !.status = "loading"]
    /\ Send(FirstJob(screen), NoDetails)
    /\ UNCHANGED <<screen, resourceRows, elsewhere, formFaults>>

Editable == form.status = "loaded" /\ ~form.done

changeField(field, value) ==
    /\ screen = "edit" /\ Editable /\ FormStep
    /\ form' = [form EXCEPT ![field] = value, !.touched = TRUE]
    /\ UNCHANGED <<screen, resourceRows, job, elsewhere, formFaults>>

changeAllowedOrganization(o) ==
    /\ o # (IF screen = "edit" THEN FormOwner ELSE form.owner)
    /\ form' = IF screen = "edit"
               THEN [form EXCEPT !.allowed = IF o \in @ THEN @ \ {o} ELSE @ \cup {o},
                                 !.touched = TRUE]
               ELSE [form EXCEPT !.allowed = IF o \in @ THEN @ \ {o} ELSE @ \cup {o}]

toggleOrganization(o) ==
    /\ screen \in {"edit", "create"} /\ Editable /\ ~form.submitting /\ FormStep
    /\ changeAllowedOrganization(o)
    /\ UNCHANGED <<screen, resourceRows, job, elsewhere, formFaults>>

Submitted == [form EXCEPT !.submitting = TRUE, !.error = FALSE]

submitUpdate ==
    /\ screen = "edit" /\ Editable /\ ~form.submitting /\ FormStep
    /\ form' = Submitted
    /\ Send("save", [owner |-> FormOwner, text |-> form.text, allowed |-> form.allowed,
                     notice |-> totalCancellationNoticeMinutes(form.notice),
                     image |-> form.image, touched |-> form.touched])
    /\ UNCHANGED <<screen, resourceRows, elsewhere, formFaults>>

\* update and its guards; the owner organization is always allowed.
commitUpdate ==
    /\ On("save", "sent") /\ FormOwner \in adminOf
    /\ resource' = [resource EXCEPT !.text = job.data.text, !.notice = job.data.notice,
                                    !.allowed = {FormOwner} \cup job.data.allowed]
    /\ job' = [job EXCEPT !.stage = "committed"]
    /\ UNCHANGED <<screen, stored, storing, blame, others, form, elsewhere, formSteps,
                   formFaults>>

handleDelete ==
    /\ screen = "edit" /\ Editable /\ ~form.submitting /\ FormStep
    /\ form' = Submitted
    /\ Send("delete", NoDetails)
    /\ UNCHANGED <<screen, resourceRows, elsewhere, formFaults>>

commitRemoval ==
    /\ On("delete", "sent") /\ FormOwner \in adminOf
    /\ resource' = [resource EXCEPT !.status = "INACTIVE"]
    /\ job' = [job EXCEPT !.stage = "committed"]
    /\ UNCHANGED <<screen, stored, storing, blame, others, form, elsewhere, formSteps,
                   formFaults>>

\* The image goes to Cloudinary, and then its address into the row.
uploadImage ==
    /\ On("image", "sent") /\ canActivate(adminOf, job.data.owner)
    /\ resource' = IF screen = "edit" THEN [resource EXCEPT !.image = "new"] ELSE resource
    /\ job' = [job EXCEPT !.stage = "committed"]
    /\ UNCHANGED <<screen, stored, storing, blame, others, form, elsewhere, formSteps,
                   formFaults>>

\* The controller evicts before it answers.
clearAfterChange ==
    /\ job.kind \in {"save", "delete", "image", "create"} /\ job.stage = "committed"
    /\ clearDetails
    /\ job' = [job EXCEPT !.stage = "done"]
    /\ UNCHANGED <<screen, resource, storing, others, form, elsewhere, formSteps,
                   formFaults>>

\* The resource is stored; its image, if one was chosen when the form was
\* submitted, comes next.
answerChanges ==
    /\ job.kind \in {"save", "create", "image"} /\ job.stage = "done"
    /\ IF job.kind # "image" /\ job.data.image
       THEN Send("image", [owner |-> job.data.owner]) /\ UNCHANGED form
       ELSE /\ job' = NoJob
            /\ form' = [form EXCEPT !.submitting = FALSE, !.done = TRUE]
    /\ UNCHANGED <<screen, resourceRows, elsewhere, formSteps, formFaults>>

answerRemoval ==
    /\ On("delete", "done")
    /\ job' = NoJob /\ form' = [form EXCEPT !.status = "left"]
    /\ UNCHANGED <<screen, resourceRows, elsewhere, formSteps, formFaults>>

Changes == {"save", "delete", "image", "create", "rate", "slot"}
Failed == [form EXCEPT !.submitting = FALSE, !.error = TRUE]

\* The guards refuse who does not administer the organization any more.
refuseChange ==
    /\ job.kind \in {"save", "delete"} /\ job.stage = "sent" /\ FormOwner \notin adminOf
    /\ form' = Failed /\ job' = NoJob
    /\ UNCHANGED <<screen, resourceRows, elsewhere, formSteps, formFaults>>

\* So does the route of the image: a resource without it is left behind.
refuseImage ==
    /\ On("image", "sent") /\ ~canActivate(adminOf, job.data.owner)
    /\ form' = [Failed EXCEPT !.refused = @ + 1] /\ job' = NoJob
    /\ UNCHANGED <<screen, resourceRows, elsewhere, formSteps, formFaults>>

\* A request fails, or its answer is lost: the form cannot tell the one from the
\* other, and may be submitted again.
failChanges ==
    /\ job.kind \in Changes /\ job.stage \in {"sent", "permitted", "done"} /\ FormFault
    /\ form' = Failed /\ job' = NoJob
    /\ UNCHANGED <<screen, resourceRows, elsewhere, formSteps>>

dieBeforeClear ==
    /\ job.kind \in {"save", "delete", "image", "create"} /\ job.stage = "committed"
    /\ FormFault
    /\ blame' = blame \cup {"died"}
    /\ form' = Failed /\ job' = NoJob
    /\ UNCHANGED <<screen, resource, stored, storing, others, elsewhere, formSteps>>

-----------------------------------------------------------------------------
(* The creation form                                                       *)

\* The page climbs in the list of the organizations that it loaded.
OnlyDirect(admins, o) == o \in admins
isOrganizationManaged(admins, o) ==
    \E path \in SUBSET FormOrgs :
        /\ o \in path
        /\ \A p \in path : p = o \/ \E c \in path : ParentOf[c] = p
        /\ path \cap admins # {}

First(orgs) == CHOOSE o \in orgs : \A p \in orgs : o <= p

loadResourceCreationAccess ==
    /\ On("access", "sent")
    /\ LET owners == {o \in FormOrgs : isOrganizationManaged(adminOf, o)}
           owner == IF owners = {} THEN 0
                    ELSE IF adminOf # {} THEN First(adminOf) ELSE First(owners)
       IN  form' = [status |-> "loaded", submitting |-> FALSE, error |-> FALSE,
                    done |-> FALSE, owners |-> owners, owner |-> owner,
                    allowed |-> IF owner = 0 THEN {} ELSE {owner},
                    image |-> FALSE, refused |-> 0, admins |-> adminOf]
    /\ job' = NoJob
    /\ UNCHANGED <<screen, resourceRows, elsewhere, formSteps, formFaults>>

changeOwner(o) ==
    /\ screen = "create" /\ Editable /\ FormStep
    /\ o \in form.owners
    /\ form' = [form EXCEPT !.owner = o, !.allowed = {o}, !.error = FALSE]
    /\ UNCHANGED <<screen, resourceRows, job, elsewhere, formFaults>>

chooseImage(chosen) ==
    /\ screen \in {"edit", "create"} /\ Editable /\ form.image # chosen
    /\ FormStep
    /\ form' = [form EXCEPT !.image = chosen]
    /\ UNCHANGED <<screen, resourceRows, job, elsewhere, formFaults>>

MaySubmit == screen = "create" /\ Editable /\ ~form.submitting /\ form.owner # 0

submitResource ==
    /\ MaySubmit /\ FormStep
    /\ form' = Submitted
    /\ Send("create", [owner |-> form.owner, allowed |-> form.allowed, image |-> form.image])
    /\ UNCHANGED <<screen, resourceRows, elsewhere, formFaults>>

\* create of the resource service, behind its guards.
createResource ==
    /\ On("create", "sent") /\ canActivate(adminOf, job.data.owner)
    /\ made' = made + 1
    /\ job' = [job EXCEPT !.stage = "committed"]
    /\ UNCHANGED <<screen, resourceRows, adminOf, form, slots, clock, formSteps, formFaults>>

refuseCreation ==
    /\ On("create", "sent") /\ ~canActivate(adminOf, job.data.owner)
    /\ form' = Failed /\ job' = NoJob
    /\ UNCHANGED <<screen, resourceRows, elsewhere, formSteps, formFaults>>

createAnotherResource ==
    /\ screen = "create" /\ form.status = "loaded" /\ form.done /\ FormStep
    /\ form' = [form EXCEPT !.done = FALSE, !.error = FALSE, !.image = FALSE,
                            !.allowed = {form.owner}, !.refused = 0]
    /\ made' = 0
    /\ UNCHANGED <<screen, resourceRows, adminOf, job, slots, clock, formFaults>>

\* The user's memberships change meanwhile.
changeAdmin(o) ==
    /\ screen # "reviews" /\ FormStep
    /\ adminOf' = IF o \in adminOf THEN adminOf \ {o} ELSE adminOf \cup {o}
    /\ UNCHANGED <<screen, resourceRows, form, job, made, slots, clock, formFaults>>

-----------------------------------------------------------------------------
(* The reviews                                                             *)

getRatings ==
    /\ On("reviews", "sent")
    /\ job' = [job EXCEPT !.stage = "read", !.data = made]
    /\ UNCHANGED <<screen, resourceRows, form, elsewhere, formSteps, formFaults>>

applyRatings ==
    /\ On("reviews", "read")
    /\ form' = [form EXCEPT !.status = "loaded", !.mine = job.data]
    /\ job' = NoJob
    /\ UNCHANGED <<screen, resourceRows, elsewhere, formSteps, formFaults>>

handleSubmit(rating) ==
    /\ screen = "reviews" /\ form.status = "loaded" /\ ~form.submitting /\ FormStep
    /\ form' = [Submitted EXCEPT !.told = 0]
    /\ Send("rate", rating)
    /\ UNCHANGED <<screen, resourceRows, elsewhere, formFaults>>

\* One row for each user and resource, made or replaced.
upsertRating ==
    /\ On("rate", "sent")
    /\ made' = job.data
    /\ job' = [job EXCEPT !.stage = "done"]
    /\ UNCHANGED <<screen, resourceRows, adminOf, form, slots, clock, formSteps, formFaults>>

\* The dialog closes and the reviews are asked for again.
CloseOnly ==
    /\ On("rate", "done")
    /\ form' = [form EXCEPT !.submitting = FALSE, !.told = job.data]
    /\ job' = NoJob
    /\ UNCHANGED <<screen, resourceRows, elsewhere, formSteps, formFaults>>
handleRatingSubmitted ==
    /\ On("rate", "done")
    /\ form' = [form EXCEPT !.submitting = FALSE, !.status = "loading", !.told = job.data]
    /\ Send("reviews", NoDetails)
    /\ UNCHANGED <<screen, resourceRows, elsewhere, formSteps, formFaults>>

\* The same user rates in another tab.
rateElsewhere(rating) ==
    /\ screen = "reviews" /\ FormStep
    /\ made' = rating
    /\ form' = [form EXCEPT !.elsewhere = TRUE]
    /\ UNCHANGED <<screen, resourceRows, adminOf, job, slots, clock, formFaults>>

-----------------------------------------------------------------------------
(* The dialog that publishes a slot                                        *)

TimeRange(starts, ends) == [startsAt |-> starts, endsAt |-> ends]
NoRange == TimeRange(0, 0)

\* The next full hour, for an hour.
ThisHour == TimeRange((clock \div HourLength) * HourLength, (clock \div HourLength + 1) * HourLength)
createInitialRange ==
    LET starts == (clock \div HourLength + 1) * HourLength
    IN  TimeRange(starts, starts + HourLength)

slotRangeError(r) == r.startsAt <= clock \/ r.endsAt <= r.startsAt

changeOpen(open) ==
    /\ screen = "slots" /\ form.open # open /\ FormStep
    /\ form' = IF open THEN [form EXCEPT !.open = TRUE, !.range = createInitialRange,
                                         !.error = FALSE, !.created = NoRange, !.at = clock,
                                         !.touched = FALSE]
               ELSE [form EXCEPT !.open = FALSE]
    /\ UNCHANGED <<screen, resourceRows, job, elsewhere, formFaults>>

setRange(r) ==
    /\ screen = "slots" /\ form.open /\ form.created = NoRange
    /\ FormStep
    /\ form' = [form EXCEPT !.range = r, !.error = FALSE, !.touched = TRUE]
    /\ UNCHANGED <<screen, resourceRows, job, elsewhere, formFaults>>

submitSlot ==
    /\ screen = "slots" /\ form.open /\ form.created = NoRange /\ ~form.submitting
    /\ FormStep
    /\ IF slotRangeError(form.range)
       THEN form' = [form EXCEPT !.error = TRUE] /\ UNCHANGED job
       ELSE form' = Submitted /\ Send("slot", form.range)
    /\ UNCHANGED <<screen, resourceRows, elsewhere, formFaults>>

\* The exclusion constraint of the table.
NoConstraint(r) == TRUE
Apart(r) == \A s \in slots : s.range.endsAt <= r.startsAt \/ r.endsAt <= s.range.startsAt

\* 403: only administrators publish slots, of resources that are active.
canManageResource == FormOwner \in adminOf /\ resource.status = "ACTIVE"

permitSlot ==
    /\ On("slot", "sent") /\ job.data.startsAt < job.data.endsAt /\ canManageResource
    /\ job' = [job EXCEPT !.stage = "permitted"]
    /\ UNCHANGED <<screen, resourceRows, form, elsewhere, formSteps, formFaults>>

\* The transaction looks at the resource again, and no more at the memberships.
createResourceSlot ==
    /\ On("slot", "permitted") /\ resource.status = "ACTIVE" /\ Apart(job.data)
    /\ slots' = slots \cup {[n |-> Cardinality(slots) + 1, range |-> job.data]}
    /\ job' = [job EXCEPT !.stage = "done"]
    /\ UNCHANGED <<screen, resourceRows, adminOf, form, made, clock, formSteps, formFaults>>

\* 404 and 409: the resource is gone, or the period overlaps an existing slot.
refuseSlot ==
    /\ \/ On("slot", "sent") /\ ~canManageResource
       \/ On("slot", "permitted") /\ (resource.status # "ACTIVE" \/ ~Apart(job.data))
    /\ form' = Failed /\ job' = NoJob
    /\ UNCHANGED <<screen, resourceRows, elsewhere, formSteps, formFaults>>

\* The answer is shown, in a dialog that was opened again, too.
answerSlot ==
    /\ On("slot", "done")
    /\ form' = [form EXCEPT !.submitting = FALSE, !.created = job.data]
    /\ job' = NoJob
    /\ UNCHANGED <<screen, resourceRows, elsewhere, formSteps, formFaults>>

tickForm ==
    /\ screen = "slots" /\ clock < MaxClock
    /\ clock' = clock + 1
    /\ UNCHANGED <<screen, resourceRows, adminOf, form, job, made, slots, formSteps, formFaults>>

-----------------------------------------------------------------------------
Texts == {"a", "b"}
Ranges == {TimeRange(a, b) : a, b \in 0 .. MaxClock + HourLength}

FormInit ==
    /\ screen \in Screens
    /\ resource \in {[text |-> "a", notice |-> n, allowed |-> {FormOwner}, status |-> "ACTIVE",
                      image |-> "old"] : n \in IF screen = "edit" THEN FormNotices ELSE {0}}
    /\ stored = NoDetails /\ storing = NoDetails /\ blame = {} /\ others = "idle"
    /\ adminOf \in {{FormOwner}, FormOrgs \ {FormOwner}}
    /\ form = CASE screen = "slots" ->
                     [open |-> FALSE, range |-> NoRange, submitting |-> FALSE, error |-> FALSE,
                      created |-> NoRange, status |-> "ready", at |-> 0,
                      touched |-> FALSE]
                [] screen = "reviews" ->
                     [status |-> "loading", submitting |-> FALSE, error |-> FALSE, mine |-> 0,
                      told |-> 0, elsewhere |-> FALSE]
                [] OTHER -> [status |-> "loading"]
    /\ job = IF screen = "slots" THEN NoJob
             ELSE [kind |-> FirstJob(screen), stage |-> "sent", data |-> NoDetails]
    /\ made = 0 /\ slots = {} /\ clock = 0 /\ formSteps = 0 /\ formFaults = 0

FormNext ==
    \/ findOne \/ storeDetails \/ expireDetails \/ otherClear
    \/ \E value \in Texts : otherUpdate("text", value)
    \/ \E value \in FormNotices : otherUpdate("notice", value)
    \/ \E value \in {"ACTIVE", "INACTIVE"} : markUnavailable(value)
    \/ applyDetails \/ denyEdit \/ failFormLoad \/ retryFormLoad
    \/ \E value \in Texts : changeField("text", value)
    \/ \E o \in FormOrgs : toggleOrganization(o) \/ changeOwner(o) \/ changeAdmin(o)
    \/ submitUpdate \/ commitUpdate \/ handleDelete \/ commitRemoval \/ uploadImage
    \/ clearAfterChange \/ answerChanges \/ answerRemoval \/ refuseChange
    \/ refuseImage \/ failChanges \/ dieBeforeClear
    \/ \E chosen \in BOOLEAN : chooseImage(chosen)
    \/ loadResourceCreationAccess \/ submitResource \/ createResource
    \/ refuseCreation \/ createAnotherResource
    \/ getRatings \/ applyRatings \/ upsertRating \/ handleRatingSubmitted
    \/ \E rating \in {1, 2} : handleSubmit(rating) \/ rateElsewhere(rating)
    \/ \E open \in BOOLEAN : changeOpen(open)
    \/ \E r \in Ranges : setRange(r)
    \/ submitSlot \/ permitSlot \/ createResourceSlot \/ refuseSlot \/ answerSlot \/ tickForm

FormSpec == FormInit /\ [][FormNext]_formVars

-----------------------------------------------------------------------------
(* Correctness                                                             *)

\* Cached details differ from the row for a reason: a change is being evicted, a
\* read crossed a change, the service died, or a dispute changed the status.
DetailsHaveACause ==
    /\ stored # NoDetails /\ stored # resource /\ others = "idle"
    /\ job.stage # "committed" /\ blame \cap {"race", "died"} = {}
    => "mark" \in blame /\ [stored EXCEPT !.status = resource.status] = resource

\* Who opens the edit form and saves it as it is changes nothing, if nobody else
\* has: weeks, days, hours and minutes add up to the notice they came from.  What
\* is typed while the form is being saved does not count.
UntouchedSaveChangesNothing ==
    [][commitUpdate /\ ~job.data.touched /\ form.base = resource => resource' = resource]_formVars

\* The creation form makes one resource, and one more for each request that
\* failed and each image that was refused: it offers the resource again, because
\* it cannot tell an image that failed from a resource that failed.
OneResourcePerForm ==
    screen = "create" /\ form.status = "loaded" => made <= 1 + formFaults + form.refused

\* The page offers the organizations that the guards of the service accept.
OfferedOwnersAreAccepted ==
    screen = "create" /\ form.status = "loaded" =>
        form.owners = {o \in FormOrgs : canActivate(form.admins, o)}

\* A user who was told that the rating is stored sees it with the other reviews,
\* unless it was replaced in another tab.
OwnReviewIsShown ==
    screen = "reviews" /\ form.status = "loaded" /\ form.told # 0 /\ ~form.elsewhere =>
        form.mine = form.told

\* A slot that the dialog confirms exists, submitting it again after a lost answer
\* makes no other, and the range that is offered first can be submitted.
SlotDialogIsTruthful ==
    screen = "slots" =>
        /\ form.created # NoRange => \E s \in slots : s.range = form.created
        /\ \A s, t \in slots : s # t => s.range.endsAt <= t.range.startsAt
                                     \/ t.range.endsAt <= s.range.startsAt
        /\ form.open /\ form.at = clock /\ ~form.touched => ~slotRangeError(form.range)

\* The creation form makes what it was asked for, where it may; what is kept and
\* shown of a resource, its reviews and its slots is so.
FormsAreTruthful ==
    /\ OneResourcePerForm /\ OfferedOwnersAreAccepted
    /\ DetailsHaveACause /\ OwnReviewIsShown /\ SlotDialogIsTruthful

=============================================================================
