----------------------------- MODULE Dashboard ------------------------------
(***************************************************************************)
(* The dashboard of the web application: the section that a user visits    *)
(* runs, with the part of the services that it talks to.  The sections     *)
(* keep their state in their own components and read no state of another,  *)
(* so a behaviour visits one section, and the others stay as they start.   *)
(***************************************************************************)
EXTENDS BookingPages, Catalogue, ResourceForms, OrganizationPages, NotificationPages

VARIABLE visiting   \* the section on the screen

Sections == {"bookings", "resources", "forms", "organizations", "notifications"}
dashboardVars == <<visiting, bookingVars, catalogueVars, formVars, orgVars, noticeVars>>

\* Where a section that is not visited stays.
BookingsRest ==
    /\ status = [b \in Bookings |-> "AVAILABLE"]
    /\ \A p \in Pages : page[p] = NewPage(CHOOSE open \in PageSets : TRUE, p)
CatalogueRests == memberships = {}
FormsRest == screen = "slots" /\ adminOf = {FormOwner}
OrganizationsRest == panel = "allocate" /\ tree = {1}
NotificationsRest == inbox = Nothing /\ spot = "card" /\ permission = "default" /\ subs = {}

DashboardInit ==
    /\ visiting \in Sections
    /\ BookingInit /\ (visiting = "bookings" \/ BookingsRest)
    /\ CatalogueInit /\ (visiting = "resources" \/ CatalogueRests)
    /\ FormInit /\ (visiting = "forms" \/ FormsRest)
    /\ OrgInit /\ (visiting = "organizations" \/ OrganizationsRest)
    /\ NoticeInit /\ (visiting = "notifications" \/ NotificationsRest)

DashboardNext ==
    \/ /\ visiting = "bookings" /\ BookingNext
       /\ UNCHANGED <<visiting, catalogueVars, formVars, orgVars, noticeVars>>
    \/ /\ visiting = "resources" /\ CatalogueNext
       /\ UNCHANGED <<visiting, bookingVars, formVars, orgVars, noticeVars>>
    \/ /\ visiting = "forms" /\ FormNext
       /\ UNCHANGED <<visiting, bookingVars, catalogueVars, orgVars, noticeVars>>
    \/ /\ visiting = "organizations" /\ OrgNext
       /\ UNCHANGED <<visiting, bookingVars, catalogueVars, formVars, noticeVars>>
    \/ /\ visiting = "notifications" /\ NoticeNext
       /\ UNCHANGED <<visiting, bookingVars, catalogueVars, formVars, orgVars>>

DashboardSpec == DashboardInit /\ [][DashboardNext]_dashboardVars

=============================================================================
