---------------------------- MODULE MCDashboard -----------------------------
EXTENDS Dashboard

\* The pages that are open together; the balance is beside the user's bookings.
\* The booking dialog is where the user's change meets one of the administrator.
MCPageSets == {{"mine", "card"}, {"mine"}, {"upcoming"}, {"dialog"}, {"org"}, {"history"}}
MCMaxCalls == [open \in MCPageSets |-> IF open = {"dialog"} THEN 2 ELSE 1]

\* A root, 1, with the other organizations of a form below one another.
MCParentOf == [o \in FormOrgs |-> o - 1]

\* Four organizations below one another, and another child of the root.
MCTreeParent == [o \in TreeOrgs |-> IF o = 5 THEN 1 ELSE o - 1]

\* What users do on each page; a change of a rule alone takes five requests.
MCMaxOrgSteps == [p \in DOMAIN PartsOf |-> CASE p = "rules" -> 3 [] p = "members" -> 4
                                             [] OTHER -> 6]
\* The creation form needs five: an image that is refused, and the form again.
MCMaxFormSteps == [s \in Screens |-> IF s = "create" THEN 5 ELSE 4]
=============================================================================
